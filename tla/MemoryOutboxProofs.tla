------------------------- MODULE MemoryOutboxProofs -------------------------
(***************************************************************************)
(* Proofs about MemoryOutbox for any items, workers and numbers of retries *)
(* and mishaps.  What needs one worker only assumes it.  At the end, what  *)
(* holds of the turns of the bot beside it (ModelPermits).                 *)
(***************************************************************************)
EXTENDS ModelPermits, TLAPS

USE DEF row, memory, worker, files

-----------------------------------------------------------------------------
(* Types.                                                                   *)

\* Taking an item out of the queue leaves a queue of items.
LEMMA WithoutType ==
    ASSUME due \in Seq(Items), NEW i
    PROVE  Without(i) \in Seq(Items)
<1>1. CASE \E n \in 1 .. Len(due) : due[n] = i
  <2> DEFINE n == CHOOSE n \in 1 .. Len(due) : due[n] = i
  <2>1. n \in 1 .. Len(due)
    BY <1>1
  <2> HIDE DEF n
  <2>2. SubSeq(due, 1, n - 1) \in Seq(Items) /\ SubSeq(due, n + 1, Len(due)) \in Seq(Items)
    BY <2>1
  <2>3. SubSeq(due, 1, n - 1) \o SubSeq(due, n + 1, Len(due)) \in Seq(Items)
    BY <2>2
  <2> QED BY <1>1, <2>3 DEF Without, n
<1>2. CASE ~ \E n \in 1 .. Len(due) : due[n] = i
  BY <1>2 DEF Without
<1> QED BY <1>1, <1>2

\* The item at the head of the queue.
LEMMA HeadType ==
    ASSUME due \in Seq(Items), due # <<>>
    PROVE  Head(due) \in Items /\ Tail(due) \in Seq(Items)
OBVIOUS

\* What a worker holds when it stands anywhere but between two items.
LEMMA WorkingItem ==
    ASSUME WorkerType, NEW w \in Workers, pc[w] \in Working
    PROVE  item[w] \in Items
BY DEF WorkerType

\* Letting an item go keeps the types of the worker and of the files.
LEMMA LeaveTypes ==
    ASSUME WorkerType, FilesType, NEW w \in Workers, NEW next \in {"idle", "claim"}, Leave(w, next)
    PROVE  WorkerType' /\ FilesType'
<1>1. WorkerType'
  BY NamesAssumption DEF WorkerType, Leave, Working, None
<1>2. FilesType'
  BY DEF FilesType, Leave
<1> QED BY <1>1, <1>2

\* Going on with an item does too.
LEMMA GotoTypes ==
    ASSUME WorkerType, NEW w \in Workers, pc[w] \in Working, NEW next \in Working, Goto(w, next),
           outdated' \subseteq Workers
    PROVE  WorkerType'
BY DEF WorkerType, Goto

\* Every step of a worker keeps the types.
LEMMA WorkKeepsTypes ==
    ASSUME TypeOK, NEW w \in Workers, Work(w) \/ Interrupt(w)
    PROVE  TypeOK'
<1>0. /\ RowType /\ MemoryType /\ WorkerType /\ FilesType /\ mishaps \in Nat
      /\ pc[w] \in Working => item[w] \in Items
  BY WorkingItem DEF TypeOK
<1> USE DEF TypeOK
<1>1. CASE BeginPass(w)
  <2>1. RowType'
    BY <1>0, <1>1 DEF BeginPass, RowType, Settled
  <2>2. WorkerType'
    BY <1>0, <1>1 DEF BeginPass, WorkerType, Goto, Working
  <2> QED BY <1>0, <1>1, <2>1, <2>2 DEF BeginPass, MemoryType, FilesType
<1>2. CASE Claim(w)
  <2> DEFINE i == Head(due)
  <2>1. i \in Items /\ Tail(due) \in Seq(Items)
    BY <1>0, <1>2, HeadType DEF RowType, Claim
  <2> HIDE DEF i
  <2>2. /\ status' = [status EXCEPT ![i] = "processing"]
        /\ attempts' = [attempts EXCEPT ![i] = @ + 1]
        /\ holder' = [holder EXCEPT ![i] = w]
        /\ due' = Tail(due)
        /\ item' = [item EXCEPT ![w] = i]
        /\ charged' = [charged EXCEPT ![w] = attempts'[i]]
        /\ pc' = [pc EXCEPT ![w] = "read"]
        /\ UNCHANGED <<memory, plan, outdated, files, mishaps>>
    BY <1>2 DEF Claim, i
  <2>3. w # None /\ i # None
    BY <2>1, NamesAssumption
  <2>4. RowType'
    BY <1>0, <2>1, <2>2, <2>3 DEF RowType
  <2>5. attempts'[i] \in Nat
    BY <2>1, <2>4 DEF RowType
  <2>6. WorkerType'
    BY <1>0, <2>1, <2>2, <2>3, <2>5 DEF WorkerType, Working
  <2> QED BY <1>0, <2>2, <2>4, <2>6 DEF MemoryType, FilesType
<1>3. CASE EndPass(w)
  <2>1. WorkerType'
    BY <1>0, <1>3 DEF EndPass, WorkerType, Goto, Working
  <2> QED BY <1>0, <1>3, <2>1 DEF EndPass, Mishap, RowType, MemoryType, FilesType
<1>4. CASE Read(w)
  <2>1. pc[w] \in Working /\ outdated' \subseteq Workers
    BY <1>0, <1>4 DEF Read, WorkerType, Working
  <2>2. WorkerType'
    BY <1>0, <1>4, <2>1, GotoTypes DEF Read, Working
  <2> QED BY <1>0, <1>4, <2>2 DEF Read, RowType, MemoryType, FilesType
<1>5. CASE Propose(w)
  <2>1. WorkerType'
    BY <1>0, <1>5 DEF Propose, Planned, WorkerType, Goto, Working
  <2> QED BY <1>0, <1>5, <2>1 DEF Propose, RowType, MemoryType, FilesType
<1>6. CASE Apply(w)
  <2>1. pc[w] \in Working /\ outdated' \subseteq Workers /\ MemoryType'
    BY <1>0, <1>6 DEF Apply, Commit, WorkerType, Working, MemoryType
  <2>2. WorkerType'
    BY <1>0, <1>6, <2>1, GotoTypes DEF Apply, Commit, Working
  <2> QED BY <1>0, <1>6, <2>1, <2>2 DEF Apply, RowType, FilesType
<1>7. CASE Render(w)
  <2>1. pc[w] \in Working /\ outdated' \subseteq Workers
    BY <1>0, <1>7 DEF Render, WorkerType, Working
  <2>2. WorkerType'
    BY <1>0, <1>7, <2>1, GotoTypes DEF Render, Working
  <2>3. FilesType'
    BY <1>0, <1>7 DEF Render, FilesType
  <2> QED BY <1>0, <1>7, <2>2, <2>3 DEF Render, RowType, MemoryType
<1>8. CASE Backup(w)
  <2>1. pc[w] \in Working /\ outdated' \subseteq Workers
    BY <1>0, <1>8 DEF Backup, WorkerType, Working
  <2>2. WorkerType'
    BY <1>0, <1>8, <2>1, GotoTypes DEF Backup, Working
  <2>3. FilesType'
    BY <1>0, <1>8 DEF Backup, FilesType
  <2> QED BY <1>0, <1>8, <2>2, <2>3 DEF Backup, RowType, MemoryType
<1>9. CASE Promote(w)
  <2>1. pc[w] \in Working /\ outdated' \subseteq Workers
    BY <1>0, <1>9 DEF Promote, WorkerType, Working
  <2>2. WorkerType'
    BY <1>0, <1>9, <2>1, GotoTypes DEF Promote, Working
  <2>3. FilesType'
    BY <1>0, <1>9 DEF Promote, FilesType
  <2> QED BY <1>0, <1>9, <2>2, <2>3 DEF Promote, RowType, MemoryType
<1>10. CASE Complete(w) \/ Retry(w) \/ Defer(w) \/ Interrupt(w)
  <2>1. WorkerType' /\ FilesType'
    BY <1>0, <1>10, LeaveTypes DEF Complete, Retry, Defer, Interrupt
  <2>2. MemoryType' /\ mishaps' \in Nat
    BY <1>0, <1>10 DEF Complete, Retry, Defer, Interrupt, Mishap, MemoryType
  <2>3. CASE UNCHANGED row
    BY <1>0, <2>1, <2>2, <2>3 DEF RowType
  <2>4. CASE ~ UNCHANGED row
    <3>1. /\ item[w] \in Items
          /\ \E s \in {"done", "failed", "pending"} : status' = [status EXCEPT ![item[w]] = s]
          /\ holder' = [holder EXCEPT ![item[w]] = None]
          /\ \/ attempts' = attempts
             \/ attempts' = [attempts EXCEPT ![item[w]] = IF @ > 0 THEN @ - 1 ELSE 0]
      BY <1>0, <1>10, <2>4 DEF Complete, Retry, Defer, Interrupt, Working
    <3>2. due' = Without(item[w]) \/ due' = Append(Without(item[w]), item[w])
      BY <1>0, <1>10, <2>4 DEF Complete, Retry, Defer, Interrupt
    <3>3. due' \in Seq(Items)
      <4>1. Without(item[w]) \in Seq(Items)
        BY <1>0, WithoutType DEF RowType
      <4>2. Append(Without(item[w]), item[w]) \in Seq(Items)
        BY <3>1, <4>1
      <4> QED BY <3>2, <4>1, <4>2
    <3>4. attempts' \in [Items -> Nat]
      BY <1>0, <3>1 DEF RowType
    <3>5. RowType'
      BY <1>0, <3>1, <3>3, <3>4 DEF RowType
    <3> QED BY <2>1, <2>2, <3>5
  <2> QED BY <2>3, <2>4
<1> QED BY <1>1, <1>2, <1>3, <1>4, <1>5, <1>6, <1>7, <1>8, <1>9, <1>10 DEF Work

\* Every step keeps the types.
LEMMA NextKeepsTypes == TypeOK /\ [Next]_vars => TypeOK'
<1> SUFFICES ASSUME TypeOK, [Next]_vars PROVE TypeOK'
  OBVIOUS
<1> USE DEF TypeOK
<1>1. ASSUME NEW i \in Items, Enqueue(i) PROVE TypeOK'
  <2>1. RowType'
    BY <1>1 DEF RowType, Enqueue
  <2> QED BY <1>1, <2>1 DEF Enqueue, MemoryType, WorkerType, FilesType
<1>2. ASSUME NEW i \in Items, Due(i) PROVE TypeOK'
  <2>1. RowType'
    BY <1>2 DEF RowType, Due
  <2> QED BY <1>2, <2>1 DEF Due, Mishap, MemoryType, WorkerType, FilesType
<1>3. ASSUME NEW w \in Workers, Work(w) \/ Interrupt(w) PROVE TypeOK'
  BY <1>3, WorkKeepsTypes
<1>4. CASE UNCHANGED vars
  BY <1>4 DEF vars, RowType, MemoryType, WorkerType, FilesType
<1> QED BY <1>1, <1>2, <1>3, <1>4 DEF Next

\* Every variable keeps its type, an item is leased exactly while it is in
\* processing, and a worker has an item exactly while it works.
THEOREM TypeCorrect == Spec => []TypeOK
<1>1. Init => TypeOK
  BY DEF Init, TypeOK, RowType, MemoryType, WorkerType, FilesType, Working
<1> QED BY <1>1, NextKeepsTypes, PTL DEF Spec

-----------------------------------------------------------------------------
(* Receipts.                                                                *)

\* What has a receipt was applied once, and nothing else was applied.
Receipted == \A i \in Items : applied[i] = IF i \in receipts THEN 1 ELSE 0

\* The receipt and the operations are one transaction.
LEMMA NextKeepsReceipted == TypeOK /\ Receipted /\ [Next]_vars => Receipted'
<1> SUFFICES ASSUME TypeOK, Receipted, [Next]_vars PROVE Receipted'
  OBVIOUS
<1>1. CASE UNCHANGED <<receipts, applied>>
  BY <1>1 DEF Receipted
<1>2. ASSUME NEW w \in Workers, Apply(w), ~ UNCHANGED <<receipts, applied>> PROVE Receipted'
  <2>1. pc[w] \in Working
    BY <1>2 DEF Apply, Working
  <2>2. item[w] \in Items
    BY <2>1, WorkingItem DEF TypeOK
  <2>3. item[w] \notin receipts /\ Commit(w)
    BY <1>2 DEF Apply
  <2> QED BY <2>2, <2>3 DEF Receipted, Commit, TypeOK, MemoryType
<1>3. \A w \in Workers : Apply(w) \/ UNCHANGED <<receipts, applied>>
                         \/ ~ (Work(w) \/ Interrupt(w))
  BY DEF Work, BeginPass, Claim, EndPass, Read, Propose, Render, Backup, Promote, Complete,
         Retry, Defer, Interrupt
<1>4. \A i \in Items : Enqueue(i) \/ Due(i) => UNCHANGED <<receipts, applied>>
  BY DEF Enqueue, Due
<1> QED BY <1>1, <1>2, <1>3, <1>4 DEF Next, vars

\* However often an item is claimed again, after a crash, a retry or a lease
\* that passed to another worker, its patch is applied once at most.
THEOREM NoPatchAppliedTwice == Spec => []AppliedOnce
<1>1. Init => Receipted
  BY DEF Init, Receipted
<1>2. Receipted => AppliedOnce
  BY DEF Receipted, AppliedOnce
<1> QED BY <1>1, <1>2, TypeCorrect, NextKeepsReceipted, PTL DEF Spec

-----------------------------------------------------------------------------
(* Leases.                                                                  *)

\* A worker that settles an item holds its lease, so the item is in processing.
LEMMA NextKeepsSettled ==
    ASSUME TypeOK, [Next]_vars, NEW i \in Items, status[i] \in Settled
    PROVE  status'[i] \in {status[i], "gone"}
<1> USE DEF TypeOK, Settled
<1>1. CASE UNCHANGED status
  BY <1>1
<1>2. ASSUME NEW j \in Items, Enqueue(j) \/ Due(j) PROVE status'[i] \in {status[i], "gone"}
  BY <1>2 DEF Enqueue, Due, RowType
<1>3. ASSUME NEW w \in Workers, BeginPass(w) PROVE status'[i] \in {status[i], "gone"}
  BY <1>3 DEF BeginPass
<1>4. ASSUME NEW w \in Workers, Claim(w) PROVE status'[i] \in {status[i], "gone"}
  BY <1>4, HeadType DEF Claim, RowType
<1>5. ASSUME NEW w \in Workers, Complete(w) \/ Retry(w) \/ Defer(w), ~ UNCHANGED status
      PROVE  status'[i] \in {status[i], "gone"}
  <2>1. pc[w] \in Working
    BY <1>5 DEF Complete, Retry, Defer, Working
  <2>2. item[w] \in Items
    BY <2>1, WorkingItem
  <2>3. holder[item[w]] = w
    BY <1>5 DEF Complete, Retry, Defer
  <2>4. status[item[w]] = "processing"
    BY <2>2, <2>3, NamesAssumption DEF RowType
  <2>5. \E s : status' = [status EXCEPT ![item[w]] = s]
    BY <1>5 DEF Complete, Retry, Defer
  <2> QED BY <2>2, <2>4, <2>5 DEF RowType
<1>6. \A w \in Workers :
          Work(w) \/ Interrupt(w) =>
              BeginPass(w) \/ Claim(w) \/ Complete(w) \/ Retry(w) \/ Defer(w) \/ UNCHANGED status
  BY DEF Work, EndPass, Read, Propose, Apply, Render, Backup, Promote, Interrupt
<1> QED BY <1>1, <1>2, <1>3, <1>4, <1>5, <1>6 DEF Next, vars

\* No worker brings back what another one has settled.
THEOREM SettledForGood == Spec => SettledStays
<1>1. TypeOK /\ [Next]_vars =>
          [\A i \in Items : status[i] \in Settled => status'[i] \in {status[i], "gone"}]_vars
  BY NextKeepsSettled
<1> QED BY <1>1, TypeCorrect, PTL DEF Spec, SettledStays

-----------------------------------------------------------------------------
(* Attempts.                                                                *)

\* While a lease is a worker's own, it knows how often its item was tried.
Charged == \A w \in Workers :
    pc[w] \in Working /\ holder[item[w]] = w => charged[w] = attempts[item[w]]

AttemptsInv == TypeOK /\ Charged /\ FailedIsExhausted

\* Only a claim and the holder of a lease change the attempts of an item.
LEMMA NextKeepsAttempts == AttemptsInv /\ [Next]_vars => AttemptsInv'
<1> SUFFICES ASSUME AttemptsInv, [Next]_vars PROVE AttemptsInv'
  OBVIOUS
<1>0. TypeOK /\ TypeOK' /\ Charged /\ FailedIsExhausted
  BY NextKeepsTypes DEF AttemptsInv
<1>t. /\ status \in [Items -> {"new", "pending", "processing", "done", "failed", "gone"}]
      /\ attempts \in [Items -> Nat] /\ holder \in [Items -> Workers \cup {None}]
      /\ pc \in [Workers -> Working \cup {"idle", "claim"}]
      /\ item \in [Workers -> Items \cup {None}] /\ charged \in [Workers -> Nat]
      /\ \A v \in Workers : pc[v] \in Working => item[v] \in Items
      /\ None \notin Workers /\ None \notin Items
  BY <1>0, NamesAssumption DEF TypeOK, RowType, WorkerType
<1>1. ASSUME NEW i \in Items, Enqueue(i) \/ Due(i) PROVE Charged' /\ FailedIsExhausted'
  BY <1>0, <1>t, <1>1 DEF Enqueue, Due, Charged, FailedIsExhausted
<1>2. ASSUME NEW w \in Workers, BeginPass(w) PROVE Charged' /\ FailedIsExhausted'
  BY <1>0, <1>t, <1>2 DEF BeginPass, Goto, Charged, FailedIsExhausted, Working
<1>3. ASSUME NEW w \in Workers, Claim(w) PROVE Charged' /\ FailedIsExhausted'
  <2> DEFINE i == Head(due)
  <2>1. i \in Items
    BY <1>0, <1>3, HeadType DEF TypeOK, RowType, Claim
  <2>2. /\ status' = [status EXCEPT ![i] = "processing"]
        /\ attempts' = [attempts EXCEPT ![i] = @ + 1]
        /\ holder' = [holder EXCEPT ![i] = w]
        /\ item' = [item EXCEPT ![w] = i]
        /\ charged' = [charged EXCEPT ![w] = attempts'[i]]
        /\ pc' = [pc EXCEPT ![w] = "read"]
    BY <1>3 DEF Claim
  <2> HIDE DEF i
  <2>3. FailedIsExhausted'
    BY <1>0, <1>t, <2>1, <2>2 DEF FailedIsExhausted
  <2>4. ASSUME NEW v \in Workers, pc'[v] \in Working, holder'[item'[v]] = v
        PROVE  charged'[v] = attempts'[item'[v]]
    <3>1. CASE v = w
      BY <1>t, <2>1, <2>2, <3>1
    <3>2. CASE v # w
      <4>1. item'[v] = item[v] /\ pc'[v] = pc[v] /\ charged'[v] = charged[v]
        BY <1>t, <2>2, <3>2
      <4>2. item[v] # i
        BY <1>t, <2>1, <2>2, <2>4, <3>2, <4>1
      <4>3. holder[item[v]] = v /\ attempts'[item[v]] = attempts[item[v]]
        BY <1>t, <2>1, <2>2, <2>4, <4>1, <4>2
      <4> QED BY <1>0, <2>4, <4>1, <4>3 DEF Charged
    <3> QED BY <3>1, <3>2
  <2> QED BY <2>3, <2>4 DEF Charged
<1>4. ASSUME NEW w \in Workers,
             \/ EndPass(w) \/ Read(w) \/ Propose(w) \/ Apply(w)
             \/ Render(w) \/ Backup(w) \/ Promote(w)
      PROVE  Charged' /\ FailedIsExhausted'
  <2>1. /\ UNCHANGED <<status, attempts, holder, item, charged>>
        /\ \A v \in Workers : pc'[v] \in Working => pc[v] \in Working
    BY <1>t, <1>4 DEF EndPass, Read, Propose, Planned, Apply, Render, Backup, Promote, Goto, Working
  <2> QED BY <1>0, <2>1 DEF Charged, FailedIsExhausted
<1>5. ASSUME NEW w \in Workers, Complete(w) \/ Retry(w) \/ Defer(w) \/ Interrupt(w)
      PROVE  Charged' /\ FailedIsExhausted'
  <2>1. /\ \A v \in Workers \ {w} : item'[v] = item[v] /\ pc'[v] = pc[v] /\ charged'[v] = charged[v]
        /\ pc'[w] \notin Working
    BY <1>t, <1>5 DEF Complete, Retry, Defer, Interrupt, Leave, Working
  <2>2. CASE UNCHANGED <<status, attempts, holder>>
    BY <1>0, <2>1, <2>2 DEF Charged, FailedIsExhausted
  <2>3. CASE ~ UNCHANGED <<status, attempts, holder>>
    <3> DEFINE i == item[w]
    <3>1. pc[w] \in Working
      BY <1>5, <2>3 DEF Complete, Retry, Defer, Interrupt, Working
    <3>2. i \in Items /\ holder[i] = w
      BY <1>t, <1>5, <2>3, <3>1 DEF Complete, Retry, Defer, Interrupt
    <3>3. charged[w] = attempts[i]
      BY <1>0, <3>1, <3>2 DEF Charged
    <3>4. /\ holder' = [holder EXCEPT ![i] = None]
          /\ \/ attempts' = attempts
             \/ attempts' = [attempts EXCEPT ![i] = IF @ > 0 THEN @ - 1 ELSE 0]
          /\ \E s \in {"done", "failed", "pending"} :
                 /\ status' = [status EXCEPT ![i] = s]
                 /\ s = "failed" => charged[w] >= MaxRetries /\ attempts' = attempts
      BY <1>5, <2>3 DEF Complete, Retry, Defer, Interrupt
    <3> HIDE DEF i
    <3>5. FailedIsExhausted'
      BY <1>0, <1>t, <3>2, <3>3, <3>4 DEF FailedIsExhausted
    <3>6. ASSUME NEW v \in Workers, pc'[v] \in Working, holder'[item'[v]] = v
          PROVE  charged'[v] = attempts'[item'[v]]
      <4>1. v # w /\ item'[v] = item[v] /\ pc'[v] = pc[v] /\ charged'[v] = charged[v]
        BY <2>1, <3>6
      <4>2. item[v] \in Items /\ item[v] # i
        BY <1>t, <3>2, <3>4, <3>6, <4>1
      <4>3. holder[item[v]] = v /\ attempts'[item[v]] = attempts[item[v]]
        BY <1>t, <3>2, <3>4, <3>6, <4>1, <4>2
      <4> QED BY <1>0, <3>6, <4>1, <4>3 DEF Charged
    <3> QED BY <3>5, <3>6 DEF Charged
  <2> QED BY <2>2, <2>3
<1>6. ASSUME UNCHANGED vars PROVE Charged' /\ FailedIsExhausted'
  BY <1>0, <1>6 DEF vars, Charged, FailedIsExhausted
<1>7. Charged' /\ FailedIsExhausted'
  BY <1>1, <1>2, <1>3, <1>4, <1>5, <1>6 DEF Next, Work
<1> QED BY <1>0, <1>7 DEF AttemptsInv

\* An item that failed was tried as often as configured.
THEOREM FailedWasTried == Spec => []FailedIsExhausted
<1>1. Init => AttemptsInv
  <2>1. Init => TypeOK
    BY DEF Init, TypeOK, RowType, MemoryType, WorkerType, FilesType, Working
  <2> QED BY <2>1 DEF Init, AttemptsInv, Charged, FailedIsExhausted, Working
<1>2. AttemptsInv => FailedIsExhausted
  BY DEF AttemptsInv
<1> QED BY <1>1, <1>2, NextKeepsAttempts, PTL DEF Spec

-----------------------------------------------------------------------------
(* One worker.                                                              *)

OneWorker == \A v, w \in Workers : v = w

\* Nobody else changes a topic, trusted operations are never dropped, and what
\* has a receipt or has been applied just now is in the memory.
KeptInv ==
    /\ outdated = {}
    /\ \A i \in Trusted : i \in receipts => i \in kept
    /\ \A w \in Workers : item[w] \in Trusted =>
           /\ pc[w] = "apply" => plan[w] \in {"trusted", "merged"}
           /\ pc[w] \in {"render", "backup", "promote", "complete"} => item[w] \in kept
    /\ DoneIsKept

\* What the worker read stays so until it applies its patch.
LEMMA NextKeepsKept == OneWorker /\ TypeOK /\ KeptInv /\ [Next]_vars => KeptInv'
<1> SUFFICES ASSUME OneWorker, TypeOK, KeptInv, [Next]_vars PROVE KeptInv'
  OBVIOUS
<1>t. /\ status \in [Items -> {"new", "pending", "processing", "done", "failed", "gone"}]
      /\ pc \in [Workers -> Working \cup {"idle", "claim"}]
      /\ item \in [Workers -> Items \cup {None}]
      /\ plan \in [Workers -> {None, "nothing", "proposed", "trusted", "merged"}]
      /\ \A v \in Workers : pc[v] \in Working => item[v] \in Items
      /\ None \notin Trusted /\ Trusted \subseteq Items
  BY NamesAssumption, OutboxAssumption DEF TypeOK, RowType, WorkerType
<1>1. ASSUME NEW i \in Items, Enqueue(i) \/ Due(i) PROVE KeptInv'
  BY <1>t, <1>1 DEF Enqueue, Due, KeptInv, DoneIsKept
<1>2. ASSUME NEW w \in Workers, BeginPass(w) \/ Claim(w) \/ EndPass(w) PROVE KeptInv'
  <2>1. /\ UNCHANGED <<memory, outdated>>
        /\ \A i \in Items : status'[i] = "done" => status[i] = "done"
        /\ pc'[w] \notin {"apply", "render", "backup", "promote", "complete"}
    BY <1>t, <1>2, HeadType DEF BeginPass, Claim, EndPass, Goto, TypeOK, RowType
  <2> QED BY <1>t, <2>1 DEF OneWorker, KeptInv, DoneIsKept
<1>3. ASSUME NEW w \in Workers, Read(w) \/ Propose(w) PROVE KeptInv'
  <2>1. UNCHANGED <<row, memory, item>> /\ outdated' = {}
    BY <1>3 DEF Read, Propose, Planned, Goto, KeptInv
  <2>2. /\ pc'[w] \notin {"render", "backup", "promote", "complete"}
        /\ item[w] \in Trusted /\ pc'[w] = "apply" => plan'[w] \in {"trusted", "merged"}
    BY <1>t, <1>3 DEF Read, Propose, Planned, Goto
  <2> QED BY <1>t, <2>1, <2>2 DEF OneWorker, KeptInv, DoneIsKept
<1>4. ASSUME NEW w \in Workers, Apply(w) PROVE KeptInv'
  <2>1. outdated = {} /\ outdated' = {} /\ UNCHANGED <<row, item>>
    BY <1>4 DEF Apply, Commit, Goto, OneWorker, KeptInv
  <2>2. /\ kept \subseteq kept'
        /\ pc'[w] \in {"render", "retry"}
        /\ pc'[w] = "render" /\ item[w] \in Trusted => item[w] \in kept'
        /\ receipts' \subseteq receipts \cup {item[w]}
        /\ item[w] \in receipts' => item[w] \in receipts \/ item[w] \in kept' \/ item[w] \notin Trusted
    <3>1. pc[w] = "apply" /\ (item[w] \in Trusted => plan[w] \notin {"nothing", "proposed"})
      BY <1>4 DEF Apply, KeptInv
    <3>2. CASE UNCHANGED <<memory, outdated>> /\ Goto(w, "retry")
      BY <1>t, <3>2 DEF Goto
    <3>3. CASE /\ plan[w] \in {"nothing", "proposed"} \/ item[w] \in receipts \/ w \in outdated
               /\ UNCHANGED <<memory, outdated>> /\ Goto(w, "render")
      BY <1>t, <2>1, <3>1, <3>3 DEF Goto, KeptInv
    <3>4. CASE Commit(w) /\ kept' = kept \cup ({item[w]} \cap Trusted) /\ Goto(w, "render")
      BY <1>t, <3>4 DEF Goto, Commit
    <3> QED BY <1>4, <2>1, <3>2, <3>3, <3>4 DEF Apply
  <2> QED BY <1>t, <2>1, <2>2 DEF OneWorker, KeptInv, DoneIsKept
<1>5. ASSUME NEW w \in Workers, Render(w) \/ Backup(w) \/ Promote(w) PROVE KeptInv'
  <2>1. /\ UNCHANGED <<row, memory, item, outdated>>
        /\ pc[w] \in {"render", "backup", "promote"} /\ pc'[w] # "apply"
    BY <1>t, <1>5 DEF Render, Backup, Promote, Goto
  <2> QED BY <1>t, <2>1 DEF OneWorker, KeptInv, DoneIsKept
<1>6. ASSUME NEW w \in Workers, Complete(w) PROVE KeptInv'
  <2>1. /\ UNCHANGED memory /\ pc'[w] \in {"idle", "claim"} /\ outdated' = outdated \ {w}
        /\ pc[w] = "complete" /\ item[w] \in Items
        /\ status' = status \/ status' = [status EXCEPT ![item[w]] = "done"]
    BY <1>t, <1>6 DEF Complete, Leave, Working
  <2> QED BY <1>t, <2>1 DEF OneWorker, KeptInv, DoneIsKept
<1>7. ASSUME NEW w \in Workers, Retry(w) \/ Defer(w) \/ Interrupt(w) PROVE KeptInv'
  <2>1. UNCHANGED memory /\ pc'[w] = "idle" /\ outdated' = outdated \ {w}
    BY <1>t, <1>7 DEF Retry, Defer, Interrupt, Leave
  <2>2. (pc[w] \in Working /\ item[w] \in Items) \/ status' = status
    BY <1>t, <1>7 DEF Retry, Defer, Interrupt, Working
  <2>3. \/ status' = status
        \/ \E s \in {"failed", "pending"} : status' = [status EXCEPT ![item[w]] = s]
    BY <1>7 DEF Retry, Defer, Interrupt
  <2>4. \A i \in Items : status'[i] = "done" => status[i] = "done"
    BY <1>t, <2>2, <2>3
  <2> QED BY <1>t, <2>1, <2>4 DEF OneWorker, KeptInv, DoneIsKept
<1>8. CASE UNCHANGED vars
  BY <1>8 DEF vars, KeptInv, DoneIsKept
<1> QED BY <1>1, <1>2, <1>3, <1>4, <1>5, <1>6, <1>7, <1>8 DEF Next, Work

\* With one worker, a fact a user stated is in the memory once its item is done.
THEOREM FactsAreKept == ASSUME OneWorker PROVE Spec => []DoneIsKept
<1>1. Init => KeptInv
  BY OutboxAssumption DEF Init, KeptInv, DoneIsKept
<1>2. KeptInv => DoneIsKept
  BY DEF KeptInv
<1>3. TypeOK /\ KeptInv /\ [Next]_vars => KeptInv'
  BY OneWorker, NextKeepsKept
<1> QED BY <1>1, <1>2, <1>3, TypeCorrect, PTL DEF Spec

\* With one worker, what failed was tried and what is done was kept.
THEOREM SettledForAReason == ASSUME OneWorker PROVE Spec => []SettledHonestly
<1>1. FailedIsExhausted /\ DoneIsKept => SettledHonestly
  BY DEF SettledHonestly
<1>2. Spec => []DoneIsKept
  BY OneWorker, FactsAreKept
<1> QED BY <1>1, <1>2, FailedWasTried, PTL

\* What files show: every item that is done.
Shows(b) == b # NoBundle => \A i \in Items : status[i] = "done" /\ applied[i] > 0 => i \in b

\* The item of the one worker stays claimed, so what it applies is not done yet;
\* its snapshot stays current, and its bundle and backup show what was done.
ShownInv ==
    /\ Shows(bundle)
    /\ \A w \in Workers :
          /\ pc[w] \in Working => status[item[w]] = "processing"
          /\ pc[w] \in {"backup", "promote"} => shown[w] = {i \in Items : applied[i] > 0}
          /\ pc[w] = "promote" => Shows(previous[w])
          /\ pc[w] = "complete" => bundle = {i \in Items : applied[i] > 0}

\* Nothing is applied or completed between the snapshot and the completion.
LEMMA NextKeepsShown == OneWorker /\ TypeOK /\ ShownInv /\ [Next]_vars => ShownInv'
<1> SUFFICES ASSUME OneWorker, TypeOK, ShownInv, [Next]_vars PROVE ShownInv'
  OBVIOUS
<1>t. /\ status \in [Items -> {"new", "pending", "processing", "done", "failed", "gone"}]
      /\ pc \in [Workers -> Working \cup {"idle", "claim"}]
      /\ applied \in [Items -> Nat]
      /\ shown \in [Workers -> SUBSET Items]
      /\ previous \in [Workers -> (SUBSET Items) \cup {NoBundle}]
      /\ \A v \in Workers : pc[v] \in Working => item[v] \in Items
  BY NamesAssumption DEF TypeOK, RowType, MemoryType, WorkerType, FilesType
<1>1. ASSUME NEW i \in Items, Enqueue(i) \/ Due(i) PROVE ShownInv'
  <2>1. UNCHANGED <<memory, worker, files>>
    BY <1>1 DEF Enqueue, Due
  <2>2. \A j \in Items : /\ status'[j] = "done" => status[j] = "done"
                         /\ status[j] = "processing" => status'[j] = "processing"
    BY <1>t, <1>1 DEF Enqueue, Due
  <2>3. Shows(bundle)' /\ \A w \in Workers : Shows(previous[w]) => Shows(previous[w])'
    BY <2>1, <2>2 DEF ShownInv, Shows
  <2>4. \A w \in Workers : pc[w] \in Working => status'[item[w]] = "processing"
    BY <1>t, <2>2 DEF ShownInv
  <2> QED BY <2>1, <2>3, <2>4 DEF ShownInv
<1>2. ASSUME NEW w \in Workers,
             \/ BeginPass(w) \/ Claim(w) \/ EndPass(w) \/ Read(w) \/ Propose(w)
             \/ Retry(w) \/ Defer(w) \/ Interrupt(w)
      PROVE  ShownInv'
  <2>1. UNCHANGED <<memory, bundle>> /\ pc'[w] \in {"idle", "claim", "read", "propose", "apply", "retry", "defer"}
    BY <1>t, <1>2 DEF BeginPass, Claim, EndPass, Read, Propose, Planned, Retry, Defer, Interrupt, Leave, Goto
  <2>2. \A i \in Items : status'[i] = "done" => status[i] = "done"
    <3>1. CASE BeginPass(w) \/ EndPass(w) \/ Read(w) \/ Propose(w) \/ Interrupt(w)
      BY <1>t, <3>1 DEF BeginPass, EndPass, Read, Propose, Interrupt
    <3>2. CASE Claim(w)
      BY <1>t, <3>2, HeadType DEF Claim, TypeOK, RowType
    <3>3. CASE Retry(w) \/ Defer(w)
      BY <1>t, <3>3 DEF Retry, Defer, Working
    <3> QED BY <1>2, <3>1, <3>2, <3>3
  <2>3. pc'[w] \in Working => status'[item'[w]] = "processing"
    <3>1. CASE BeginPass(w) \/ EndPass(w) \/ Retry(w) \/ Defer(w) \/ Interrupt(w)
      BY <1>t, <3>1 DEF BeginPass, EndPass, Retry, Defer, Interrupt, Leave, Goto, Working
    <3>2. CASE Claim(w)
      BY <1>t, <3>2, HeadType DEF Claim, TypeOK, RowType, WorkerType
    <3>3. CASE Read(w) \/ Propose(w)
      BY <1>t, <3>3 DEF Read, Propose, Planned, Goto, Working, ShownInv
    <3> QED BY <1>2, <3>1, <3>2, <3>3
  <2> QED BY <2>1, <2>2, <2>3 DEF OneWorker, ShownInv, Shows
<1>3. ASSUME NEW w \in Workers, Apply(w) PROVE ShownInv'
  <2>1. /\ UNCHANGED <<row, item, bundle>> /\ pc'[w] \in {"render", "retry"}
        /\ pc[w] \in Working /\ item[w] \in Items /\ status[item[w]] = "processing"
    BY <1>t, <1>3 DEF Apply, Goto, Working, ShownInv
  <2>2. \A i \in Items : status[i] = "done" /\ applied'[i] > 0 => applied[i] > 0 \/ i = item[w]
    BY <1>t, <1>3 DEF Apply, Commit
  <2> QED BY <2>1, <2>2 DEF OneWorker, ShownInv, Shows
<1>4. ASSUME NEW w \in Workers, Render(w) PROVE ShownInv'
  <2>1. UNCHANGED <<row, memory, item, bundle>> /\ pc[w] \in Working
    BY <1>4 DEF Render, Goto, Working
  <2>2. \/ pc'[w] = "backup" /\ shown'[w] = {i \in Items : applied[i] > 0}
        \/ pc'[w] = "retry"
    BY <1>t, <1>4 DEF Render, Goto
  <2> QED BY <2>1, <2>2 DEF OneWorker, ShownInv, Shows
<1>5. ASSUME NEW w \in Workers, Backup(w) PROVE ShownInv'
  <2>1. UNCHANGED <<row, memory, item, shown>> /\ pc[w] \in Working
    BY <1>5 DEF Backup, Goto, Working
  <2>2. \/ pc[w] = "backup" /\ pc'[w] = "promote" /\ previous'[w] = bundle /\ bundle' = NoBundle
        \/ pc'[w] = "retry" /\ bundle' = bundle
    BY <1>t, <1>5 DEF Backup, Goto
  <2> QED BY <2>1, <2>2 DEF OneWorker, ShownInv, Shows
<1>6. ASSUME NEW w \in Workers, Promote(w) PROVE ShownInv'
  <2>1. UNCHANGED <<row, memory, item>> /\ pc[w] = "promote" /\ pc[w] \in Working
    BY <1>6 DEF Promote, Goto, Working
  <2>2. \/ bundle' = shown[w] /\ pc'[w] \in {"complete", "retry"}
        \/ bundle' \in {previous[w], NoBundle} /\ pc'[w] = "retry"
    BY <1>t, <1>6 DEF Promote, Goto
  <2> QED BY <2>1, <2>2 DEF OneWorker, ShownInv, Shows
<1>7. ASSUME NEW w \in Workers, Complete(w) PROVE ShownInv'
  <2>1. /\ UNCHANGED <<memory, bundle>> /\ pc'[w] \in {"idle", "claim"}
        /\ pc[w] = "complete" /\ pc'[w] \notin Working
        /\ status' = status \/ status' = [status EXCEPT ![item[w]] = "done"]
    BY <1>t, <1>7 DEF Complete, Leave, Working
  <2>2. bundle = {i \in Items : applied[i] > 0}
    BY <2>1 DEF ShownInv
  <2> QED BY <2>1, <2>2 DEF OneWorker, ShownInv, Shows
<1>8. CASE UNCHANGED vars
  BY <1>8 DEF vars, ShownInv, Shows
<1> QED BY <1>1, <1>2, <1>3, <1>4, <1>5, <1>6, <1>7, <1>8 DEF Next, Work

\* With one worker, whatever fails between the two renames, files that are there
\* show every item that is done.
THEOREM FilesShowWhatIsDone == ASSUME OneWorker PROVE Spec => []BundleShowsDone
<1>1. Init => ShownInv
  BY DEF Init, ShownInv, Shows, Working
<1>2. ShownInv => BundleShowsDone
  BY DEF ShownInv, Shows, BundleShowsDone
<1>3. TypeOK /\ ShownInv /\ [Next]_vars => ShownInv'
  BY OneWorker, NextKeepsShown
<1> QED BY <1>1, <1>2, <1>3, TypeCorrect, PTL DEF Spec

-----------------------------------------------------------------------------
(* The outbox beside the turns that wait for the same permits. BotTurnProofs *)
(* has what turns give back, as theorems of an instance of its own, of the   *)
(* same definitions.                                                         *)

BotTurns == INSTANCE BotTurnProofs WITH pc <- turnPc

LEMMA SameTurnInit == Bot!Init => BotTurns!Init
BY Zenon DEF Bot!Init, BotTurns!Init, Bot!Keys, BotTurns!Keys

LEMMA SameTurnSteps == Bot!Next => BotTurns!Next
BY Zenon
DEF Bot!process, BotTurns!process, Bot!handler, BotTurns!handler, Bot!claims,
    BotTurns!claims, Bot!limiter, BotTurns!limiter, Bot!pool, BotTurns!pool, Bot!effects,
    BotTurns!effects, Bot!Keys, BotTurns!Keys, Bot!KeysOf, BotTurns!KeysOf, Bot!Place,
    BotTurns!Place, Bot!Serial, BotTurns!Serial, Bot!Permitted, BotTurns!Permitted,
    Bot!Live, BotTurns!Live, Bot!Goto, BotTurns!Goto, Bot!Conclude, BotTurns!Conclude,
    Bot!Deliver, BotTurns!Deliver, Bot!Free, BotTurns!Free, Bot!Claim, BotTurns!Claim,
    Bot!Admit, BotTurns!Admit, Bot!Published, BotTurns!Published, Bot!PublishFails,
    BotTurns!PublishFails, Bot!Refuse, BotTurns!Refuse, Bot!Report, BotTurns!Report,
    Bot!Acquire, BotTurns!Acquire, Bot!Load, BotTurns!Load, Bot!TakePermit,
    BotTurns!TakePermit, Bot!ReturnPermit, BotTurns!ReturnPermit, Bot!Attach,
    BotTurns!Attach, Bot!Image, BotTurns!Image, Bot!Ask, BotTurns!Ask, Bot!Permit,
    BotTurns!Permit, Bot!Model, BotTurns!Model, Bot!Reply, BotTurns!Reply, Bot!Record,
    BotTurns!Record, Bot!Return, BotTurns!Return, Bot!Decide, BotTurns!Decide, Bot!Resume,
    BotTurns!Resume, Bot!Tell, BotTurns!Tell, Bot!Step, BotTurns!Step, Bot!Curate,
    BotTurns!Curate, Bot!Start, BotTurns!Start, Bot!Cancel, BotTurns!Cancel, Bot!Drain,
    BotTurns!Drain, Bot!Exit, BotTurns!Exit, Bot!Crash, BotTurns!Crash, Bot!Tick,
    BotTurns!Tick, Bot!Next, BotTurns!Next

LEMMA SameTurnVariables == turnVars' = turnVars => BotTurns!vars' = BotTurns!vars
BY Zenon
DEF turnVars, BotTurns!vars, BotTurns!process, BotTurns!handler, BotTurns!claims,
    BotTurns!limiter, BotTurns!pool, BotTurns!effects

LEMMA SameLeaks == BotTurns!NothingLeaks => Bot!NothingLeaks
BY Zenon
DEF Bot!NothingLeaks, BotTurns!NothingLeaks, Bot!LimitsExact, BotTurns!LimitsExact,
    Bot!LimiterExact, BotTurns!LimiterExact, Bot!PoolExact, BotTurns!PoolExact,
    Bot!NobodyLeftBehind, BotTurns!NobodyLeftBehind, Bot!Holders, BotTurns!Holders,
    Bot!Callers, BotTurns!Callers, Bot!Serial, BotTurns!Serial, Bot!Permitted,
    BotTurns!Permitted, Bot!Live, BotTurns!Live, Bot!Place, BotTurns!Place,
    Bot!Cardinality, BotTurns!Cardinality

\* BotTurnProofs assumes of its constants what ModelPermits assumes of them.
LEMMA TurnsGiveBack == BotTurns!Spec => []BotTurns!NothingLeaks
<1>1. BotTurns!IsFiniteSet(Deliveries)
  BY DeliveriesAssumption, Zenon DEF IsFiniteSet, BotTurns!IsFiniteSet
<1> QED BY <1>1, DeliveriesAssumption, LimitsAssumption, BotTurns!TurnsLeaveNothing

\* Beside the worker too, a turn gives back what it took, whatever waits for a
\* permit.
THEOREM PermitsAreGivenBack == PermitsSpec => []NothingLeaks
<1>1. PermitsInit => BotTurns!Init
  BY SameTurnInit DEF PermitsInit
<1>2. [PermitsNext]_permitsVars => [BotTurns!Next]_(BotTurns!vars)
  <2>1. CASE TurnStep(Bot!Next)
    BY <2>1, SameTurnSteps DEF TurnStep
  <2>2. CASE OutboxStep(Next) \/ UNCHANGED permitsVars
    <3>1. turnVars' = turnVars
      BY <2>2 DEF OutboxStep, permitsVars
    <3> QED BY <3>1, SameTurnVariables
  <2> QED BY <2>1, <2>2 DEF PermitsNext
<1>3. BotTurns!NothingLeaks => NothingLeaks
  BY SameLeaks DEF NothingLeaks
<1>4. PermitsSpec => PermitsInit /\ [][PermitsNext]_permitsVars
  BY PTL DEF PermitsSpec
<1> QED BY <1>1, <1>2, <1>3, <1>4, TurnsGiveBack, PTL DEF BotTurns!Spec
=============================================================================
