---------------------------- MODULE MemoryOutbox ----------------------------
(***************************************************************************)
(* The memory work queue and the worker that empties it.  A finalized      *)
(* exchange leaves an item in memory_outbox; a worker claims the item that *)
(* has been due longest, under a lease, asks the curator for a patch,      *)
(* applies it with a receipt, projects the memory to files and completes   *)
(* the item.  A process has one worker, and several processes may share a  *)
(* database.                                                               *)
(*                                                                         *)
(* Times are not kept: due holds the items a claim may take, in the order  *)
(* of next_attempt or lease_until, and an item enters when its time comes. *)
(* What the operations of a patch write is abstracted.                     *)
(***************************************************************************)
EXTENDS Integers, Sequences, FiniteSets

CONSTANTS
    Items,
    Trusted,        \* items whose messages state facts that need no curator
    Workers,
    MaxRetries,     \* memory.curator_max_retries
    MaxMishaps      \* bound of panics, crashes and failing statements

ASSUME OutboxAssumption ==
    /\ Trusted \subseteq Items
    /\ MaxRetries \in Nat \ {0}
    /\ MaxMishaps \in Nat

None == "none"
NoBundle == {None}
ASSUME NamesAssumption == None \notin Items \cup Workers

VARIABLES
    status,     \* memory_outbox.status
    attempts,   \* memory_outbox.attempts
    holder,     \* whose claim set lease_until
    due,        \* items a claim may take, in its order
    receipts,   \* memory_patch_receipts
    applied,    \* times a patch of the item was applied
    kept,       \* items whose trusted facts are in the memory
    bundle,     \* items the projected files show, or NoBundle
    pc, item, charged, plan,    \* where a worker stands, and its local variables
    outdated,   \* workers that read a topic before another one changed it
    shown,      \* ProjectionSnapshot of a worker
    previous,   \* what a worker moved to the backup directory
    mishaps

row    == <<status, attempts, holder, due>>
memory == <<receipts, applied, kept>>
worker == <<pc, item, charged, plan>>
files  == <<bundle, shown, previous>>
vars   == <<row, memory, worker, outdated, files, mishaps>>

Settled == {"done", "failed"}
Working == {"read", "propose", "apply", "render", "backup", "promote", "complete", "retry", "defer"}

Init ==
    /\ status = [i \in Items |-> "new"]
    /\ attempts = [i \in Items |-> 0]
    /\ holder = [i \in Items |-> None]
    /\ due = <<>>
    /\ receipts = {}
    /\ applied = [i \in Items |-> 0]
    /\ kept = {}
    /\ bundle = NoBundle
    /\ pc = [w \in Workers |-> "idle"]
    /\ item = [w \in Workers |-> None]
    /\ charged = [w \in Workers |-> 0]
    /\ plan = [w \in Workers |-> None]
    /\ outdated = {}
    /\ shown = [w \in Workers |-> {}]
    /\ previous = [w \in Workers |-> NoBundle]
    /\ mishaps = 0

\* The row of an item is no longer one a claim may take.
Without(i) ==
    IF \E n \in 1 .. Len(due) : due[n] = i
    THEN LET n == CHOOSE n \in 1 .. Len(due) : due[n] = i
         IN  SubSeq(due, 1, n - 1) \o SubSeq(due, n + 1, Len(due))
    ELSE due

Goto(w, next) == pc' = [pc EXCEPT ![w] = next] /\ UNCHANGED <<item, charged, plan>>

\* The item is let go, and with it what was known of it.
Leave(w, next) ==
    /\ pc' = [pc EXCEPT ![w] = next]
    /\ item' = [item EXCEPT ![w] = None]
    /\ charged' = [charged EXCEPT ![w] = 0]
    /\ plan' = [plan EXCEPT ![w] = None]
    /\ outdated' = outdated \ {w}
    /\ shown' = [shown EXCEPT ![w] = {}]
    /\ previous' = [previous EXCEPT ![w] = NoBundle]
    /\ UNCHANGED bundle

Mishap == mishaps < MaxMishaps /\ mishaps' = mishaps + 1

-----------------------------------------------------------------------------
(* The queue.                                                               *)

\* FinalizeAssistantExchange.
Enqueue(i) ==
    /\ status[i] = "new"
    /\ status' = [status EXCEPT ![i] = "pending"]
    /\ due' = Append(due, i)
    /\ UNCHANGED <<attempts, holder, memory, worker, outdated, files, mishaps>>

\* Mutant: a lease that has passed is not looked for.
DuePending(i) ==
    /\ status[i] = "pending"
    /\ \A n \in 1 .. Len(due) : due[n] # i
    /\ due' = Append(due, i)
    /\ UNCHANGED <<status, attempts, holder, memory, worker, outdated, files, mishaps>>

\* next_attempt of a retry, or lease_until of a claim, passes; that the work on
\* an item outlasts its lease is a mishap.
Due(i) ==
    /\ status[i] \in {"pending", "processing"}
    /\ \A n \in 1 .. Len(due) : due[n] # i
    /\ due' = Append(due, i)
    /\ IF \E w \in Workers : holder[i] = w /\ item[w] = i THEN Mishap ELSE UNCHANGED mishaps
    /\ UNCHANGED <<status, attempts, holder, memory, worker, outdated, files>>

\* A tick of the worker: CleanupOutbox removes settled items of any age the
\* retention allows, then the pass begins.
BeginPass(w) ==
    /\ pc[w] = "idle"
    /\ Goto(w, "claim")
    /\ \E old \in SUBSET {i \in Items : status[i] \in Settled} :
           status' = [i \in Items |-> IF i \in old THEN "gone" ELSE status[i]]
    /\ UNCHANGED <<attempts, holder, due, memory, outdated, files, mishaps>>

\* Mutant: the item that became due last comes first.
ClaimNewest(w) ==
    /\ pc[w] = "claim"
    /\ due # <<>>
    /\ LET i == due[Len(due)]
       IN  /\ status' = [status EXCEPT ![i] = "processing"]
           /\ attempts' = [attempts EXCEPT ![i] = @ + 1]
           /\ holder' = [holder EXCEPT ![i] = w]
           /\ due' = Without(i)
           /\ item' = [item EXCEPT ![w] = i]
           /\ charged' = [charged EXCEPT ![w] = attempts'[i]]
           /\ pc' = [pc EXCEPT ![w] = "read"]
    /\ UNCHANGED <<memory, plan, outdated, files, mishaps>>

\* ClaimNextOutboxItem: a pending item whose time has come, or one whose lease
\* has passed.
Claim(w) ==
    /\ pc[w] = "claim"
    /\ due # <<>>
    /\ LET i == Head(due)
       IN  /\ status[i] \in {"pending", "processing"}
           /\ status' = [status EXCEPT ![i] = "processing"]
           /\ attempts' = [attempts EXCEPT ![i] = @ + 1]
           /\ holder' = [holder EXCEPT ![i] = w]
           /\ due' = Tail(due)
           /\ item' = [item EXCEPT ![w] = i]
           /\ charged' = [charged EXCEPT ![w] = attempts'[i]]
           /\ pc' = [pc EXCEPT ![w] = "read"]
    /\ UNCHANGED <<memory, plan, outdated, files, mishaps>>

\* Nothing is due, or the claim fails: the pass is over.
EndPass(w) ==
    /\ pc[w] = "claim"
    /\ \/ due = <<>> /\ UNCHANGED mishaps
       \/ Mishap
    /\ Goto(w, "idle")
    /\ UNCHANGED <<row, memory, outdated, files>>

-----------------------------------------------------------------------------
(* One item.                                                                *)

\* The messages, the trusted operations and the topics they concern.
Read(w) ==
    /\ pc[w] = "read"
    /\ \/ Goto(w, "propose") /\ outdated' = outdated \ {w}
       \/ Goto(w, "retry") /\ UNCHANGED outdated
    /\ UNCHANGED <<row, memory, files, mishaps>>

Planned(w, p) ==
    /\ pc' = [pc EXCEPT ![w] = "apply"]
    /\ plan' = [plan EXCEPT ![w] = p]
    /\ UNCHANGED <<item, charged>>

\* Mutant: an incomplete response discards the trusted operations too.
ProposeDiscarding(w) ==
    /\ pc[w] = "propose"
    /\ \/ \E p \in {"trusted", "nothing"} : Planned(w, p)
       \/ item[w] \notin Trusted /\ \E next \in {"retry", "defer"} : Goto(w, next)
    /\ UNCHANGED <<row, memory, outdated, files, mishaps>>

\* ProposePatch, merged with the trusted operations and validated.  With trusted
\* operations whatever the curator does, or that it has no permit, costs its own
\* operations only.  Without, no permit defers the item, an incomplete response
\* or an invalid patch leaves nothing to apply, another failure is retried.
Propose(w) ==
    /\ pc[w] = "propose"
    /\ IF item[w] \in Trusted
       THEN \E p \in {"trusted", "merged"} : Planned(w, p)
       ELSE \/ \E p \in {"nothing", "proposed"} : Planned(w, p)
            \/ \E next \in {"retry", "defer"} : Goto(w, next)
    /\ UNCHANGED <<row, memory, outdated, files, mishaps>>

\* The transaction commits: who has read the topics before has read old ones.
Commit(w) ==
    /\ receipts' = receipts \cup {item[w]}
    /\ applied' = [applied EXCEPT ![item[w]] = @ + 1]
    /\ outdated' = outdated \cup {v \in Workers \ {w} : pc[v] \in {"propose", "apply"}}

\* Mutant: the receipt is not looked at.
ApplyBlindly(w) ==
    /\ pc[w] = "apply"
    /\ Commit(w) /\ kept' = kept \cup ({item[w]} \cap Trusted) /\ Goto(w, "render")
    /\ UNCHANGED <<row, files, mishaps>>

\* ValidateAndApply.  A patch without operations, or with none but the creation
\* of topics there are, leaves no receipt; one with a receipt is not applied
\* again.  What a trusted operation would create may be there only if it was
\* created since it was looked up; one that was revised since refuses the patch,
\* and any patch may be refused.
Apply(w) ==
    /\ pc[w] = "apply"
    /\ \/ plan[w] # "nothing" /\ UNCHANGED <<memory, outdated>> /\ Goto(w, "retry")
       \/ /\ \/ plan[w] \in {"nothing", "proposed"}
             \/ item[w] \in receipts
             \/ w \in outdated
          /\ UNCHANGED <<memory, outdated>> /\ Goto(w, "render")
       \/ /\ plan[w] # "nothing" /\ item[w] \notin receipts
          /\ Commit(w)
          /\ \/ kept' = kept \cup ({item[w]} \cap Trusted)
             \/ plan[w] = "merged" /\ w \in outdated /\ UNCHANGED kept
          /\ Goto(w, "render")
    /\ UNCHANGED <<row, files, mishaps>>

\* Mutant: the snapshot shows what was done before.
RenderDone(w) ==
    /\ pc[w] = "render"
    /\ \/ /\ shown' = [shown EXCEPT ![w] = {i \in Items : applied[i] > 0 /\ status[i] = "done"}]
          /\ Goto(w, "backup")
       \/ UNCHANGED shown /\ Goto(w, "retry")
    /\ UNCHANGED <<row, memory, outdated, bundle, previous, mishaps>>

\* Project: the snapshot is read in one transaction and rendered to a staging
\* directory.
Render(w) ==
    /\ pc[w] = "render"
    /\ \/ /\ shown' = [shown EXCEPT ![w] = {i \in Items : applied[i] > 0}]
          /\ Goto(w, "backup")
       \/ UNCHANGED shown /\ Goto(w, "retry")
    /\ UNCHANGED <<row, memory, outdated, bundle, previous, mishaps>>

\* The current bundle becomes the backup.
Backup(w) ==
    /\ pc[w] = "backup"
    /\ \/ /\ previous' = [previous EXCEPT ![w] = bundle]
          /\ bundle' = NoBundle
          /\ Goto(w, "promote")
       \/ UNCHANGED <<bundle, previous>> /\ Goto(w, "retry")
    /\ UNCHANGED <<row, memory, outdated, shown, mishaps>>

\* The staging directory becomes the bundle, or the backup does again; removing
\* the backup may fail after it.
Promote(w) ==
    /\ pc[w] = "promote"
    /\ \/ bundle' = shown[w] /\ \E next \in {"complete", "retry"} : Goto(w, next)
       \/ bundle' \in {previous[w], NoBundle} /\ Goto(w, "retry")
    /\ UNCHANGED <<row, memory, outdated, shown, previous, mishaps>>

\* CompleteOutboxItem, if the lease is still this claim's; the pass goes on.
Complete(w) ==
    /\ pc[w] = "complete"
    /\ \/ /\ holder[item[w]] = w
          /\ status' = [status EXCEPT ![item[w]] = "done"]
          /\ holder' = [holder EXCEPT ![item[w]] = None]
          /\ due' = Without(item[w])
          /\ Leave(w, "claim") /\ UNCHANGED <<attempts, mishaps>>
       \/ holder[item[w]] # w /\ UNCHANGED <<row, mishaps>> /\ Leave(w, "idle")
       \/ Mishap /\ UNCHANGED row /\ Leave(w, "idle")
    /\ UNCHANGED memory

\* Mutant: whoever has an item on hand may return it.
RetryUnleased(w) ==
    /\ pc[w] = "retry"
    /\ \/ /\ status' = [status EXCEPT ![item[w]] = IF charged[w] >= MaxRetries THEN "failed"
                                                   ELSE "pending"]
          /\ holder' = [holder EXCEPT ![item[w]] = None]
          /\ due' = Without(item[w])
          /\ UNCHANGED <<attempts, mishaps>>
       \/ Mishap /\ UNCHANGED row
    /\ Leave(w, "idle")
    /\ UNCHANGED memory

\* Mutant: the last attempt is not made.
RetryEarly(w) ==
    /\ pc[w] = "retry"
    /\ \/ /\ holder[item[w]] = w
          /\ status' = [status EXCEPT ![item[w]] = IF charged[w] + 1 >= MaxRetries THEN "failed"
                                                   ELSE "pending"]
          /\ holder' = [holder EXCEPT ![item[w]] = None]
          /\ due' = Without(item[w])
          /\ UNCHANGED <<attempts, mishaps>>
       \/ holder[item[w]] # w /\ UNCHANGED <<row, mishaps>>
       \/ Mishap /\ UNCHANGED row
    /\ Leave(w, "idle")
    /\ UNCHANGED memory

\* retryOutbox: the item fails for good, or waits; errors are dropped, and the
\* pass ends.
Retry(w) ==
    /\ pc[w] = "retry"
    /\ \/ /\ holder[item[w]] = w
          /\ status' = [status EXCEPT ![item[w]] = IF charged[w] >= MaxRetries THEN "failed"
                                                   ELSE "pending"]
          /\ holder' = [holder EXCEPT ![item[w]] = None]
          /\ due' = Without(item[w])
          /\ UNCHANGED <<attempts, mishaps>>
       \/ holder[item[w]] # w /\ UNCHANGED <<row, mishaps>>
       \/ Mishap /\ UNCHANGED row
    /\ Leave(w, "idle")
    /\ UNCHANGED memory

\* rescheduleOutbox: no permit was free, and the attempt is not charged.
Defer(w) ==
    /\ pc[w] = "defer"
    /\ \/ /\ holder[item[w]] = w
          /\ status' = [status EXCEPT ![item[w]] = "pending"]
          /\ attempts' = [attempts EXCEPT ![item[w]] = IF @ > 0 THEN @ - 1 ELSE 0]
          /\ holder' = [holder EXCEPT ![item[w]] = None]
          /\ due' = Append(Without(item[w]), item[w])
          /\ UNCHANGED mishaps
       \/ holder[item[w]] # w /\ UNCHANGED <<row, mishaps>>
       \/ Mishap /\ UNCHANGED row
    /\ Leave(w, "idle")
    /\ UNCHANGED memory

\* A panic ends the pass and is recovered, a crash ends the process; either way
\* the item stays claimed until its lease has passed.
Interrupt(w) ==
    /\ pc[w] # "idle"
    /\ Mishap
    /\ Leave(w, "idle")
    /\ UNCHANGED <<row, memory>>

Work(w) ==
    \/ BeginPass(w) \/ Claim(w) \/ EndPass(w) \/ Read(w) \/ Propose(w) \/ Apply(w)
    \/ Render(w) \/ Backup(w) \/ Promote(w) \/ Complete(w) \/ Retry(w) \/ Defer(w)

Next ==
    \/ \E i \in Items : Enqueue(i) \/ Due(i)
    \/ \E w \in Workers : Work(w) \/ Interrupt(w)

Spec == Init /\ [][Next]_vars

\* Time passes and the workers go on: their calls return or time out.
FairSpec ==
    /\ Spec
    /\ \A i \in Items : WF_vars(Due(i))
    /\ \A w \in Workers : WF_vars(Work(w))

-----------------------------------------------------------------------------
\* An item is leased exactly while it is in processing.
RowType ==
    /\ status \in [Items -> {"new", "pending", "processing", "done", "failed", "gone"}]
    /\ attempts \in [Items -> Nat]
    /\ holder \in [Items -> Workers \cup {None}]
    /\ due \in Seq(Items)
    /\ \A i \in Items : holder[i] # None <=> status[i] = "processing"

MemoryType ==
    /\ receipts \subseteq Items
    /\ applied \in [Items -> Nat]
    /\ kept \subseteq Trusted

\* A worker has an item exactly while it works.
WorkerType ==
    /\ pc \in [Workers -> Working \cup {"idle", "claim"}]
    /\ item \in [Workers -> Items \cup {None}]
    /\ charged \in [Workers -> Nat]
    /\ plan \in [Workers -> {None, "nothing", "proposed", "trusted", "merged"}]
    /\ outdated \subseteq Workers
    /\ \A w \in Workers : item[w] # None <=> pc[w] \in Working

FilesType ==
    /\ bundle \in (SUBSET Items) \cup {NoBundle}
    /\ shown \in [Workers -> SUBSET Items]
    /\ previous \in [Workers -> (SUBSET Items) \cup {NoBundle}]

TypeOK == RowType /\ MemoryType /\ WorkerType /\ FilesType /\ mishaps \in Nat

\* "A committed patch is never applied twice", by retries, after crashes, or by
\* two workers of which one has lost its lease.
AppliedOnce == \A i \in Items : applied[i] <= 1

\* A worker whose claim has passed to another cannot bring back what that one
\* has settled.
SettledStays ==
    [][\A i \in Items : status[i] \in Settled => status'[i] \in {status[i], "gone"}]_vars

\* Nothing is given up before it was tried as often as configured: deferrals are
\* not charged.
FailedIsExhausted == \A i \in Items : status[i] = "failed" => attempts[i] >= MaxRetries

\* With one worker, what a user stated as a fact is in the memory when its item
\* is done, whatever the curator did.
DoneIsKept == \A i \in Trusted : status[i] = "done" => i \in kept

\* What is settled is settled for a reason: tried enough, or kept.
SettledHonestly == FailedIsExhausted /\ DoneIsKept

\* With one worker, files that are there show every item that is done.
BundleShowsDone ==
    bundle # NoBundle =>
        \A i \in Items : status[i] = "done" /\ applied[i] > 0 => i \in bundle

\* Facts need no permit: their items are settled even if none is ever free.
FactsSettle == \A i \in Trusted : status[i] = "pending" ~> status[i] \in Settled \cup {"gone"}

\* An item that is deferred again and again does not keep others waiting.
NobodyStarves == \A i \in Items : status[i] = "pending" ~> status[i] # "pending"
=============================================================================
