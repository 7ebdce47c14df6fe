--------------------- MODULE ConfirmationDeliveryProofs ---------------------
(***************************************************************************)
(* Proofs about ConfirmationDelivery for every set of calls, users,        *)
(* policies and decision handlers, and every value of the bounds: a tool   *)
(* runs once at most, verdicts are final, whose decisions count, what a    *)
(* restart recovers, the pool of permits, and what the prompts show.       *)
(***************************************************************************)
EXTENDS ConfirmationDelivery, SequenceTheorems, FiniteSetTheorems, TLAPS

USE DEF store, slack, handlers, startup

-----------------------------------------------------------------------------
(* Types.                                                                   *)

\* Replacing what one prompt shows keeps it a sequence of what prompts show.
LEMMA UpdateType ==
    ASSUME prompt \in [Calls -> Seq(Shown)], NEW d, d.call \in Calls,
           NEW t \in Shown, Update(d, t)
    PROVE  prompt' \in [Calls -> Seq(Shown)]
<1>1. prompt[d.call] \in Seq(Shown)
    OBVIOUS
<1>2. ASSUME NEW s \in Seq(Shown), NEW m PROVE [s EXCEPT ![m] = t] \in Seq(Shown)
    <2>1. PICK n \in Nat : s \in [1..n -> Shown]
      BY SeqDef
    <2>2. [s EXCEPT ![m] = t] \in [1..n -> Shown]
      BY <2>1
    <2> QED BY <2>2
<1> QED BY <1>1, <1>2 DEF Update

\* Moving a busy handler on, or releasing it, keeps the handlers well formed.
LEMMA StepType ==
    ASSUME TypeOK, NEW h \in Deciders, pc[h] # "idle", NEW next \in Busy,
           Step(h, next) \/ Finish(h), next # "update"
    PROVE  /\ pc' \in [Deciders -> Busy \cup {"idle"}]
           /\ decision' \in [Deciders -> Decision \cup {NoDecision}]
           /\ verdict' \in [Deciders -> {"none", "consumed", "rejected", "failed"}]
           /\ \A g \in Deciders : /\ pc'[g] # "idle" => decision'[g] \in Decision
                                  /\ pc'[g] = "update" => verdict'[g] # "none"
BY DEF TypeOK, Step, Finish

\* A decision that enters is complete.
LEMMA EnterType ==
    ASSUME TypeOK, NEW h \in Deciders, NEW d \in Decision, Enter(h, d)
    PROVE  /\ pc' \in [Deciders -> Busy \cup {"idle"}]
           /\ decision' \in [Deciders -> Decision \cup {NoDecision}]
           /\ verdict' \in [Deciders -> {"none", "consumed", "rejected", "failed"}]
           /\ \A g \in Deciders : /\ pc'[g] # "idle" => decision'[g] \in Decision
                                  /\ pc'[g] = "update" => verdict'[g] # "none"
BY DEF TypeOK, Enter, Busy

\* A step keeps the types.
LEMMA StepKeepsTypes == TypeOK /\ [Next]_vars => TypeOK'
<1> USE CallsAssumption, PolicyAssumption, BoundsAssumption
<1> SUFFICES ASSUME TypeOK, [Next]_vars PROVE TypeOK'
  OBVIOUS
<1> USE DEF TypeOK
<1>1. ASSUME NEW c \in Calls, RaiseConfirmation(c) PROVE TypeOK'
  BY <1>1 DEF RaiseConfirmation
<1>2. ASSUME NEW c \in Calls, CreateDelivery(c) PROVE TypeOK'
  BY <1>2 DEF CreateDelivery, Statuses, Open
<1>3. ASSUME NEW c \in Calls, PublishConfirmation(c) PROVE TypeOK'
  <2>1. Append(prompt[c], "buttons") \in Seq(Shown)
    BY DEF Shown
  <2>2. prompt' \in [Calls -> Seq(Shown)]
    BY <1>3, <2>1 DEF PublishConfirmation
  <2> QED BY <1>3, <2>2 DEF PublishConfirmation, GiveUp
<1>4. ASSUME NEW c \in Calls, MarkPublished(c) PROVE TypeOK'
  <2>1. Len(prompt[c]) \in Nat
    OBVIOUS
  <2>2. "published" \in Statuses
    BY DEF Statuses, Open
  <2>3. status' = status \/ status' = [status EXCEPT ![c] = "published"]
    BY <1>4 DEF MarkPublished
  <2>4. status' \in [Calls -> Statuses]
    BY <2>2, <2>3
  <2>5. ts' \in [Calls -> Nat]
    BY <1>4, <2>1 DEF MarkPublished, GiveUp, Markable
  <2> QED BY <1>4, <2>4, <2>5 DEF MarkPublished, GiveUp
<1>5. ASSUME NEW c \in Calls, RecoverConfirmation(c) PROVE TypeOK'
  BY <1>5 DEF RecoverConfirmation
<1>6. ASSUME NEW h \in Deciders, NEW c \in Calls, Click(h, c) PROVE TypeOK'
  <2>1. PICK m \in DOMAIN prompt[c], u \in Users, approve \in BOOLEAN :
            Enter(h, Entering("button", c, m, u, TRUE, approve))
    BY <1>6 DEF Click
  <2>2. prompt[c] \in Seq(Shown) /\ m \in Nat
    OBVIOUS
  <2>3. Entering("button", c, m, u, TRUE, approve) \in Decision
    BY <2>2 DEF Entering, Decision
  <2> QED BY <1>6, <2>1, <2>3, EnterType DEF Click
<1>7. ASSUME NEW h \in Deciders, NEW c \in Calls, Type(h, c) PROVE TypeOK'
  <2>1. PICK u \in allowed, here \in BOOLEAN, approve \in BOOLEAN :
            Enter(h, Entering("typed", c, 0, u, here, approve))
    BY <1>7 DEF Type
  <2>2. Entering("typed", c, 0, u, here, approve) \in Decision
    BY DEF Entering, Decision
  <2> QED BY <1>7, <2>1, <2>2, EnterType DEF Type
<1>8. ASSUME NEW h \in Deciders, Lookup(h) PROVE TypeOK'
  BY <1>8, StepType DEF Lookup, Busy
<1>9. ASSUME NEW h \in Deciders, ExpireDeliveries(h) PROVE TypeOK'
  <2>1. status' \in [Calls -> Statuses]
    BY <1>9 DEF ExpireDeliveries, Expired, Statuses, Final
  <2> QED BY <1>9, <2>1, StepType DEF ExpireDeliveries, Busy
<1>10. ASSUME NEW h \in Deciders, ShowExpired(h) PROVE TypeOK'
  <2>1. prompt' \in [Calls -> Seq(Shown)]
    BY <1>10, UpdateType DEF ShowExpired, Shown, Decision
  <2> QED BY <1>10, <2>1, StepType DEF ShowExpired, Busy
<1>11. ASSUME NEW h \in Deciders, TryAcquire(h) PROVE TypeOK'
  BY <1>11, StepType DEF TryAcquire, Busy
<1>12. ASSUME NEW h \in Deciders, Commit(h) PROVE TypeOK'
  <2>1. Verdict(decision[h].approve) \in Statuses
    BY DEF Verdict, Statuses, Final
  <2>2. status' \in [Calls -> Statuses]
    BY <1>12, <2>1 DEF Commit
  <2>3. free' \in Nat
    BY <1>12 DEF Commit
  <2> QED BY <1>12, <2>2, <2>3, StepType DEF Commit, Busy
<1>13. ASSUME NEW h \in Deciders, Resume(h) PROVE TypeOK'
  <2>1. decision[h] \in Decision
    BY <1>13 DEF Resume
  <2>2. runs' \in [Calls -> Nat]
    BY <1>13 DEF Resume
  <2>3. verdict' \in [Deciders -> {"none", "consumed", "rejected", "failed"}]
    BY <1>13 DEF Resume, Verdict
  <2>4. verdict'[h] # "none"
    BY <1>13 DEF Resume, Verdict
  <2> QED BY <1>13, <2>1, <2>2, <2>3, <2>4 DEF Resume, Busy
<1>14. ASSUME NEW h \in Deciders, UpdateConfirmation(h) PROVE TypeOK'
  <2>1. prompt' \in [Calls -> Seq(Shown)]
    <3>1. decision[h].call \in Calls /\ verdict[h] \in Shown
      BY <1>14 DEF UpdateConfirmation, Shown, Decision
    <3> QED BY <1>14, <3>1, UpdateType DEF UpdateConfirmation
  <2> QED BY <1>14, <2>1, StepType DEF UpdateConfirmation, Busy
<1>15. ASSUME NEW h \in Deciders, PublishResult(h) PROVE TypeOK'
  <2>1. replies' \in [Calls -> Nat]
    BY <1>15 DEF PublishResult, Decision
  <2> QED BY <1>15, <2>1, StepType DEF PublishResult, Busy
<1>16. CASE Start
  BY <1>16 DEF Start, Expired, Statuses, Final
<1>17. CASE ListPending
  BY <1>17 DEF ListPending
<1>18. CASE StartListening
  BY <1>18 DEF StartListening
<1>19. CASE Crash
  BY <1>19 DEF Crash, Publishing
<1>20. CASE Tick
  BY <1>20 DEF Tick
<1>21. CASE UNCHANGED vars
  BY <1>21 DEF vars
<1> QED
  BY <1>1, <1>2, <1>3, <1>4, <1>5, <1>6, <1>7, <1>8, <1>9, <1>10, <1>11, <1>12,
     <1>13, <1>14, <1>15, <1>16, <1>17, <1>18, <1>19, <1>20, <1>21
     DEF Next, Publication, Handling

\* The initial states are well typed.
LEMMA InitTypes == Init => TypeOK
<1> USE CallsAssumption, PolicyAssumption, BoundsAssumption
<1> SUFFICES ASSUME Init PROVE TypeOK
  OBVIOUS
<1>1. <<>> \in Seq(Shown) /\ <<"buttons">> \in Seq(Shown)
  BY DEF Shown
<1>2. prompt \in [Calls -> Seq(Shown)]
  BY <1>1 DEF Init
<1> QED BY <1>2 DEF Init, TypeOK, Statuses

\* Every variable keeps its type: the store holds only statuses it writes, and
\* a busy decision handler holds a complete decision.
THEOREM TypeCorrect == Spec => []TypeOK
BY InitTypes, StepKeepsTypes, PTL DEF Spec

-----------------------------------------------------------------------------
(* The tool runs at most once.  ToolRunsOnce alone is not inductive: a       *)
(* handler about to resume must know that nothing ran for its call, and     *)
(* that no other handler is about to resume the same call.                  *)

IInv == TypeOK /\ ToolRunsOnce /\ OneWinner

Decided == {"consumed", "rejected"}

\* A step that leaves decided rows, runs and replies alone, and makes no
\* handler a winner, keeps the invariant.
LEMMA QuietSteps ==
    ASSUME IInv, TypeOK', runs' = runs, replies' = replies,
           \A c \in Calls : status[c] \in Decided => status'[c] = status[c],
           \A h \in Deciders : Winner(h)' =>
               /\ Winner(h)
               /\ decision'[h] = decision[h]
               /\ pc'[h] = "resume" => pc[h] = "resume"
    PROVE  IInv'
<1>1. ToolRunsOnce'
    BY DEF IInv, ToolRunsOnce, Decided
<1>2. \A h \in Deciders : Winner(h) => decision[h].call \in Calls
    BY DEF IInv, TypeOK, Winner, Decision
<1>3. OneWinner'
    BY <1>2 DEF IInv, OneWinner, Decided
<1> QED BY <1>1, <1>3 DEF IInv

\* What a decision handler does before it wins, or after it lost, is quiet.
LEMMA HandlerSteps ==
    ASSUME IInv, TypeOK', NEW h \in Deciders, NEW next \in Busy,
           runs' = runs, replies' = replies,
           \A c \in Calls : status[c] \in Decided => status'[c] = status[c],
           \/ Finish(h)
           \/ /\ decision' = decision /\ pc' = [pc EXCEPT ![h] = next]
              /\ \/ next \notin {"resume", "update", "reply"}
                 \/ pc[h] = "update" /\ next = "reply"
    PROVE  IInv'
<1>1. \A g \in Deciders : Winner(g)' =>
          /\ Winner(g)
          /\ decision'[g] = decision[g]
          /\ pc'[g] = "resume" => pc[g] = "resume"
    BY DEF IInv, TypeOK, Winner, Step, Finish
<1> QED BY <1>1, QuietSteps

\* Committing makes a winner of a call that nobody had won.
LEMMA CommitKeepsInv ==
    ASSUME IInv, TypeOK', NEW h \in Deciders, Commit(h)
    PROVE  IInv'
<1> DEFINE c == decision[h].call
<1>1. c \in Calls
    BY DEF IInv, TypeOK, Commit, Decision
<1>2. CASE Finish(h) /\ status' = status
    BY <1>2, HandlerSteps DEF Commit, Busy
<1>3. CASE /\ Decidable(c)
           /\ status' = [status EXCEPT ![c] = Verdict(decision[h].approve)]
           /\ Step(h, "resume")
  <2>1. runs[c] = 0 /\ replies[c] = 0
    <3>1. status[c] \notin Decided
      BY <1>3 DEF Decidable, Open, Decided
    <3>2. runs[c] \in Nat /\ replies[c] \in Nat
      BY <1>1 DEF IInv, TypeOK
    <3>3. runs[c] # 1 /\ replies[c] # 1 /\ runs[c] <= 1 /\ replies[c] <= 1
      BY <1>1, <3>1 DEF IInv, ToolRunsOnce, Decided
    <3> QED BY <3>2, <3>3
  <2>2. \A g \in Deciders : Winner(g) => decision[g].call # c
    BY <1>3 DEF IInv, OneWinner, Decidable, Open
  <2>3. /\ \A g \in Deciders : g # h => pc'[g] = pc[g]
        /\ pc'[h] = "resume"
        /\ decision' = decision
    BY <1>3 DEF Step, IInv, TypeOK
  <2>4. /\ \A d \in Calls : d # c => status'[d] = status[d]
        /\ status'[c] = Verdict(decision[h].approve)
        /\ status'[c] \in Decided
    BY <1>1, <1>3 DEF IInv, TypeOK, Verdict, Decided
  <2>5. ToolRunsOnce'
    BY <2>1, <2>4 DEF IInv, ToolRunsOnce, Commit
  <2>6. \A g \in Deciders : Winner(g) => decision[g].call \in Calls
    BY DEF IInv, TypeOK, Winner, Decision
  <2>7. ASSUME NEW g \in Deciders, Winner(g)'
        PROVE  LET d == decision'[g].call IN
               /\ status'[d] \in Decided
               /\ replies'[d] = 0
               /\ pc'[g] = "resume" => /\ status'[d] = Verdict(decision'[g].approve)
                                      /\ runs'[d] = 0
    <3>1. CASE g = h
      BY <3>1, <2>1, <2>3, <2>4 DEF Commit
    <3>2. CASE g # h
      BY <3>2, <2>2, <2>3, <2>4, <2>6, <2>7 DEF Commit, Winner, IInv, OneWinner, Decided
    <3> QED BY <3>1, <3>2
  <2>8. ASSUME NEW g \in Deciders, NEW k \in Deciders, Winner(g)', Winner(k)',
               decision'[g].call = decision'[k].call
        PROVE  g = k
    BY <2>2, <2>3, <2>8 DEF Winner, IInv, OneWinner
  <2>9. OneWinner'
    BY <2>7, <2>8 DEF OneWinner, Decided
  <2> QED BY <2>5, <2>9 DEF IInv
<1> QED BY <1>2, <1>3 DEF Commit

\* Resuming runs the tool of the call the handler has won, which had not run.
LEMMA ResumeKeepsInv ==
    ASSUME IInv, TypeOK', NEW h \in Deciders, Resume(h)
    PROVE  IInv'
<1> DEFINE c == decision[h].call
<1>1. c \in Calls /\ Winner(h)
    BY DEF IInv, TypeOK, Resume, Decision, Winner
<1>2. /\ runs[c] = 0
      /\ status[c] = Verdict(decision[h].approve)
    BY <1>1 DEF IInv, OneWinner, Resume
<1>3. /\ \A g \in Deciders : g # h => pc'[g] = pc[g]
      /\ pc'[h] = "update"
      /\ decision' = decision /\ status' = status /\ replies' = replies
    BY DEF Resume, IInv, TypeOK
<1>4. /\ \A d \in Calls : d # c => runs'[d] = runs[d]
      /\ runs'[c] \in {0, 1}
      /\ runs'[c] = 1 => decision[h].approve
    BY <1>1, <1>2 DEF Resume, IInv, TypeOK
<1>5. ToolRunsOnce'
    BY <1>2, <1>3, <1>4 DEF IInv, ToolRunsOnce, Verdict
<1>6. \A g \in Deciders : Winner(g) => decision[g].call \in Calls
    BY DEF IInv, TypeOK, Winner, Decision
<1>7. \A g \in Deciders : Winner(g)' => Winner(g)
    BY <1>1, <1>3 DEF Winner
<1>8. OneWinner'
    BY <1>1, <1>3, <1>4, <1>6, <1>7 DEF IInv, OneWinner, Winner
<1> QED BY <1>5, <1>8 DEF IInv

\* Replying ends the winner's handler.
LEMMA ReplyKeepsInv ==
    ASSUME IInv, TypeOK', NEW h \in Deciders, PublishResult(h)
    PROVE  IInv'
<1> DEFINE c == decision[h].call
<1>1. c \in Calls /\ Winner(h)
    BY DEF IInv, TypeOK, PublishResult, Decision, Winner
<1>2. replies[c] = 0 /\ status[c] \in Decided
    BY <1>1 DEF IInv, OneWinner, Decided
<1>3. /\ \A g \in Deciders : g # h => pc'[g] = pc[g] /\ decision'[g] = decision[g]
      /\ pc'[h] = "idle"
      /\ status' = status /\ runs' = runs
    BY DEF PublishResult, Finish, IInv, TypeOK
<1>4. /\ \A d \in Calls : d # c => replies'[d] = replies[d]
      /\ replies'[c] \in {0, 1}
    BY <1>1, <1>2 DEF PublishResult, IInv, TypeOK
<1>5. ToolRunsOnce'
    BY <1>2, <1>3, <1>4 DEF IInv, ToolRunsOnce, Decided
<1>6. \A g \in Deciders : Winner(g)' =>
          g # h /\ Winner(g) /\ decision[g].call \in Calls /\ decision[g].call # c
    BY <1>1, <1>3 DEF IInv, TypeOK, OneWinner, Winner, Decision
<1>7. OneWinner'
    BY <1>3, <1>4, <1>6 DEF IInv, OneWinner, Winner
<1> QED BY <1>5, <1>7 DEF IInv

\* Every step keeps the invariant.
LEMMA StepKeepsInv == IInv /\ [Next]_vars => IInv'
<1> SUFFICES ASSUME IInv, [Next]_vars PROVE IInv'
  OBVIOUS
<1>0. TypeOK'
  BY StepKeepsTypes DEF IInv
<1>1. ASSUME NEW c \in Calls, RaiseConfirmation(c) PROVE IInv'
  BY <1>0, <1>1, QuietSteps DEF RaiseConfirmation, Winner
<1>2. ASSUME NEW c \in Calls, CreateDelivery(c) PROVE IInv'
  <2>1. \A d \in Calls : status[d] \in Decided => status'[d] = status[d]
    BY <1>2 DEF CreateDelivery, IInv, TypeOK, Decided
  <2> QED BY <1>0, <1>2, <2>1, QuietSteps DEF CreateDelivery, Winner
<1>3. ASSUME NEW c \in Calls, PublishConfirmation(c) PROVE IInv'
  BY <1>0, <1>3, QuietSteps DEF PublishConfirmation, Winner
<1>4. ASSUME NEW c \in Calls, MarkPublished(c) PROVE IInv'
  <2>1. \A d \in Calls : status[d] \in Decided => status'[d] = status[d]
    <3>1. \/ status' = status
          \/ status[c] = "pending" /\ status' = [status EXCEPT ![c] = "published"]
      BY <1>4 DEF MarkPublished, Markable
    <3> QED BY <3>1 DEF IInv, TypeOK, Decided
  <2> QED BY <1>0, <1>4, <2>1, QuietSteps DEF MarkPublished, Winner
<1>5. ASSUME NEW c \in Calls, RecoverConfirmation(c) PROVE IInv'
  BY <1>0, <1>5, QuietSteps DEF RecoverConfirmation, Winner
<1>6. ASSUME NEW h \in Deciders, NEW c \in Calls, Click(h, c) \/ Type(h, c) PROVE IInv'
  <2>1. /\ pc' = [pc EXCEPT ![h] = "lookup"]
        /\ \A g \in Deciders : g # h => decision'[g] = decision[g]
    BY <1>6 DEF Click, Type, Enter, IInv, TypeOK
  <2>2. \A g \in Deciders : Winner(g)' => Winner(g) /\ g # h /\ pc'[g] = pc[g]
    BY <2>1 DEF Winner, IInv, TypeOK
  <2> QED BY <1>0, <1>6, <2>1, <2>2, QuietSteps DEF Click, Type
<1>7. ASSUME NEW h \in Deciders, Lookup(h) PROVE IInv'
  <2>1. Finish(h) \/ Step(h, "expire") \/ Step(h, "acquire")
    BY <1>7 DEF Lookup
  <2>2. runs' = runs /\ replies' = replies /\ status' = status
    BY <1>7 DEF Lookup
  <2>3. "expire" \in Busy /\ "acquire" \in Busy
    BY DEF Busy
  <2>4. CASE Finish(h)
    BY <1>0, <2>2, <2>3, <2>4, HandlerSteps DEF Step
  <2>5. CASE Step(h, "expire")
    BY <1>0, <2>2, <2>3, <2>5, HandlerSteps DEF Step
  <2>6. CASE Step(h, "acquire")
    BY <1>0, <2>2, <2>3, <2>6, HandlerSteps DEF Step
  <2> QED BY <2>1, <2>4, <2>5, <2>6
<1>8. ASSUME NEW h \in Deciders, ExpireDeliveries(h) PROVE IInv'
  <2>1. \A d \in Calls : status[d] \in Decided => status'[d] = status[d]
    BY <1>8 DEF ExpireDeliveries, Expired, Open, Decided
  <2>2. Finish(h) \/ Step(h, "showExpired")
    BY <1>8 DEF ExpireDeliveries
  <2>3. runs' = runs /\ replies' = replies /\ "showExpired" \in Busy
    BY <1>8 DEF ExpireDeliveries, Busy
  <2>4. CASE Finish(h)
    BY <1>0, <2>1, <2>3, <2>4, HandlerSteps DEF Step
  <2>5. CASE Step(h, "showExpired")
    BY <1>0, <2>1, <2>3, <2>5, HandlerSteps DEF Step
  <2> QED BY <2>2, <2>4, <2>5
<1>9. ASSUME NEW h \in Deciders, ShowExpired(h) PROVE IInv'
  BY <1>0, <1>9, HandlerSteps DEF ShowExpired, Busy
<1>10. ASSUME NEW h \in Deciders, TryAcquire(h) PROVE IInv'
  <2>1. Finish(h) \/ Step(h, "decide")
    BY <1>10 DEF TryAcquire
  <2>2. runs' = runs /\ replies' = replies /\ status' = status /\ "decide" \in Busy
    BY <1>10 DEF TryAcquire, Busy
  <2>3. CASE Finish(h)
    BY <1>0, <2>2, <2>3, HandlerSteps DEF Step
  <2>4. CASE Step(h, "decide")
    BY <1>0, <2>2, <2>4, HandlerSteps DEF Step
  <2> QED BY <2>1, <2>3, <2>4
<1>11. ASSUME NEW h \in Deciders, Commit(h) PROVE IInv'
  BY <1>0, <1>11, CommitKeepsInv
<1>12. ASSUME NEW h \in Deciders, Resume(h) PROVE IInv'
  BY <1>0, <1>12, ResumeKeepsInv
<1>13. ASSUME NEW h \in Deciders, UpdateConfirmation(h) PROVE IInv'
  BY <1>0, <1>13, HandlerSteps DEF UpdateConfirmation, Step, Busy
<1>14. ASSUME NEW h \in Deciders, PublishResult(h) PROVE IInv'
  BY <1>0, <1>14, ReplyKeepsInv
<1>15. CASE Start
  <2>1. \A d \in Calls : status[d] \in Decided => status'[d] = status[d]
    BY <1>15 DEF Start, Expired, Open, Decided
  <2> QED BY <1>0, <1>15, <2>1, QuietSteps DEF Start, Winner
<1>16. CASE ListPending
  BY <1>0, <1>16, QuietSteps DEF ListPending, Winner
<1>17. CASE StartListening
  BY <1>0, <1>17, QuietSteps DEF StartListening, Winner
<1>18. CASE Crash
  BY <1>0, <1>18, QuietSteps DEF Crash, Winner
<1>19. CASE Tick
  BY <1>0, <1>19, QuietSteps DEF Tick, Winner
<1>20. CASE UNCHANGED vars
  BY <1>0, <1>20, QuietSteps DEF vars, Winner
<1> QED
  BY <1>1, <1>2, <1>3, <1>4, <1>5, <1>6, <1>7, <1>8, <1>9, <1>10, <1>11, <1>12,
     <1>13, <1>14, <1>15, <1>16, <1>17, <1>18, <1>19, <1>20
     DEF Next, Publication, Handling

\* The invariant holds throughout.
LEMMA InvHolds == Spec => []IInv
<1>1. Init => IInv
  <2>1. Init => ToolRunsOnce /\ OneWinner
    BY DEF Init, ToolRunsOnce, OneWinner, Winner
  <2> QED BY <2>1, InitTypes DEF IInv
<1> QED BY <1>1, StepKeepsInv, PTL DEF Spec

\* Whatever the number of racing decisions, crashes and restarts, an approved
\* tool runs at most once, only after its approval was stored, and at most one
\* result is posted.
THEOREM ToolRunsAtMostOnce == Spec => []ToolRunsOnce
BY InvHolds, PTL DEF IInv

\* At every moment at most one handler carries out the decision of a call.
THEOREM SingleWinner == Spec => []OneWinner
BY InvHolds, PTL DEF IInv

-----------------------------------------------------------------------------
(* What a step may do to the stored verdicts: refinement and finality.      *)

Standings == [c \in Calls |-> Standing(status[c])]

\* How the standing of a call follows its status.
LEMMA StandingOf ==
    /\ Standing("none") = "unasked"
    /\ Standing("pending") = "open" /\ Standing("published") = "open"
    /\ Standing("consumed") = "granted" /\ Standing("rejected") = "refused"
    /\ Standing("expired") = "lapsed"
BY DEF Standing, Open

\* Expiring deliveries lets open calls lapse, and nothing else.
LEMMA ExpiryLapses ==
    ASSUME TypeOK, NEW now, status' = Expired(now), runs' = runs
    PROVE  Approval!Next
<1> DEFINE S == {c \in Calls : status[c] \in Open /\ expiry[c] <= now}
<1>1. \A c \in S : Standing(status[c]) = "open"
    BY StandingOf DEF Open
<1>2. Standings' = [c \in Calls |-> IF c \in S THEN "lapsed" ELSE Standings[c]]
    BY StandingOf DEF Expired, Standings
<1>3. S \in SUBSET {c \in Calls : Standings[c] = "open"}
    BY <1>1 DEF Standings
<1>4. Approval!Lapse
    BY <1>2, <1>3 DEF Approval!Lapse, Standings
<1> QED BY <1>4 DEF Approval!Next

\* A step that changes no status and no count of runs changes no promise.
LEMMA Stutter ==
    ASSUME status' = status, runs' = runs
    PROVE  UNCHANGED <<Standings, runs>>
BY DEF Standings

\* The delivery implements the abstract approval: a call gets one verdict, and
\* runs at most once, after it was granted.
THEOREM DeliveryImplementsApproval == Spec => ImplementsApproval
<1>1. Init => Approval!Init
  <2> SUFFICES ASSUME Init PROVE Approval!Init
    OBVIOUS
  <2>1. \A c \in Calls : Standing(status[c]) \in {"unasked", "open"}
    BY StandingOf DEF Init, Open
  <2> QED BY <2>1 DEF Init, Approval!Init
<1>2. IInv /\ [Next]_vars => [Approval!Next]_<<Standings, runs>>
  <2> SUFFICES ASSUME IInv, [Next]_vars
               PROVE  Approval!Next \/ UNCHANGED <<Standings, runs>>
    OBVIOUS
  <2>1. ASSUME NEW c \in Calls, CreateDelivery(c), status' # status
        PROVE  Approval!Next
    <3>1. status[c] = "none" /\ status' = [status EXCEPT ![c] = "pending"] /\ runs' = runs
      BY <2>1 DEF CreateDelivery
    <3>2. Standings' = [Standings EXCEPT ![c] = "open"] /\ Standings[c] = "unasked"
      BY <3>1, StandingOf DEF Standings, IInv, TypeOK
    <3> QED BY <3>1, <3>2 DEF Approval!Next, Approval!Ask, Standings
  <2>2. ASSUME NEW c \in Calls, MarkPublished(c), status' # status
        PROVE  UNCHANGED <<Standings, runs>>
    <3>1. status[c] = "pending" /\ status' = [status EXCEPT ![c] = "published"] /\ runs' = runs
      BY <2>2 DEF MarkPublished, Markable
    <3> QED BY <3>1, StandingOf DEF Standings, IInv, TypeOK
  <2>3. ASSUME NEW h \in Deciders, Commit(h), status' # status
        PROVE  Approval!Next
    <3> DEFINE c == decision[h].call
    <3>1. c \in Calls
      BY <2>3 DEF Commit, IInv, TypeOK, Decision
    <3>2. /\ status[c] \in Open
          /\ status' = [status EXCEPT ![c] = Verdict(decision[h].approve)]
          /\ runs' = runs
      BY <2>3 DEF Commit, Decidable
    <3>3. Standings[c] = "open"
      BY <3>1, <3>2, StandingOf DEF Standings, Open
    <3>4. \/ Standings' = [Standings EXCEPT ![c] = "granted"]
          \/ Standings' = [Standings EXCEPT ![c] = "refused"]
      BY <3>1, <3>2, StandingOf DEF Standings, Verdict, IInv, TypeOK
    <3> QED BY <3>1, <3>2, <3>3, <3>4 DEF Approval!Next, Approval!Judge, Standings
  <2>4. ASSUME NEW h \in Deciders, Resume(h), runs' # runs
        PROVE  Approval!Next
    <3> DEFINE c == decision[h].call
    <3>1. c \in Calls /\ Winner(h)
      BY <2>4 DEF Resume, IInv, TypeOK, Decision, Winner
    <3>2. /\ decision[h].approve
          /\ runs' = [runs EXCEPT ![c] = @ + 1]
          /\ status' = status
      BY <2>4 DEF Resume
    <3>3. runs[c] = 0 /\ status[c] = "consumed"
      BY <2>4, <3>1, <3>2 DEF IInv, OneWinner, Verdict, Resume
    <3>4. runs' = [runs EXCEPT ![c] = 1]
      BY <3>2, <3>3
    <3>5. Standings' = Standings /\ Standings[c] = "granted"
      BY <3>1, <3>2, <3>3, StandingOf DEF Standings
    <3> QED BY <3>1, <3>3, <3>4, <3>5 DEF Approval!Next, Approval!Execute, Standings
  <2>5. ASSUME NEW h \in Deciders, ExpireDeliveries(h), status' # status
        PROVE  Approval!Next
    BY <2>5, ExpiryLapses DEF ExpireDeliveries, IInv
  <2>6. ASSUME Start, status' # status PROVE Approval!Next
    BY <2>6, ExpiryLapses DEF Start, IInv
  <2>7. CASE status' = status /\ runs' = runs
    BY <2>7, Stutter
  <2>8. CASE status' # status /\ runs' = runs
    BY <2>1, <2>2, <2>3, <2>5, <2>6, <2>8
       DEF Next, Publication, Handling, vars, RaiseConfirmation, PublishConfirmation,
           RecoverConfirmation, Click, Type, Lookup, ShowExpired, TryAcquire, Resume,
           UpdateConfirmation, PublishResult, ListPending, StartListening, Crash, Tick
  <2>9. CASE runs' # runs
    BY <2>4, <2>9
       DEF Next, Publication, Handling, vars, RaiseConfirmation, CreateDelivery,
           PublishConfirmation, MarkPublished, RecoverConfirmation, Click, Type, Lookup,
           ExpireDeliveries, ShowExpired, TryAcquire, Commit, UpdateConfirmation,
           PublishResult, Start, ListPending, StartListening, Crash, Tick
  <2> QED BY <2>7, <2>8, <2>9
<1> QED BY <1>1, <1>2, InvHolds, PTL DEF Spec, ImplementsApproval, Approval!Spec, Standings

\* A step changes no stored verdict.
LEMMA StoredVerdictStays ==
    TypeOK /\ [Next]_vars => \A c \in Calls : status[c] \in Final => status'[c] = status[c]
<1> SUFFICES ASSUME TypeOK, [Next]_vars, NEW c \in Calls, status[c] \in Final
             PROVE  status'[c] = status[c]
  OBVIOUS
<1>1. status[c] \notin Open /\ status[c] # "none"
  BY DEF Final, Open
<1>2. \A now : Expired(now)[c] = status[c]
  BY <1>1 DEF Expired
<1>3. ASSUME NEW d \in Calls, CreateDelivery(d) PROVE status'[c] = status[c]
  BY <1>1, <1>3 DEF CreateDelivery, TypeOK
<1>4. ASSUME NEW d \in Calls, MarkPublished(d) PROVE status'[c] = status[c]
  <2>1. \/ status' = status
        \/ status[d] = "pending" /\ status' = [status EXCEPT ![d] = "published"]
    BY <1>4 DEF MarkPublished, Markable
  <2> QED BY <1>1, <2>1 DEF TypeOK, Open
<1>5. ASSUME NEW h \in Deciders, Commit(h) PROVE status'[c] = status[c]
  BY <1>1, <1>5 DEF Commit, Decidable, TypeOK
<1>6. ASSUME NEW h \in Deciders, ExpireDeliveries(h) PROVE status'[c] = status[c]
  BY <1>2, <1>6 DEF ExpireDeliveries
<1>7. CASE Start
  BY <1>2, <1>7 DEF Start
<1> QED
  BY <1>3, <1>4, <1>5, <1>6, <1>7
     DEF Next, Publication, Handling, vars, RaiseConfirmation, PublishConfirmation,
         RecoverConfirmation, Click, Type, Lookup, ShowExpired, TryAcquire, Resume,
         UpdateConfirmation, PublishResult, ListPending, StartListening, Crash, Tick

\* A verdict, once stored, is never changed: not by the publishing turn, nor by
\* a racing decision, nor by the reconciliation.
THEOREM VerdictsStay == Spec => DecisionIsFinal
<1>1. TypeOK /\ [Next]_vars =>
          [\A c \in Calls : status[c] \in Final => status'[c] = status[c]]_vars
  BY StoredVerdictStays
<1> QED BY <1>1, TypeCorrect, PTL DEF Spec, DecisionIsFinal

-----------------------------------------------------------------------------
(* Consent. A handler that may still decide knows that its user may, and    *)
(* nothing that happens until it commits takes that back: the policy is     *)
(* loaded, and rows expire, only while no handler runs.                     *)

Deciding == {"acquire", "decide"}

Consented(h) ==
    LET d == decision[h] IN
    d.here /\ d.user = Requester[d.call] /\ d.user \in allowed /\ d.now < expiry[d.call]

\* Handlers run only while the process is up, and read the clock when they start.
Awake == \A h \in Deciders : pc[h] # "idle" => phase = "up" /\ decision[h].now <= clock

ConsentHeld == \A h \in Deciders : pc[h] \in Deciding => Consented(h)

CInv == TypeOK /\ Awake /\ ConsentHeld

\* A step that starts no handler and brings none closer to a decision.
LEMMA ConsentFrame ==
    ASSUME CInv, TypeOK',
           \A h \in Deciders : pc'[h] # "idle" =>
               /\ pc[h] # "idle" /\ decision'[h] = decision[h] /\ phase' = phase
               /\ pc'[h] \in Deciding => pc[h] \in Deciding,
           allowed' = allowed \/ \A h \in Deciders : pc'[h] = "idle",
           expiry' = expiry, clock' \in {clock, clock + 1}
    PROVE  CInv'
<1>1. Awake'
    BY DEF CInv, Awake, TypeOK, Decision
<1>2. ConsentHeld'
    BY DEF CInv, ConsentHeld, Consented, Deciding
<1> QED BY <1>1, <1>2 DEF CInv

\* What a handler does once it has looked its row up.
LEMMA ConsentHandler ==
    ASSUME CInv, TypeOK', NEW h \in Deciders, pc[h] # "idle", NEW next \in Busy,
           \/ Finish(h)
           \/ /\ pc' = [pc EXCEPT ![h] = next] /\ decision' = decision
              /\ next \in Deciding => pc[h] \in Deciding,
           phase' = phase, allowed' = allowed, expiry' = expiry, clock' = clock
    PROVE  CInv'
<1>1. \A g \in Deciders : pc'[g] # "idle" =>
          /\ pc[g] # "idle" /\ decision'[g] = decision[g]
          /\ pc'[g] \in Deciding => pc[g] \in Deciding
    BY DEF CInv, TypeOK, Finish, Deciding
<1> QED BY <1>1, ConsentFrame

\* Looking a row up is what gives a handler its consent.
LEMMA LookupKeepsConsent ==
    ASSUME CInv, TypeOK', NEW h \in Deciders, Lookup(h)
    PROVE  CInv'
<1>1. CASE Finish(h)
    BY <1>1, ConsentHandler DEF Lookup, Busy
<1>2. CASE Step(h, "expire")
    BY <1>2, ConsentHandler DEF Lookup, Busy, Step, Deciding
<1>3. CASE Step(h, "acquire") /\ Accepts(decision[h]) /\ expiry[decision[h].call] > decision[h].now
  <2>1. decision[h] \in Decision /\ expiry[decision[h].call] \in Nat /\ decision[h].now \in Nat
    BY DEF Lookup, CInv, TypeOK, Decision
  <2>2. Consented(h)
    BY <1>3, <2>1 DEF Consented, Accepts
  <2>3. /\ decision' = decision /\ phase' = phase /\ allowed' = allowed
        /\ expiry' = expiry /\ clock' = clock
        /\ \A g \in Deciders : g # h => pc'[g] = pc[g]
        /\ pc[h] # "idle"
    BY <1>3 DEF Lookup, Step, CInv, TypeOK
  <2>4. Awake'
    BY <2>3 DEF CInv, Awake
  <2>5. ConsentHeld'
    BY <2>2, <2>3 DEF CInv, ConsentHeld, Consented
  <2> QED BY <2>4, <2>5 DEF CInv
<1> QED BY <1>1, <1>2, <1>3 DEF Lookup

\* A decision that enters has not been looked up yet.
LEMMA EnteringKeepsConsent ==
    ASSUME CInv, TypeOK', NEW h \in Deciders, NEW d, d.now = clock, Enter(h, d),
           phase = "up", phase' = phase, allowed' = allowed, expiry' = expiry, clock' = clock
    PROVE  CInv'
<1>1. /\ \A g \in Deciders : g # h => pc'[g] = pc[g] /\ decision'[g] = decision[g]
      /\ pc'[h] = "lookup" /\ decision'[h] = d
    BY DEF Enter, CInv, TypeOK
<1>2. clock \in Nat
    BY DEF CInv, TypeOK
<1>3. Awake'
    BY <1>1, <1>2 DEF CInv, Awake
<1>4. ConsentHeld'
    BY <1>1 DEF CInv, ConsentHeld, Consented, Deciding
<1> QED BY <1>3, <1>4 DEF CInv

\* Every step keeps what the deciding handlers know of their users.
LEMMA StepKeepsConsent == CInv /\ [Next]_vars => CInv'
<1> SUFFICES ASSUME CInv, [Next]_vars PROVE CInv'
  OBVIOUS
<1>0. TypeOK'
  BY StepKeepsTypes DEF CInv
<1>a. clock \in Nat
  BY DEF CInv, TypeOK
<1>1. ASSUME NEW c \in Calls, RaiseConfirmation(c) PROVE CInv'
  <2>1. Awake'
    BY <1>1 DEF RaiseConfirmation, CInv, Awake
  <2>2. \A d \in Calls : expiry'[d] = IF d = c THEN clock + TTL ELSE expiry[d]
    BY <1>1 DEF RaiseConfirmation, CInv, TypeOK
  <2>3. ASSUME NEW h \in Deciders, pc[h] \in Deciding
        PROVE  decision[h].now < expiry'[decision[h].call]
    <3>1. decision[h] \in Decision /\ decision[h].now <= clock
      BY <2>3 DEF CInv, TypeOK, Awake, Deciding
    <3>2. decision[h].call \in Calls /\ decision[h].now \in Nat
      BY <3>1 DEF Decision
    <3>3. decision[h].now < expiry[decision[h].call]
      BY <2>3 DEF CInv, ConsentHeld, Consented
    <3>4. decision[h].now < clock + TTL
      BY <1>a, <3>1, <3>2, BoundsAssumption
    <3> QED BY <2>2, <3>2, <3>3, <3>4
  <2>4. ConsentHeld'
    BY <1>1, <2>3 DEF RaiseConfirmation, CInv, ConsentHeld, Consented
  <2> QED BY <1>0, <2>1, <2>4 DEF CInv
<1>2. ASSUME NEW c \in Calls, CreateDelivery(c) PROVE CInv'
  BY <1>0, <1>2, ConsentFrame DEF CreateDelivery
<1>3. ASSUME NEW c \in Calls, PublishConfirmation(c) PROVE CInv'
  <2>1. phase' = phase \/ phase # "up"
    BY <1>3 DEF PublishConfirmation, GiveUp
  <2> QED BY <1>0, <1>3, <2>1, ConsentFrame DEF PublishConfirmation, CInv, Awake
<1>4. ASSUME NEW c \in Calls, MarkPublished(c) PROVE CInv'
  <2>1. phase' = phase \/ phase # "up"
    BY <1>4 DEF MarkPublished, GiveUp
  <2> QED BY <1>0, <1>4, <2>1, ConsentFrame DEF MarkPublished, CInv, Awake
<1>5. ASSUME NEW c \in Calls, RecoverConfirmation(c) PROVE CInv'
  BY <1>0, <1>5, ConsentFrame DEF RecoverConfirmation, CInv, Awake
<1>6. ASSUME NEW h \in Deciders, NEW c \in Calls, Click(h, c) PROVE CInv'
  <2>1. PICK m \in DOMAIN prompt[c], u \in Users, approve \in BOOLEAN :
            Enter(h, Entering("button", c, m, u, TRUE, approve))
    BY <1>6 DEF Click
  <2> QED BY <1>0, <1>6, <2>1, EnteringKeepsConsent DEF Click, Entering
<1>7. ASSUME NEW h \in Deciders, NEW c \in Calls, Type(h, c) PROVE CInv'
  <2>1. PICK u \in allowed, here \in BOOLEAN, approve \in BOOLEAN :
            Enter(h, Entering("typed", c, 0, u, here, approve))
    BY <1>7 DEF Type
  <2> QED BY <1>0, <1>7, <2>1, EnteringKeepsConsent DEF Type, Entering
<1>8. ASSUME NEW h \in Deciders, Lookup(h) PROVE CInv'
  BY <1>0, <1>8, LookupKeepsConsent
<1>9. ASSUME NEW h \in Deciders, ExpireDeliveries(h) PROVE CInv'
  <2>1. Finish(h) \/ Step(h, "showExpired")
    BY <1>9 DEF ExpireDeliveries
  <2> QED BY <1>0, <1>9, <2>1, ConsentHandler DEF ExpireDeliveries, Step, Busy, Deciding
<1>10. ASSUME NEW h \in Deciders, ShowExpired(h) PROVE CInv'
  BY <1>0, <1>10, ConsentHandler DEF ShowExpired, Busy
<1>11. ASSUME NEW h \in Deciders, TryAcquire(h) PROVE CInv'
  <2>1. Finish(h) \/ Step(h, "decide")
    BY <1>11 DEF TryAcquire
  <2> QED BY <1>0, <1>11, <2>1, ConsentHandler DEF TryAcquire, Step, Busy, Deciding
<1>12. ASSUME NEW h \in Deciders, Commit(h) PROVE CInv'
  <2>1. Finish(h) \/ Step(h, "resume")
    BY <1>12 DEF Commit
  <2> QED BY <1>0, <1>12, <2>1, ConsentHandler DEF Commit, Step, Busy, Deciding
<1>13. ASSUME NEW h \in Deciders, Resume(h) PROVE CInv'
  BY <1>0, <1>13, ConsentHandler DEF Resume, Busy, Deciding
<1>14. ASSUME NEW h \in Deciders, UpdateConfirmation(h) PROVE CInv'
  <2>1. Finish(h) \/ Step(h, "reply")
    BY <1>14 DEF UpdateConfirmation
  <2> QED BY <1>0, <1>14, <2>1, ConsentHandler DEF UpdateConfirmation, Step, Busy, Deciding
<1>15. ASSUME NEW h \in Deciders, PublishResult(h) PROVE CInv'
  BY <1>0, <1>15, ConsentHandler DEF PublishResult, Busy
<1>16. CASE Start
  <2>1. \A h \in Deciders : pc[h] = "idle"
    BY <1>16 DEF Start, CInv, Awake
  <2> QED BY <1>0, <1>16, <2>1, ConsentFrame DEF Start
<1>17. CASE ListPending
  BY <1>0, <1>17, ConsentFrame DEF ListPending, CInv, Awake
<1>18. CASE StartListening
  BY <1>0, <1>18, ConsentFrame DEF StartListening, CInv, Awake
<1>19. CASE Crash
  BY <1>0, <1>19, ConsentFrame DEF Crash
<1>20. CASE Tick
  BY <1>0, <1>20, ConsentFrame DEF Tick
<1>21. CASE UNCHANGED vars
  BY <1>0, <1>21, ConsentFrame DEF vars
<1> QED
  BY <1>1, <1>2, <1>3, <1>4, <1>5, <1>6, <1>7, <1>8, <1>9, <1>10, <1>11, <1>12,
     <1>13, <1>14, <1>15, <1>16, <1>17, <1>18, <1>19, <1>20, <1>21
     DEF Next, Publication, Handling

\* A handler that may decide has the consent it needs, at every moment.
LEMMA ConsentHolds == Spec => []CInv
<1>1. Init => CInv
  BY InitTypes DEF Init, CInv, Awake, ConsentHeld, Deciding
<1> QED BY <1>1, StepKeepsConsent, PTL DEF Spec

\* A tool call is granted or refused only by the user it was asked of, while the
\* policy allows it, in its conversation and before it expired, whatever became
\* of rows, policies and handlers since the decision entered.
THEOREM ConsentGenuine == Spec => ConsentIsGenuine
<1> DEFINE Genuine(c) ==
      status[c] \in Open /\ status'[c] \in {"consumed", "rejected"} =>
             \E h \in Deciders :
                 LET d == decision[h] IN
                 /\ pc[h] = "decide" /\ d.call = c /\ d.here
                 /\ d.user = Requester[c] /\ d.user \in allowed
                 /\ d.now < expiry[c]
                 /\ status'[c] = Verdict(d.approve)
<1>1. CInv /\ [Next]_vars => \A c \in Calls : Genuine(c)
  <2> SUFFICES ASSUME CInv, [Next]_vars, NEW c \in Calls,
                      status[c] \in Open, status'[c] \in {"consumed", "rejected"}
               PROVE  \E h \in Deciders :
                        LET d == decision[h] IN
                        /\ pc[h] = "decide" /\ d.call = c /\ d.here
                        /\ d.user = Requester[c] /\ d.user \in allowed
                        /\ d.now < expiry[c]
                        /\ status'[c] = Verdict(d.approve)
    OBVIOUS
  <2>1. status'[c] # status[c]
    BY DEF Open
  <2>2. \A now : Expired(now)[c] \notin {"consumed", "rejected"}
    BY DEF Expired, Open
  <2>3. ASSUME NEW d \in Calls, CreateDelivery(d) PROVE FALSE
    BY <2>1, <2>3 DEF CreateDelivery, CInv, TypeOK
  <2>4. ASSUME NEW d \in Calls, MarkPublished(d) PROVE FALSE
    <3>1. status' = status \/ status' = [status EXCEPT ![d] = "published"]
      BY <2>4 DEF MarkPublished
    <3> QED BY <2>1, <3>1 DEF CInv, TypeOK
  <2>5. ASSUME NEW h \in Deciders, ExpireDeliveries(h) PROVE FALSE
    BY <2>1, <2>2, <2>5 DEF ExpireDeliveries
  <2>6. ASSUME Start PROVE FALSE
    BY <2>1, <2>2, <2>6 DEF Start
  <2>7. PICK h \in Deciders : Commit(h)
    BY <2>1, <2>3, <2>4, <2>5, <2>6
       DEF Next, Publication, Handling, vars, RaiseConfirmation, PublishConfirmation,
           RecoverConfirmation, Click, Type, Lookup, ShowExpired, TryAcquire, Resume,
           UpdateConfirmation, PublishResult, ListPending, StartListening, Crash, Tick
  <2>8. status' = [status EXCEPT ![decision[h].call] = Verdict(decision[h].approve)]
    BY <2>1, <2>7 DEF Commit
  <2>9. decision[h].call = c /\ status'[c] = Verdict(decision[h].approve)
    BY <2>1, <2>8 DEF CInv, TypeOK
  <2>10. Consented(h) /\ pc[h] = "decide"
    BY <2>7 DEF Commit, CInv, ConsentHeld, Deciding
  <2> QED BY <2>9, <2>10 DEF Consented
<1>2. CInv /\ [Next]_vars => [\A c \in Calls : Genuine(c)]_vars
  BY <1>1
<1> QED BY <1>2, ConsentHolds, PTL DEF Spec, ConsentIsGenuine

-----------------------------------------------------------------------------
(* Recovery. Until the listener starts, no row is created, so every row that *)
(* can still be answered is one the reconciliation has listed, or has marked. *)

RInv ==
    /\ TypeOK
    /\ \A c \in Calls : publishing[c] = "create" => phase = "up"
    /\ phase = "recovering" =>
           \A c \in Calls : status[c] = "pending" => c \in todo \/ expiry[c] <= clock

\* Every step keeps the account of the rows that the reconciliation must list.
LEMMA StepKeepsRecovery == RInv /\ [Next]_vars => RInv'
<1> SUFFICES ASSUME RInv, [Next]_vars PROVE RInv'
  OBVIOUS
<1>0. TypeOK'
  BY StepKeepsTypes DEF RInv
<1>a. clock \in Nat /\ \A c \in Calls : expiry[c] \in Nat
  BY DEF RInv, TypeOK
<1>1. ASSUME NEW c \in Calls, RaiseConfirmation(c) PROVE RInv'
  BY <1>0, <1>1 DEF RaiseConfirmation, RInv, TypeOK
<1>2. ASSUME NEW c \in Calls, CreateDelivery(c) PROVE RInv'
  BY <1>0, <1>2 DEF CreateDelivery, RInv, TypeOK
<1>3. ASSUME NEW c \in Calls, PublishConfirmation(c) PROVE RInv'
  <2>1. \A d \in Calls : publishing'[d] = "create" => publishing[d] = "create"
    BY <1>3 DEF PublishConfirmation, GiveUp, RInv, TypeOK
  <2>2. \/ phase' = phase /\ todo' = todo
        \/ phase # "up" /\ phase' = "down"
    BY <1>3 DEF PublishConfirmation, GiveUp
  <2>3. publishing[c] # "create" /\ UNCHANGED <<store, clock>>
    BY <1>3 DEF PublishConfirmation
  <2> QED BY <1>0, <2>1, <2>2, <2>3 DEF RInv
<1>4. ASSUME NEW c \in Calls, MarkPublished(c) PROVE RInv'
  <2>1. \A d \in Calls : publishing'[d] = "create" => publishing[d] = "create"
    BY <1>4 DEF MarkPublished, GiveUp, RInv, TypeOK
  <2>2. \/ /\ phase' = phase /\ todo' = todo \ {c}
           /\ status' = [status EXCEPT ![c] = "published"]
        \/ phase' = phase /\ todo' = todo /\ status' = status
        \/ phase # "up" /\ phase' = "down"
    BY <1>4 DEF MarkPublished, GiveUp
  <2>3. expiry' = expiry /\ clock' = clock /\ publishing[c] # "create"
    BY <1>4 DEF MarkPublished
  <2>4. \A d \in Calls : publishing'[d] = "create" => phase' = "up"
    BY <2>1, <2>2 DEF RInv
  <2>5. ASSUME phase' = "recovering", NEW d \in Calls, status'[d] = "pending"
        PROVE  d \in todo' \/ expiry'[d] <= clock'
    <3>1. status[d] = "pending" /\ phase = "recovering" /\ (d \in todo => d \in todo')
      BY <2>2, <2>5 DEF RInv, TypeOK
    <3> QED BY <2>3, <3>1 DEF RInv
  <2> QED BY <1>0, <2>4, <2>5 DEF RInv
<1>5. ASSUME NEW c \in Calls, RecoverConfirmation(c) PROVE RInv'
  BY <1>0, <1>5 DEF RecoverConfirmation, RInv, TypeOK
<1>6. ASSUME NEW h \in Deciders, Handling(h) PROVE RInv'
  <2>1. UNCHANGED <<expiry, publishing, startup, clock>>
    BY <1>6 DEF Handling, Lookup, ExpireDeliveries, ShowExpired, TryAcquire, Commit,
                Resume, UpdateConfirmation, PublishResult
  <2>2. \A c \in Calls : status'[c] = "pending" => status[c] = "pending"
    <3>1. CASE ExpireDeliveries(h)
      BY <3>1 DEF ExpireDeliveries, Expired, RInv, TypeOK
    <3>2. CASE Commit(h)
      BY <3>2 DEF Commit, Verdict, RInv, TypeOK
    <3>3. CASE status' = status
      BY <3>3
    <3> QED
      BY <1>6, <3>1, <3>2, <3>3
         DEF Handling, Lookup, ShowExpired, TryAcquire, Resume, UpdateConfirmation, PublishResult
  <2> QED BY <1>0, <2>1, <2>2 DEF RInv
<1>7. CASE Start
  BY <1>0, <1>7 DEF Start, RInv
<1>8. CASE ListPending
  BY <1>0, <1>8, <1>a DEF ListPending, RInv
<1>9. CASE StartListening
  BY <1>0, <1>9 DEF StartListening, RInv
<1>10. CASE Crash
  <2>1. \A c \in Calls : publishing'[c] # "create"
    BY <1>10 DEF Crash, Publishing
  <2> QED BY <1>0, <1>10, <2>1 DEF Crash, RInv
<1>11. CASE Tick
  BY <1>0, <1>a, <1>11 DEF Tick, RInv
<1>12. CASE UNCHANGED vars
  BY <1>0, <1>12 DEF vars, RInv
<1>13. ASSUME NEW h \in Deciders, NEW c \in Calls, Click(h, c) \/ Type(h, c) PROVE RInv'
  BY <1>0, <1>13 DEF Click, Type, RInv
<1> QED
  BY <1>1, <1>2, <1>3, <1>4, <1>5, <1>6, <1>7, <1>8, <1>9, <1>10, <1>11, <1>12, <1>13
     DEF Next, Publication

\* The account holds throughout.
LEMMA RecoveryHolds == Spec => []RInv
<1>1. Init => RInv
  <2> SUFFICES ASSUME Init PROVE RInv
    OBVIOUS
  <2>1. \A c \in Calls : publishing[c] # "create"
    BY DEF Init
  <2> QED BY <2>1, InitTypes DEF Init, RInv
<1> QED BY <1>1, StepKeepsRecovery, PTL DEF Spec

\* When the process starts to accept events, every row that can still be
\* answered has its prompt marked, whatever the crash before it cut short.
THEOREM RecoveryIsComplete == Spec => RecoveryComplete
<1> DEFINE Complete ==
      phase = "recovering" /\ phase' = "up" =>
         \A c \in Calls : status[c] = "pending" => expiry[c] <= clock
<1>1. RInv /\ [Next]_vars => Complete
  <2> SUFFICES ASSUME RInv, [Next]_vars, phase = "recovering", phase' = "up"
               PROVE  \A c \in Calls : status[c] = "pending" => expiry[c] <= clock
    OBVIOUS
  <2>1. StartListening
    BY DEF Next, Publication, Handling, vars, RaiseConfirmation, CreateDelivery,
           PublishConfirmation, MarkPublished, GiveUp, RecoverConfirmation, Click, Type,
           Lookup, ExpireDeliveries, ShowExpired, TryAcquire, Commit, Resume,
           UpdateConfirmation, PublishResult, Start, ListPending, Crash, Tick
  <2> QED BY <2>1 DEF StartListening, RInv
<1>2. RInv /\ [Next]_vars => [Complete]_vars
  BY <1>1
<1> QED BY <1>2, RecoveryHolds, PTL DEF Spec, RecoveryComplete

-----------------------------------------------------------------------------
(* Permits. The handlers that hold one are counted before and after a step.  *)

Holds(p) == p \in {"decide", "resume"}
Holders == {h \in Deciders : Holds(pc[h])}

PInv ==
    /\ TypeOK
    /\ IsFiniteSet(Holders)
    /\ free + Cardinality(Holders) = MaxModelCalls

\* A handler that does not take or give back a permit.
LEMMA SameHolders ==
    ASSUME PInv, TypeOK', free' = free,
           \A h \in Deciders : Holds(pc'[h]) <=> Holds(pc[h])
    PROVE  PInv'
<1>1. Holders' = Holders
    BY DEF Holders
<1> QED BY <1>1 DEF PInv

\* Taking a permit makes its handler a holder.
LEMMA TakeKeepsBalance ==
    ASSUME PInv, TypeOK', NEW h \in Deciders, ~Holds(pc[h]), free' = free - 1,
           pc' = [pc EXCEPT ![h] = "decide"]
    PROVE  PInv'
<1>1. Holders' = Holders \cup {h} /\ h \notin Holders
    BY DEF Holders, Holds, PInv, TypeOK
<1>2. IsFiniteSet(Holders') /\ Cardinality(Holders') = Cardinality(Holders) + 1
    BY <1>1, FS_AddElement DEF PInv
<1>3. Cardinality(Holders) \in Nat
    BY FS_CardinalityType DEF PInv
<1> QED BY <1>2, <1>3 DEF PInv, TypeOK

\* Giving a permit back ends its handler's hold.
LEMMA GiveKeepsBalance ==
    ASSUME PInv, TypeOK', NEW h \in Deciders, Holds(pc[h]), free' = free + 1,
           NEW next, ~Holds(next), pc' = [pc EXCEPT ![h] = next]
    PROVE  PInv'
<1>1. Holders' = Holders \ {h} /\ h \in Holders
    BY DEF Holders, Holds, PInv, TypeOK
<1>2. IsFiniteSet(Holders') /\ Cardinality(Holders') = Cardinality(Holders) - 1
    BY <1>1, FS_RemoveElement DEF PInv
<1>3. Cardinality(Holders) \in Nat
    BY FS_CardinalityType DEF PInv
<1> QED BY <1>2, <1>3 DEF PInv, TypeOK

\* Every step keeps free permits and holders in balance.
LEMMA StepKeepsBalance == PInv /\ [Next]_vars => PInv'
<1> SUFFICES ASSUME PInv, [Next]_vars PROVE PInv'
  OBVIOUS
<1>0. TypeOK'
  BY StepKeepsTypes DEF PInv
<1>1. ASSUME UNCHANGED <<pc, free>> PROVE PInv'
  BY <1>0, <1>1, SameHolders
<1>2. ASSUME NEW h \in Deciders, free' = free, ~Holds(pc[h]),
             NEW next, ~Holds(next), pc' = [pc EXCEPT ![h] = next]
      PROVE  PInv'
  <2>1. \A g \in Deciders : Holds(pc'[g]) <=> Holds(pc[g])
    BY <1>2 DEF PInv, TypeOK
  <2> QED BY <1>0, <1>2, <2>1, SameHolders
<1>3. ASSUME NEW h \in Deciders, NEW c \in Calls, Click(h, c) \/ Type(h, c) PROVE PInv'
  BY <1>2, <1>3 DEF Click, Type, Enter, Holds
<1>4. ASSUME NEW h \in Deciders, Lookup(h) PROVE PInv'
  BY <1>2, <1>4 DEF Lookup, Finish, Step, Holds
<1>5. ASSUME NEW h \in Deciders, ExpireDeliveries(h) PROVE PInv'
  BY <1>2, <1>5 DEF ExpireDeliveries, Finish, Step, Holds
<1>6. ASSUME NEW h \in Deciders, ShowExpired(h) PROVE PInv'
  BY <1>2, <1>6 DEF ShowExpired, Finish, Holds
<1>7. ASSUME NEW h \in Deciders, TryAcquire(h) PROVE PInv'
  BY <1>0, <1>2, <1>7, TakeKeepsBalance DEF TryAcquire, Finish, Step, Holds
<1>8. ASSUME NEW h \in Deciders, Commit(h) PROVE PInv'
  <2>1. CASE Step(h, "resume") /\ free' = free
    <3>1. \A g \in Deciders : Holds(pc'[g]) <=> Holds(pc[g])
      BY <1>8, <2>1 DEF Commit, Step, Holds, PInv, TypeOK
    <3> QED BY <1>0, <2>1, <3>1, SameHolders
  <2>2. CASE Finish(h) /\ free' = free + 1
    BY <1>0, <1>8, <2>2, GiveKeepsBalance DEF Commit, Finish, Holds
  <2> QED BY <1>8, <2>1, <2>2 DEF Commit
<1>9. ASSUME NEW h \in Deciders, Resume(h) PROVE PInv'
  BY <1>0, <1>9, GiveKeepsBalance DEF Resume, Holds
<1>10. ASSUME NEW h \in Deciders, UpdateConfirmation(h) PROVE PInv'
  BY <1>2, <1>10 DEF UpdateConfirmation, Finish, Step, Holds
<1>11. ASSUME NEW h \in Deciders, PublishResult(h) PROVE PInv'
  BY <1>2, <1>11 DEF PublishResult, Finish, Holds
<1>12. CASE Crash
  <2>1. Holders' = {}
    BY <1>12 DEF Crash, Holders, Holds
  <2>2. free' = MaxModelCalls /\ MaxModelCalls \in Nat
    BY <1>12, BoundsAssumption DEF Crash
  <2> QED BY <1>0, <2>1, <2>2, FS_EmptySet DEF PInv
<1> QED
  BY <1>1, <1>3, <1>4, <1>5, <1>6, <1>7, <1>8, <1>9, <1>10, <1>11, <1>12
     DEF Next, Publication, Handling, vars, RaiseConfirmation, CreateDelivery,
         PublishConfirmation, MarkPublished, RecoverConfirmation, Start, ListPending,
         StartListening, Tick

\* The pool of permits is whole: what is free and what deciding handlers hold
\* make its capacity, at every exit of a handler and after every crash.
THEOREM PermitsAreWhole == Spec => []PermitsBalanced
<1>1. Init => PInv
  <2> SUFFICES ASSUME Init PROVE PInv
    OBVIOUS
  <2>1. Holders = {}
    BY DEF Init, Holders, Holds
  <2>2. free = MaxModelCalls /\ MaxModelCalls \in Nat
    BY BoundsAssumption DEF Init
  <2> QED BY <2>1, <2>2, InitTypes, FS_EmptySet DEF PInv
<1>2. PInv => PermitsBalanced
  BY DEF PInv, PermitsBalanced, Holders, Holds
<1> QED BY <1>1, <1>2, StepKeepsBalance, PTL DEF Spec

-----------------------------------------------------------------------------
(* Prompts. A publication that is about to post knows that there is no prompt *)
(* yet, and a handler that is about to write into one knows what the row says. *)

NotYetPosted == {"none", "create", "publish"}

OnePrompt ==
    \A c \in Calls :
        /\ Len(prompt[c]) <= 1
        /\ publishing[c] \in NotYetPosted => Len(prompt[c]) = 0

OInv == TypeOK /\ OnePrompt

\* Writing into a prompt makes no other.
LEMMA UpdateKeepsLength ==
    ASSUME TypeOK, NEW d, d.call \in Calls, NEW t, Update(d, t)
    PROVE  \A c \in Calls : Len(prompt'[c]) = Len(prompt[c])
<1>1. ASSUME NEW s \in Seq(Shown), NEW m PROVE Len([s EXCEPT ![m] = t]) = Len(s)
    <2>1. PICK n \in Nat : s \in [1..n -> Shown]
      BY <1>1, SeqDef
    <2>2. DOMAIN [s EXCEPT ![m] = t] = 1..n
      BY <2>1
    <2>3. [s EXCEPT ![m] = t] \in Seq(Shown \cup {t})
      <3>1. [s EXCEPT ![m] = t] \in [1..n -> Shown \cup {t}]
        BY <2>1
      <3> QED BY <3>1, SeqDef
    <2>4. Len(s) = n
      BY <1>1, <2>1, LenProperties
    <2>5. Len([s EXCEPT ![m] = t]) = n
      BY <2>2, <2>3, LenProperties
    <2> QED BY <2>4, <2>5
<1>2. \A c \in Calls : prompt[c] \in Seq(Shown)
    BY DEF TypeOK
<1>3. CASE prompt' = prompt
    BY <1>3
<1>4. CASE prompt' = [prompt EXCEPT ![d.call] = [@ EXCEPT ![d.msg] = t]]
    <2>1. \A c \in Calls : c # d.call => prompt'[c] = prompt[c]
      BY <1>4 DEF TypeOK
    <2>2. prompt'[d.call] = [prompt[d.call] EXCEPT ![d.msg] = t]
      BY <1>4 DEF TypeOK
    <2> QED BY <1>1, <1>2, <2>1, <2>2
<1> QED BY <1>3, <1>4 DEF Update

\* Every step keeps each call to one prompt.
LEMMA StepKeepsOnePrompt == OInv /\ [Next]_vars => OInv'
<1> SUFFICES ASSUME OInv, [Next]_vars PROVE OInv'
  OBVIOUS
<1>0. TypeOK'
  BY StepKeepsTypes DEF OInv
<1>a. \A c \in Calls : prompt[c] \in Seq(Shown) /\ Len(prompt[c]) \in Nat
  BY DEF OInv, TypeOK
<1>1. ASSUME \A c \in Calls : Len(prompt'[c]) = Len(prompt[c]),
             \A c \in Calls : publishing'[c] \in NotYetPosted =>
                 publishing[c] \in NotYetPosted \/ Len(prompt[c]) = 0
      PROVE  OInv'
  BY <1>0, <1>1 DEF OInv, OnePrompt
<1>2. ASSUME NEW c \in Calls, RaiseConfirmation(c) PROVE OInv'
  <2>1. \A d \in Calls : publishing'[d] = IF d = c THEN "create" ELSE publishing[d]
    BY <1>2 DEF RaiseConfirmation, OInv, TypeOK
  <2> QED BY <1>1, <1>2, <2>1 DEF RaiseConfirmation, NotYetPosted
<1>3. ASSUME NEW c \in Calls, CreateDelivery(c) PROVE OInv'
  <2>1. \A d \in Calls : d # c => publishing'[d] = publishing[d]
    BY <1>3 DEF CreateDelivery, OInv, TypeOK
  <2> QED BY <1>1, <1>3, <2>1 DEF CreateDelivery, NotYetPosted
<1>4. ASSUME NEW c \in Calls, PublishConfirmation(c) PROVE OInv'
  <2>1. Len(prompt[c]) = 0
    BY <1>4 DEF PublishConfirmation, OInv, OnePrompt, NotYetPosted
  <2>2. \/ prompt' = prompt
        \/ prompt' = [prompt EXCEPT ![c] = Append(@, "buttons")]
    BY <1>4 DEF PublishConfirmation
  <2>3. Len(Append(prompt[c], "buttons")) = 1
    BY <1>a, <2>1 DEF Shown
  <2>4. Len(prompt'[c]) <= 1
    BY <1>a, <2>2, <2>3 DEF OInv, OnePrompt, TypeOK
  <2>5. \A d \in Calls : d # c => prompt'[d] = prompt[d] /\ publishing'[d] = publishing[d]
    BY <1>4, <2>2 DEF PublishConfirmation, GiveUp, OInv, TypeOK
  <2>6. publishing'[c] \notin NotYetPosted
    BY <1>4 DEF PublishConfirmation, GiveUp, OInv, TypeOK, NotYetPosted
  <2> QED BY <1>0, <2>4, <2>5, <2>6 DEF OInv, OnePrompt
<1>5. ASSUME NEW c \in Calls, MarkPublished(c) PROVE OInv'
  <2>1. prompt' = prompt /\ publishing' = [publishing EXCEPT ![c] = "done"]
    BY <1>5 DEF MarkPublished, GiveUp
  <2> QED BY <1>1, <2>1 DEF OInv, TypeOK, NotYetPosted
<1>6. ASSUME NEW c \in Calls, RecoverConfirmation(c) PROVE OInv'
  <2>1. \/ publishing' = publishing
        \/ publishing' = [publishing EXCEPT ![c] = "mark"]
        \/ prompt[c] = <<>> /\ publishing' = [publishing EXCEPT ![c] = "publish"]
    BY <1>6 DEF RecoverConfirmation, NotPosted
  <2>2. prompt' = prompt
    BY <1>6 DEF RecoverConfirmation
  <2> QED BY <1>1, <2>1, <2>2 DEF OInv, TypeOK, NotYetPosted
<1>7. ASSUME NEW h \in Deciders, ShowExpired(h) PROVE OInv'
  <2>1. decision[h].call \in Calls
    BY <1>7 DEF ShowExpired, OInv, TypeOK, Decision
  <2> QED BY <1>1, <1>7, <2>1, UpdateKeepsLength DEF ShowExpired, OInv
<1>8. ASSUME NEW h \in Deciders, UpdateConfirmation(h) PROVE OInv'
  <2>1. decision[h].call \in Calls
    BY <1>8 DEF UpdateConfirmation, OInv, TypeOK, Decision
  <2>2. prompt' = prompt \/ Update(decision[h], verdict[h])
    BY <1>8 DEF UpdateConfirmation
  <2>3. \A c \in Calls : Len(prompt'[c]) = Len(prompt[c])
    BY <2>1, <2>2, UpdateKeepsLength DEF OInv
  <2> QED BY <1>1, <1>8, <2>3 DEF UpdateConfirmation
<1>9. CASE Crash
  BY <1>1, <1>9 DEF Crash, Publishing, NotYetPosted
<1>10. ASSUME UNCHANGED <<prompt, publishing>> PROVE OInv'
  BY <1>1, <1>10
<1> QED
  BY <1>2, <1>3, <1>4, <1>5, <1>6, <1>7, <1>8, <1>9, <1>10
     DEF Next, Publication, Handling, vars, Click, Type, Lookup, ExpireDeliveries, TryAcquire,
         Commit, Resume, PublishResult, Start, ListPending, StartListening, Tick

\* What is zero or one is at most one.
LEMMA AtMostOne == ASSUME NEW n, n = 0 \/ n = 1 PROVE n <= 1
OBVIOUS

\* A call has one prompt at most, at every moment.
LEMMA OnePromptHolds == Spec => []OInv
<1>1. Init => OInv
  <2> SUFFICES ASSUME Init PROVE OInv
    OBVIOUS
  <2>1. \A c \in Calls : prompt[c] = <<>> \/ prompt[c] = <<"buttons">>
    BY DEF Init
  <2>2. \A c \in Calls : publishing[c] \in NotYetPosted => prompt[c] = <<>>
    BY DEF Init, NotYetPosted
  <2>3. Len(<<>>) = 0 /\ Len(<<"buttons">>) = 1
    OBVIOUS
  <2>4. \A c \in Calls : prompt[c] \in Seq(Shown)
    BY InitTypes DEF TypeOK
  <2>5. ASSUME NEW c \in Calls PROVE Len(prompt[c]) <= 1
    <3>1. Len(prompt[c]) = 0 \/ Len(prompt[c]) = 1
      BY <2>1, <2>3
    <3> QED BY <3>1, AtMostOne
  <2>6. \A c \in Calls : publishing[c] \in NotYetPosted => Len(prompt[c]) = 0
    BY <2>2, <2>3
  <2>7. OnePrompt
    BY <2>5, <2>6 DEF OnePrompt
  <2> QED BY <2>7, InitTypes DEF OInv
<1> QED BY <1>1, StepKeepsOnePrompt, PTL DEF Spec

-----------------------------------------------------------------------------
(* What a handler knows of its row when it is about to write into a prompt.  *)

FinalStays == \A c \in Calls : status[c] \in Final => status'[c] = status[c]

Informed(h) ==
    LET c == decision[h].call IN
    /\ pc[h] = "expire" => status[c] # "none" /\ expiry[c] <= decision[h].now
    /\ pc[h] = "showExpired" => status[c] \in Final
    /\ pc[h] = "update" => verdict[h] = "failed" \/ verdict[h] = status[c]

Unraised == \A c \in Calls : publishing[c] = "none" => status[c] = "none"

HInv ==
    /\ IInv
    /\ Unraised
    /\ \A h \in Deciders : Informed(h)
    /\ PromptHonest

\* No row is taken back, and only the turn that raises a call makes it anew.
LEMMA RowsStay ==
    ASSUME HInv, [Next]_vars
    PROVE  /\ FinalStays
           /\ \A c \in Calls : status[c] # "none" => status'[c] # "none" /\ expiry'[c] = expiry[c]
<1>1. FinalStays
  BY StoredVerdictStays DEF HInv, IInv, FinalStays
<1> SUFFICES ASSUME NEW c \in Calls, status[c] # "none"
             PROVE  status'[c] # "none" /\ expiry'[c] = expiry[c]
  BY <1>1
<1>2. \A now : Expired(now)[c] # "none"
  BY DEF Expired
<1>3. ASSUME NEW d \in Calls, RaiseConfirmation(d) PROVE status'[c] # "none" /\ expiry'[c] = expiry[c]
  <2>1. d # c
    BY <1>3 DEF RaiseConfirmation, HInv, Unraised
  <2> QED BY <1>3, <2>1 DEF RaiseConfirmation, HInv, IInv, TypeOK
<1>4. ASSUME NEW d \in Calls, CreateDelivery(d) PROVE status'[c] # "none" /\ expiry'[c] = expiry[c]
  BY <1>4 DEF CreateDelivery, HInv, IInv, TypeOK
<1>5. ASSUME NEW d \in Calls, MarkPublished(d) PROVE status'[c] # "none" /\ expiry'[c] = expiry[c]
  <2>1. status' = status \/ status' = [status EXCEPT ![d] = "published"]
    BY <1>5 DEF MarkPublished
  <2> QED BY <1>5, <2>1 DEF MarkPublished, HInv, IInv, TypeOK
<1>6. ASSUME NEW h \in Deciders, Commit(h) PROVE status'[c] # "none" /\ expiry'[c] = expiry[c]
  <2>1. \/ status' = status
        \/ status' = [status EXCEPT ![decision[h].call] = Verdict(decision[h].approve)]
    BY <1>6 DEF Commit
  <2> QED BY <1>6, <2>1 DEF Commit, Verdict, HInv, IInv, TypeOK
<1>7. ASSUME NEW h \in Deciders, ExpireDeliveries(h) PROVE status'[c] # "none" /\ expiry'[c] = expiry[c]
  BY <1>2, <1>7 DEF ExpireDeliveries
<1>8. CASE Start
  BY <1>2, <1>8 DEF Start
<1>9. CASE status' = status /\ expiry' = expiry
  BY <1>9
<1> QED
  BY <1>3, <1>4, <1>5, <1>6, <1>7, <1>8, <1>9
     DEF Next, Publication, Handling, vars, PublishConfirmation, RecoverConfirmation, Click,
         Type, Lookup, ShowExpired, TryAcquire, Resume, UpdateConfirmation, PublishResult,
         ListPending, StartListening, Crash, Tick

\* A call that was not raised stays without a row.
LEMMA UnraisedStays ==
    ASSUME HInv, [Next]_vars
    PROVE  Unraised'
<1> SUFFICES ASSUME NEW c \in Calls, publishing'[c] = "none" PROVE status'[c] = "none"
  BY DEF Unraised
<1>1. publishing[c] = "none"
  <2>1. TypeOK
    BY DEF HInv, IInv
  <2>2. ASSUME NEW d \in Calls, NEW p, p # "none", publishing' = [publishing EXCEPT ![d] = p]
        PROVE  publishing[c] = "none"
    BY <2>1, <2>2 DEF TypeOK
  <2>3. ASSUME NEW d \in Calls,
               RaiseConfirmation(d) \/ Publication(d) \/ RecoverConfirmation(d)
        PROVE  publishing[c] = "none"
    <3>1. \/ publishing' = publishing
          \/ \E p \in {"create", "publish", "mark", "done"} :
                 publishing' = [publishing EXCEPT ![d] = p]
      BY <2>3 DEF RaiseConfirmation, Publication, CreateDelivery, PublishConfirmation,
                  MarkPublished, GiveUp, RecoverConfirmation
    <3> QED BY <2>2, <3>1
  <2>4. CASE Crash
    BY <2>4 DEF Crash, Publishing
  <2>5. CASE publishing' = publishing
    BY <2>5
  <2> QED
    BY <2>3, <2>4, <2>5
       DEF Next, Handling, vars, Click, Type, Lookup, ExpireDeliveries, ShowExpired,
           TryAcquire, Commit, Resume, UpdateConfirmation, PublishResult, Start,
           ListPending, StartListening, Tick
<1>2. status[c] = "none"
  BY <1>1 DEF HInv, Unraised
<1>3. \A now : Expired(now)[c] = "none"
  BY <1>2 DEF Expired, Open
<1>4. ASSUME NEW d \in Calls, CreateDelivery(d) PROVE status'[c] = "none"
  <2>1. d # c
    BY <1>1, <1>4 DEF CreateDelivery
  <2> QED BY <1>2, <1>4, <2>1 DEF CreateDelivery, HInv, IInv, TypeOK
<1>5. ASSUME NEW d \in Calls, MarkPublished(d) PROVE status'[c] = "none"
  <2>1. \/ status' = status
        \/ status' = [status EXCEPT ![d] = "published"] /\ d # c
    BY <1>2, <1>5 DEF MarkPublished, Markable
  <2> QED BY <1>2, <2>1 DEF HInv, IInv, TypeOK
<1>6. ASSUME NEW h \in Deciders, Commit(h) PROVE status'[c] = "none"
  <2>1. \/ status' = status
        \/ /\ status' = [status EXCEPT ![decision[h].call] = Verdict(decision[h].approve)]
           /\ decision[h].call # c
    BY <1>2, <1>6 DEF Commit, Decidable, Open
  <2> QED BY <1>2, <2>1 DEF HInv, IInv, TypeOK
<1>7. ASSUME NEW h \in Deciders, ExpireDeliveries(h) PROVE status'[c] = "none"
  BY <1>2, <1>3, <1>7 DEF ExpireDeliveries
<1>8. CASE Start
  BY <1>2, <1>3, <1>8 DEF Start
<1>9. CASE status' = status
  BY <1>2, <1>9
<1> QED
  BY <1>4, <1>5, <1>6, <1>7, <1>8, <1>9
     DEF Next, Publication, Handling, vars, RaiseConfirmation, PublishConfirmation,
         RecoverConfirmation, Click, Type, Lookup, ShowExpired, TryAcquire, Resume,
         UpdateConfirmation, PublishResult, ListPending, StartListening, Crash, Tick

\* What a handler knows stays true while it waits.
LEMMA WaitingStaysInformed ==
    ASSUME HInv, [Next]_vars, NEW h \in Deciders,
           pc'[h] \in {"expire", "showExpired", "update"} =>
               pc'[h] = pc[h] /\ decision'[h] = decision[h] /\ verdict'[h] = verdict[h]
    PROVE  Informed(h)'
<1>1. CASE pc'[h] \notin {"expire", "showExpired", "update"}
  BY <1>1 DEF Informed
<1>2. CASE pc'[h] \in {"expire", "showExpired", "update"}
  <2> DEFINE c == decision[h].call
  <2>1. /\ pc'[h] = pc[h] /\ decision'[h] = decision[h] /\ verdict'[h] = verdict[h]
        /\ c \in Calls /\ Informed(h)
    BY <1>2 DEF HInv, IInv, TypeOK, Decision
  <2>2. /\ status[c] \in Final => status'[c] = status[c]
        /\ status[c] # "none" => status'[c] # "none" /\ expiry'[c] = expiry[c]
    BY <2>1, RowsStay DEF FinalStays
  <2>3. pc[h] = "update" => status[c] \in Final
    BY <2>1 DEF HInv, IInv, OneWinner, Winner, Final
  <2> QED BY <1>2, <2>1, <2>2, <2>3 DEF Informed
<1> QED BY <1>1, <1>2

\* A handler learns what it needs when it looks up, expires, or resumes.
LEMMA StaysInformed ==
    ASSUME HInv, [Next]_vars
    PROVE  \A h \in Deciders : Informed(h)'
<1> SUFFICES ASSUME NEW g \in Deciders PROVE Informed(g)'
  OBVIOUS
<1>0. TypeOK
  BY DEF HInv, IInv
<1>1. ASSUME pc'[g] \in {"expire", "showExpired", "update"} =>
                 pc'[g] = pc[g] /\ decision'[g] = decision[g] /\ verdict'[g] = verdict[g]
      PROVE  Informed(g)'
  BY <1>1, WaitingStaysInformed
<1>2. ASSUME NEW h \in Deciders, h # g \/ pc'[h] \notin {"expire", "showExpired", "update"},
             Finish(h) \/ (\E next : Step(h, next)) \/ (\E d : Enter(h, d))
      PROVE  Informed(g)'
  <2>1. CASE h = g
    BY <1>1, <1>2, <2>1
  <2>2. CASE h # g
    BY <1>0, <1>1, <1>2, <2>2 DEF Finish, Step, Enter, TypeOK
  <2> QED BY <2>1, <2>2
<1>3. ASSUME NEW h \in Deciders, NEW c \in Calls, Click(h, c) \/ Type(h, c)
      PROVE  Informed(g)'
  <2>1. pc'[h] = "lookup" /\ \E d : Enter(h, d)
    BY <1>0, <1>3 DEF Click, Type, Enter, TypeOK
  <2> QED BY <1>2, <2>1
<1>4. ASSUME NEW h \in Deciders, Lookup(h) PROVE Informed(g)'
  <2> DEFINE d == decision[h]
  <2>1. CASE Finish(h)
    <3>1. pc'[h] = "idle"
      BY <1>0, <2>1 DEF Finish, TypeOK
    <3> QED BY <1>2, <2>1, <3>1
  <2>2. CASE Step(h, "acquire")
    <3>1. pc'[h] = "acquire"
      BY <1>0, <2>2 DEF Step, TypeOK
    <3> QED BY <1>2, <2>2, <3>1
  <2>3. CASE Step(h, "expire") /\ Accepts(d) /\ expiry[d.call] <= d.now
    <3>1. CASE g # h
      BY <1>2, <2>3, <3>1
    <3>2. CASE g = h
      <4>1. status[d.call] # "none" /\ status' = status /\ expiry' = expiry
        BY <1>4, <2>3 DEF Lookup, Accepts
      <4>2. pc'[h] = "expire" /\ decision'[h] = d
        BY <1>0, <2>3 DEF Step, TypeOK
      <4> QED BY <2>3, <3>2, <4>1, <4>2 DEF Informed
    <3> QED BY <3>1, <3>2
  <2> QED BY <1>4, <2>1, <2>2, <2>3 DEF Lookup
<1>5. ASSUME NEW h \in Deciders, ExpireDeliveries(h) PROVE Informed(g)'
  <2>1. CASE Finish(h)
    <3>1. pc'[h] = "idle"
      BY <1>0, <2>1 DEF Finish, TypeOK
    <3> QED BY <1>2, <2>1, <3>1
  <2>2. CASE Step(h, "showExpired") /\ status' = Expired(decision[h].now)
    <3>1. CASE g # h
      BY <1>2, <2>2, <3>1
    <3>2. CASE g = h
      <4> DEFINE c == decision[h].call
      <4>1. c \in Calls /\ status[c] \in Statuses /\ status[c] # "none" /\ expiry[c] <= decision[h].now
        BY <1>0, <1>5 DEF ExpireDeliveries, HInv, Informed, TypeOK, Decision
      <4>2. status'[c] \in Final
        BY <2>2, <4>1 DEF Expired, Statuses, Final
      <4>3. pc'[h] = "showExpired" /\ decision'[h] = decision[h]
        BY <1>0, <2>2 DEF Step, TypeOK
      <4> QED BY <3>2, <4>2, <4>3 DEF Informed
    <3> QED BY <3>1, <3>2
  <2> QED BY <1>5, <2>1, <2>2 DEF ExpireDeliveries
<1>6. ASSUME NEW h \in Deciders, Resume(h) PROVE Informed(g)'
  <2>1. CASE g # h
    BY <1>0, <1>1, <1>6, <2>1 DEF Resume, TypeOK
  <2>2. CASE g = h
    <3> DEFINE d == decision[h]
    <3>1. status[d.call] = Verdict(d.approve)
      BY <1>6 DEF Resume, HInv, IInv, OneWinner, Winner
    <3>2. /\ pc'[h] = "update" /\ decision'[h] = d /\ status' = status
      BY <1>0, <1>6 DEF Resume, TypeOK
    <3>3. verdict'[h] = "failed" \/ verdict'[h] = Verdict(d.approve)
      <4>1. \/ verdict' = [verdict EXCEPT ![h] = Verdict(d.approve)]
            \/ verdict' = [verdict EXCEPT ![h] = "failed"]
        BY <1>6 DEF Resume
      <4> QED BY <1>0, <4>1 DEF TypeOK
    <3> QED BY <2>2, <3>1, <3>2, <3>3 DEF Informed
  <2> QED BY <2>1, <2>2
<1>7. ASSUME NEW h \in Deciders,
             ShowExpired(h) \/ TryAcquire(h) \/ Commit(h) \/ UpdateConfirmation(h) \/ PublishResult(h)
      PROVE  Informed(g)'
  <2>1. PICK next \in {"decide", "resume", "reply"} : Finish(h) \/ Step(h, next)
    BY <1>7 DEF ShowExpired, TryAcquire, Commit, UpdateConfirmation, PublishResult
  <2>2. pc'[h] = "idle" \/ pc'[h] = next
    BY <1>0, <2>1 DEF Finish, Step, TypeOK
  <2> QED BY <1>2, <2>1, <2>2
<1>8. CASE Crash
  BY <1>1, <1>8 DEF Crash
<1>9. CASE UNCHANGED handlers
  BY <1>1, <1>9
<1> QED
  BY <1>3, <1>4, <1>5, <1>6, <1>7, <1>8, <1>9
     DEF Next, Publication, Handling, vars, RaiseConfirmation, CreateDelivery,
         PublishConfirmation, MarkPublished, RecoverConfirmation, Start, ListPending,
         StartListening, Tick

\* Prompts stay honest: what is posted has buttons, and what is written into a
\* prompt is what its handler knows of the row.
LEMMA StaysHonest ==
    ASSUME HInv, [Next]_vars
    PROVE  PromptHonest'
<1> DEFINE Honest(c, text) ==
      /\ text # "buttons" => status'[c] \in Final
      /\ text \in {"consumed", "rejected"} => text = status'[c]
<1> SUFFICES ASSUME NEW c \in Calls, NEW m \in DOMAIN prompt'[c] PROVE Honest(c, prompt'[c][m])
  BY DEF PromptHonest
<1>0. TypeOK
  BY DEF HInv, IInv
<1>1. ASSUME m \in DOMAIN prompt[c], prompt'[c][m] = prompt[c][m] PROVE Honest(c, prompt'[c][m])
  BY <1>1, RowsStay DEF HInv, PromptHonest, FinalStays
<1>2. ASSUME prompt' = prompt PROVE Honest(c, prompt'[c][m])
  BY <1>1, <1>2
<1>3. ASSUME NEW d \in Calls, PublishConfirmation(d) PROVE Honest(c, prompt'[c][m])
  <2>1. prompt' = prompt \/ prompt' = [prompt EXCEPT ![d] = Append(@, "buttons")]
    BY <1>3 DEF PublishConfirmation
  <2>2. CASE prompt'[c] = prompt[c]
    BY <1>1, <2>2
  <2>3. CASE prompt'[c] = Append(prompt[c], "buttons")
    <3>1. prompt[c] \in Seq(Shown) /\ "buttons" \in Shown
      BY <1>0 DEF TypeOK, Shown
    <3>2. \/ m \in DOMAIN prompt[c] /\ prompt'[c][m] = prompt[c][m]
          \/ prompt'[c][m] = "buttons"
      BY <2>3, <3>1
    <3> QED BY <1>1, <3>2
  <2> QED BY <1>0, <2>1, <2>2, <2>3 DEF TypeOK
<1>4. ASSUME NEW h \in Deciders, NEW text, Update(decision[h], text),
             decision[h].call \in Calls, Honest(decision[h].call, text)
      PROVE  Honest(c, prompt'[c][m])
  <2> DEFINE d == decision[h]
  <2>1. \/ prompt'[c] = prompt[c]
        \/ c = d.call /\ prompt'[c] = [prompt[c] EXCEPT ![d.msg] = text]
    BY <1>0, <1>4 DEF Update, TypeOK
  <2>2. \/ m \in DOMAIN prompt[c] /\ prompt'[c][m] = prompt[c][m]
        \/ c = d.call /\ prompt'[c][m] = text
    BY <2>1
  <2> QED BY <1>1, <1>4, <2>2
<1>5. ASSUME NEW h \in Deciders, ShowExpired(h) PROVE Honest(c, prompt'[c][m])
  <2> DEFINE d == decision[h]
  <2>0. Informed(h) /\ pc[h] = "showExpired" /\ status' = status
    BY <1>5 DEF ShowExpired, HInv
  <2>1. d.call \in Calls /\ status[d.call] \in Final /\ status' = status
    BY <1>0, <2>0 DEF Informed, TypeOK, Decision
  <2>2. Update(d, "expired") /\ Honest(d.call, "expired")
    BY <1>5, <2>1 DEF ShowExpired
  <2> QED BY <1>4, <2>1, <2>2
<1>6. ASSUME NEW h \in Deciders, UpdateConfirmation(h) PROVE Honest(c, prompt'[c][m])
  <2> DEFINE d == decision[h]
  <2>1. prompt' = prompt \/ Update(d, verdict[h])
    BY <1>6 DEF UpdateConfirmation
  <2>a. Informed(h) /\ pc[h] = "update" /\ status' = status /\ OneWinner
    BY <1>6 DEF UpdateConfirmation, HInv, IInv
  <2>2. d.call \in Calls /\ status[d.call] \in Final
    <3>1. d.call \in Calls
      BY <1>0, <2>a DEF TypeOK, Decision
    <3>2. Winner(h)
      BY <2>a DEF Winner
    <3> QED BY <2>a, <3>1, <3>2 DEF OneWinner, Final
  <2>3. Honest(d.call, verdict[h])
    BY <2>a, <2>2 DEF Informed
  <2> QED BY <1>2, <1>4, <2>1, <2>2, <2>3
<1> QED
  BY <1>2, <1>3, <1>5, <1>6
     DEF Next, Publication, Handling, vars, RaiseConfirmation, CreateDelivery, MarkPublished,
         RecoverConfirmation, Click, Type, Lookup, ExpireDeliveries, TryAcquire, Commit,
         Resume, PublishResult, Start, ListPending, StartListening, Crash, Tick

\* What users see of a call is right: it has one prompt at most, which keeps its
\* buttons until the row is decided, and names no verdict but the stored one.
THEOREM PromptsRight == Spec => []PromptsAreRight
<1>1. Init => HInv
  <2> SUFFICES ASSUME Init PROVE HInv
    OBVIOUS
  <2>1. IInv
    BY InitTypes DEF Init, IInv, ToolRunsOnce, OneWinner, Winner
  <2>2. \A c \in Calls : \A m \in DOMAIN prompt[c] : prompt[c][m] = "buttons"
    BY DEF Init
  <2>3. PromptHonest
    BY <2>2 DEF PromptHonest
  <2>4. Unraised /\ \A h \in Deciders : Informed(h)
    BY DEF Init, Unraised, Informed
  <2> QED BY <2>1, <2>3, <2>4 DEF HInv
<1>2. HInv /\ [Next]_vars => HInv'
  BY StepKeepsInv, UnraisedStays, StaysInformed, StaysHonest DEF HInv
<1>3. OInv => PromptPostedOnce
  BY DEF OInv, OnePrompt, PromptPostedOnce
<1> QED BY <1>1, <1>2, <1>3, OnePromptHolds, PTL DEF Spec, HInv, PromptsAreRight
=============================================================================
