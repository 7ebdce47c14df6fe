---------------------- MODULE AssistantExchangeProofs ----------------------
(***************************************************************************)
(* Proofs about AssistantExchange for any finite set of turns, any         *)
(* conversations, any number of parts and any timestamps.                  *)
(***************************************************************************)
EXTENDS AssistantExchange, FiniteSetTheorems, TLAPS

USE DEF turns, tables, slack, pass, Goto, Proceed

-----------------------------------------------------------------------------
(* Types.                                                                   *)

\* The number of turns that have started is a number.
LEMMA ArrivalsType == Cardinality({u \in Turns : received[u] # 0}) \in Nat
BY TurnsAssumption, FS_Subset, FS_CardinalityType

\* Finalizing a row keeps the types of what it writes.
LEMMA FinalizeRowType ==
    ASSUME TypeOK, NEW t \in Turns, FinalizeRow(t)
    PROVE  /\ intent' \in [Turns -> {"none", "prepared", "published", "gone"}]
           /\ replies' \in [Turns -> Nat]
           /\ work' \in [Turns -> Nat]
BY DEF TypeOK, FinalizeRow

\* An aborted pass is well typed.
LEMMA AbortType ==
    ASSUME TypeOK, Abort, UNCHANGED <<turns, asked, source, slack>>,
           intent' = intent, replies' = replies, work' = work
    PROVE  TypeOK'
BY DEF TypeOK, Abort

\* A step of a turn keeps the types.
LEMMA TurnKeepsTypes ==
    ASSUME TypeOK, NEW t \in Turns, Turn(t)
    PROVE  TypeOK'
<1> USE DEF TypeOK, Running, Holding
<1>1. ASSUME Ask(t) PROVE TypeOK'
  BY <1>1 DEF Ask
<1>2. ASSUME Prepare(t) PROVE TypeOK'
  BY <1>2 DEF Prepare, LatestAsked
<1>3. ASSUME Post(t) PROVE TypeOK'
  BY <1>3 DEF Post, AcceptPart, FreeStamps
<1>4. ASSUME Mark(t) PROVE TypeOK'
  BY <1>4 DEF Mark, MarkRow
<1>5. ASSUME Finalize(t) PROVE TypeOK'
  <2>1. CASE FinalizeRow(t)
    BY <1>5, <2>1, FinalizeRowType DEF Finalize
  <2>2. CASE UNCHANGED <<intent, replies, work>>
    BY <1>5, <2>2 DEF Finalize
  <2> QED BY <1>5, <2>1, <2>2 DEF Finalize
<1> QED BY <1>1, <1>2, <1>3, <1>4, <1>5 DEF Turn

\* A step of the reconciliation keeps the types.
LEMMA ReconcileKeepsTypes ==
    ASSUME TypeOK, Reconcile
    PROVE  TypeOK'
<1>0. CASE Abort /\ UNCHANGED <<turns, asked, source, slack, intent, replies, work>>
  BY <1>0, AbortType
<1> USE DEF TypeOK
<1>1. ASSUME SelectPublished PROVE TypeOK'
  BY <1>0, <1>1, AbsenceAssumption DEF SelectPublished
<1>2. ASSUME LoadPublished PROVE TypeOK'
  BY <1>0, <1>2 DEF LoadPublished
<1>3. ASSUME FinalizePublished PROVE TypeOK'
  <2>1. current \in Turns
    BY <1>3 DEF FinalizePublished
  <2>2. CASE FinalizeRow(current)
    <3>1. /\ intent' \in [Turns -> {"none", "prepared", "published", "gone"}]
          /\ replies' \in [Turns -> Nat]
          /\ work' \in [Turns -> Nat]
      BY <2>1, <2>2, FinalizeRowType
    <3> QED BY <1>0, <1>3, <3>1 DEF FinalizePublished
  <2> QED BY <1>0, <1>3, <2>2 DEF FinalizePublished
<1>4. ASSUME ListPrepared PROVE TypeOK'
  BY <1>0, <1>4 DEF ListPrepared
<1>5. ASSUME GroupMatches PROVE TypeOK'
  BY <1>5 DEF GroupMatches, Unambiguous
<1>6. ASSUME FinalizeMatch PROVE TypeOK'
  <2>1. current \in Turns
    BY <1>6 DEF FinalizeMatch
  <2>2. CASE FinalizeRow(current)
    <3>1. /\ intent' \in [Turns -> {"none", "prepared", "published", "gone"}]
          /\ replies' \in [Turns -> Nat]
          /\ work' \in [Turns -> Nat]
      BY <2>1, <2>2, FinalizeRowType
    <3> QED BY <1>0, <1>6, <3>1 DEF FinalizeMatch
  <2> QED BY <1>0, <1>6, <2>2 DEF FinalizeMatch
<1>7. ASSUME EndPass PROVE TypeOK'
  BY <1>7 DEF EndPass
<1>8. ASSUME NEW t \in Turns, FindMatch(t) PROVE TypeOK'
  BY <1>0, <1>8 DEF FindMatch
<1>9. ASSUME NEW t \in Turns, MarkMatch(t) PROVE TypeOK'
  BY <1>0, <1>9, AbsenceAssumption DEF MarkMatch, MarkRow
<1> QED BY <1>1, <1>2, <1>3, <1>4, <1>5, <1>6, <1>7, <1>8, <1>9 DEF Reconcile

\* A step keeps the types.
LEMMA StepKeepsTypes == TypeOK /\ [Next]_vars => TypeOK'
<1> SUFFICES ASSUME TypeOK, [Next]_vars PROVE TypeOK'
  OBVIOUS
<1>1. ASSUME NEW t \in Turns, Arrive(t) PROVE TypeOK'
  BY <1>1, ArrivalsType DEF TypeOK, Arrive, Running, Holding
<1>2. ASSUME NEW t \in Turns, Turn(t) PROVE TypeOK'
  BY <1>2, TurnKeepsTypes
<1>3. ASSUME NEW t \in Turns, Hide(t) PROVE TypeOK'
  BY <1>3 DEF TypeOK, Hide
<1>4. ASSUME Start PROVE TypeOK'
  BY <1>4 DEF TypeOK, Start
<1>5. ASSUME BeginPass PROVE TypeOK'
  BY <1>5 DEF TypeOK, BeginPass
<1>6. ASSUME Reconcile PROVE TypeOK'
  BY <1>6, ReconcileKeepsTypes
<1>7. ASSUME Crash PROVE TypeOK'
  BY <1>7 DEF TypeOK, Crash, Running
<1>8. ASSUME UNCHANGED vars PROVE TypeOK'
  BY <1>8 DEF TypeOK, vars
<1> QED BY <1>1, <1>2, <1>3, <1>4, <1>5, <1>6, <1>7, <1>8 DEF Next

\* The initial states are well typed.
LEMMA InitTypes == Init => TypeOK
BY DEF Init, TypeOK, Running, Holding

\* Every variable keeps its type, and the reconciliation holds an intent
\* exactly while it settles one.
THEOREM TypeCorrect == Spec => []TypeOK
BY InitTypes, StepKeepsTypes, PTL DEF Spec
-----------------------------------------------------------------------------
(* A reply is recorded once, and only if Slack has all of it.  None of the  *)
(* properties is inductive alone: that a row is appended once follows from  *)
(* the intent that goes with it, and that an intent is settled only when    *)
(* the reply is complete follows from where the turn and the worker stand.  *)

IInv == TypeOK /\ RecordedOnce /\ IntentTracksTurn

\* A step that changes nothing of a turn keeps it fitting.
LEMMA FitsFrame ==
    ASSUME NEW t \in Turns, Fits(t),
           pc'[t] = pc[t], intent'[t] = intent[t],
           posted'[t] = posted[t], replies'[t] = replies[t]
    PROVE  Fits(t)'
BY DEF Fits, Complete

\* Finalizing the row of a turn that fits leaves it fitting and its work right,
\* whoever does it; other turns are untouched.
LEMMA FinalizeRowKeeps ==
    ASSUME IInv, NEW c \in Turns, FinalizeRow(c), posted' = posted,
           \/ pc' = pc
           \/ pc[c] = "finalize" /\ pc' = [pc EXCEPT ![c] = "responded"]
    PROVE  RecordedOnce' /\ \A t \in Turns : Fits(t)'
<1> USE DEF IInv
<1>1. CASE intent[c] = "published"
  <2>1. /\ intent' = [intent EXCEPT ![c] = "gone"]
        /\ replies' = [replies EXCEPT ![c] = @ + 1]
        /\ work' = IF c \in Eligible THEN [work EXCEPT ![c] = @ + 1] ELSE work
    BY <1>1 DEF FinalizeRow
  <2>2. Fits(c) /\ Complete(c) /\ replies[c] = 0 /\ work[c] = 0
    BY <1>1 DEF IntentTracksTurn, Fits, RecordedOnce
  <2>3. intent'[c] = "gone" /\ replies'[c] = 1 /\ Complete(c)'
    BY <2>1, <2>2 DEF TypeOK, Complete
  <2>4. pc[c] \in {"mark", "finalize", "failed"}
    BY <1>1, <2>2 DEF Fits, TypeOK, Running, Holding
  <2>5. pc'[c] \in {"mark", "finalize", "failed", "responded"}
    BY <2>4 DEF TypeOK
  <2>6. Fits(c)'
    BY <2>3, <2>5 DEF Fits
  <2>7. ASSUME NEW t \in Turns, t # c PROVE Fits(t)'
    <3>1. /\ pc'[t] = pc[t] /\ intent'[t] = intent[t]
          /\ posted'[t] = posted[t] /\ replies'[t] = replies[t]
      BY <2>1, <2>7 DEF TypeOK
    <3> QED BY <3>1, FitsFrame DEF IntentTracksTurn
  <2>8. RecordedOnce'
    BY <2>1, <2>2 DEF RecordedOnce, TypeOK
  <2> QED BY <2>6, <2>7, <2>8
<1>2. CASE intent[c] = "gone" /\ UNCHANGED <<intent, replies, work>>
  <2>1. RecordedOnce'
    BY <1>2 DEF RecordedOnce
  <2>2. ASSUME NEW t \in Turns PROVE Fits(t)'
    BY <1>2, <2>2 DEF IntentTracksTurn, Fits, Complete, TypeOK
  <2> QED BY <2>1, <2>2
<1> QED BY <1>1, <1>2 DEF FinalizeRow

\* Marking the row of a complete reply leaves every turn fitting.
LEMMA MarkRowKeeps ==
    ASSUME IInv, NEW c \in Turns, MarkRow(c), Complete(c),
           UNCHANGED <<posted, replies>>,
           \/ pc' = pc
           \/ pc[c] = "mark" /\ pc' = [pc EXCEPT ![c] = "finalize"]
    PROVE  \A t \in Turns : Fits(t)'
<1> SUFFICES ASSUME NEW t \in Turns PROVE Fits(t)'
  OBVIOUS
<1>0. Fits(t) /\ Fits(c) /\ TypeOK
  BY DEF IInv, IntentTracksTurn
<1>1. CASE t # c
  <2>1. pc'[t] = pc[t] /\ intent'[t] = intent[t]
    BY <1>0, <1>1 DEF TypeOK, MarkRow
  <2> QED BY <1>0, <2>1, FitsFrame
<1>2. CASE t = c
  <2>1. intent'[c] = IF intent[c] = "prepared" THEN "published" ELSE intent[c]
    BY <1>0 DEF TypeOK, MarkRow
  <2>2. \/ pc'[c] = pc[c]
        \/ pc[c] = "mark" /\ pc'[c] = "finalize"
    BY <1>0 DEF TypeOK
  <2>3. intent[c] # "none"
    BY <1>0, TurnsAssumption DEF Fits, Complete
  <2> QED BY <1>0, <1>2, <2>1, <2>2, <2>3 DEF Fits, Complete, TypeOK
<1> QED BY <1>1, <1>2

\* A step of a turn keeps the invariant.
LEMMA TurnKeepsInv ==
    ASSUME IInv, NEW c \in Turns, Turn(c)
    PROVE  IInv'
<1>0. TypeOK'
  BY TurnKeepsTypes DEF IInv
<1>1. matches' = matches
  BY DEF Turn, Ask, Prepare, Post, Mark, Finalize
<1>2. ASSUME \A t \in Turns \ {c} :
                 /\ pc'[t] = pc[t] /\ intent'[t] = intent[t]
                 /\ posted'[t] = posted[t] /\ replies'[t] = replies[t],
             Fits(c)',
             Complete(c) => Complete(c)',
             UNCHANGED <<replies, work>>
      PROVE  IInv'
  <2>1. \A t \in Turns : Fits(t)'
    BY <1>2, FitsFrame DEF IInv, IntentTracksTurn
  <2>2. \A t \in matches' : Complete(t)'
    BY <1>1, <1>2 DEF IInv, IntentTracksTurn, Complete, TypeOK
  <2>3. RecordedOnce'
    BY <1>2 DEF IInv, RecordedOnce
  <2> QED BY <1>0, <2>1, <2>2, <2>3 DEF IInv, IntentTracksTurn
<1>3. TypeOK /\ Fits(c)
  BY DEF IInv, IntentTracksTurn
<1>4. ASSUME Ask(c) PROVE IInv'
  BY <1>2, <1>3, <1>4 DEF Ask, Fits, Complete, TypeOK
<1>5. ASSUME Prepare(c) PROVE IInv'
  <2>1. /\ intent[c] = "none" /\ posted[c] = 0 /\ replies[c] = 0
        /\ 0 < Parts[c]
    BY <1>3, <1>5, TurnsAssumption DEF Prepare, Fits
  <2>2. UNCHANGED <<posted, replies, work>>
    BY <1>5 DEF Prepare
  <2>3. \/ /\ intent' = [intent EXCEPT ![c] = "prepared"]
           /\ pc' = [pc EXCEPT ![c] = "post"]
        \/ intent' = intent /\ pc' = [pc EXCEPT ![c] = "failed"]
    BY <1>5 DEF Prepare
  <2>4. \A t \in Turns \ {c} : pc'[t] = pc[t] /\ intent'[t] = intent[t]
    BY <1>3, <2>3 DEF TypeOK
  <2>5. Fits(c)'
    BY <1>3, <2>1, <2>2, <2>3 DEF TypeOK, Fits, Complete
  <2> QED BY <1>2, <2>2, <2>4, <2>5 DEF Complete
<1>6. ASSUME Post(c) PROVE IInv'
  <2>1. /\ pc[c] = "post" /\ intent[c] = "prepared"
        /\ posted[c] < Parts[c] /\ replies[c] = 0
    BY <1>3, <1>6 DEF Post, Fits
  <2>2. \/ posted' = [posted EXCEPT ![c] = @ + 1]
           /\ pc' \in {[pc EXCEPT ![c] = IF posted[c] + 1 = Parts[c] THEN "mark" ELSE "post"],
                       [pc EXCEPT ![c] = "failed"]}
        \/ posted' = posted /\ pc' = [pc EXCEPT ![c] = "failed"]
    BY <1>6 DEF Post, AcceptPart
  <2>3. UNCHANGED <<intent, replies, work>>
    BY <1>6 DEF Post
  <2>4. Fits(c)'
    BY <1>3, <2>1, <2>2, <2>3, TurnsAssumption DEF TypeOK, Fits, Complete
  <2>5. ~Complete(c)
    BY <1>3, <2>1, TurnsAssumption DEF Complete, TypeOK
  <2>6. \A t \in Turns \ {c} : pc'[t] = pc[t] /\ posted'[t] = posted[t]
    BY <1>3, <2>2 DEF TypeOK
  <2> QED BY <1>2, <2>3, <2>4, <2>5, <2>6
<1>7. ASSUME Mark(c) PROVE IInv'
  <2>1. Complete(c) /\ UNCHANGED <<posted, replies, work>>
    BY <1>3, <1>7 DEF Mark, Fits
  <2>2. CASE MarkRow(c) /\ pc' = [pc EXCEPT ![c] = "finalize"]
    <3>1. \A t \in Turns : Fits(t)'
      BY <1>7, <2>1, <2>2, MarkRowKeeps DEF Mark
    <3>2. RecordedOnce' /\ \A t \in matches' : Complete(t)'
      BY <1>1, <2>1 DEF IInv, RecordedOnce, IntentTracksTurn, Complete
    <3> QED BY <1>0, <3>1, <3>2 DEF IInv, IntentTracksTurn
  <2>3. CASE pc' = [pc EXCEPT ![c] = "failed"] /\ UNCHANGED intent
    BY <1>2, <1>3, <2>1, <2>3 DEF Fits, Complete, TypeOK
  <2> QED BY <1>7, <2>2, <2>3 DEF Mark
<1>8. ASSUME Finalize(c) PROVE IInv'
  <2>1. UNCHANGED posted
    BY <1>8 DEF Finalize
  <2>2. CASE FinalizeRow(c) /\ pc' = [pc EXCEPT ![c] = "responded"]
    <3>1. RecordedOnce' /\ \A t \in Turns : Fits(t)'
      BY <1>8, <2>1, <2>2, FinalizeRowKeeps DEF Finalize
    <3>2. \A t \in matches' : Complete(t)'
      BY <1>1, <2>1 DEF IInv, IntentTracksTurn, Complete
    <3> QED BY <1>0, <3>1, <3>2 DEF IInv, IntentTracksTurn
  <2>3. CASE pc' = [pc EXCEPT ![c] = "failed"] /\ UNCHANGED <<intent, replies, work>>
    BY <1>2, <1>3, <2>1, <2>3 DEF Fits, Complete, TypeOK
  <2> QED BY <1>8, <2>2, <2>3 DEF Finalize
<1> QED BY <1>4, <1>5, <1>6, <1>7, <1>8 DEF Turn

\* A step of the reconciliation keeps the invariant: it writes intents and rows
\* by the two operations above, and collects only complete replies.
LEMMA ReconcileKeepsInv ==
    ASSUME IInv, Reconcile
    PROVE  IInv'
<1>0. TypeOK' /\ TypeOK
  BY ReconcileKeepsTypes DEF IInv
<1>1. UNCHANGED <<pc, posted>>
  BY DEF Reconcile, SelectPublished, LoadPublished, FinalizePublished, ListPrepared,
         GroupMatches, FinalizeMatch, EndPass, FindMatch, MarkMatch
<1>2. \A t \in matches' : Complete(t)'
  BY <1>1 DEF Reconcile, SelectPublished, LoadPublished, FinalizePublished, ListPrepared,
         GroupMatches, FinalizeMatch, EndPass, FindMatch, MarkMatch, Abort, Unambiguous,
         Evident, Complete, IInv, IntentTracksTurn
<1>3. CASE UNCHANGED <<intent, replies, work>>
  <2>1. RecordedOnce' /\ \A t \in Turns : Fits(t)'
    BY <1>1, <1>3 DEF IInv, RecordedOnce, IntentTracksTurn, Fits, Complete
  <2> QED BY <1>0, <1>2, <2>1 DEF IInv, IntentTracksTurn
<1>4. CASE current \in Turns /\ FinalizeRow(current)
  <2>1. RecordedOnce' /\ \A t \in Turns : Fits(t)'
    BY <1>1, <1>4, FinalizeRowKeeps
  <2> QED BY <1>0, <1>2, <2>1 DEF IInv, IntentTracksTurn
<1>5. ASSUME NEW c \in Turns, MarkMatch(c), MarkRow(c) PROVE IInv'
  <2>1. Complete(c) /\ UNCHANGED <<replies, work>>
    BY <1>5 DEF MarkMatch, IInv, IntentTracksTurn
  <2>2. RecordedOnce' /\ \A t \in Turns : Fits(t)'
    BY <1>1, <1>5, <2>1, MarkRowKeeps DEF IInv, RecordedOnce
  <2> QED BY <1>0, <1>2, <2>2 DEF IInv, IntentTracksTurn
<1>6. step \in {"finalizePublished", "finalizeMatch"} => current \in Turns
  BY <1>0 DEF TypeOK
<1> QED
  BY <1>3, <1>4, <1>5, <1>6
     DEF Reconcile, SelectPublished, LoadPublished, FinalizePublished, ListPrepared,
         GroupMatches, FinalizeMatch, EndPass, FindMatch, MarkMatch

\* A step keeps the invariant.
LEMMA StepKeepsInv == IInv /\ [Next]_vars => IInv'
<1> SUFFICES ASSUME IInv, [Next]_vars PROVE IInv'
  OBVIOUS
<1>0. TypeOK' /\ TypeOK
  BY StepKeepsTypes DEF IInv
<1>1. ASSUME UNCHANGED <<intent, replies, work, posted>>,
             matches' = matches \/ matches' = {},
             \A t \in Turns : Fits(t)'
      PROVE  IInv'
  BY <1>0, <1>1 DEF IInv, RecordedOnce, IntentTracksTurn, Complete
<1>2. ASSUME NEW c \in Turns, Arrive(c) PROVE IInv'
  <2>1. \A t \in Turns : Fits(t)'
    BY <1>0, <1>2 DEF Arrive, IInv, IntentTracksTurn, Fits, Complete, TypeOK
  <2> QED BY <1>1, <1>2, <2>1 DEF Arrive
<1>3. ASSUME NEW c \in Turns, Turn(c) PROVE IInv'
  BY <1>3, TurnKeepsInv
<1>4. ASSUME NEW c \in Turns, Hide(c) PROVE IInv'
  <2>1. \A t \in Turns : Fits(t)'
    BY <1>4 DEF Hide, IInv, IntentTracksTurn, Fits, Complete
  <2> QED BY <1>1, <1>4, <2>1 DEF Hide
<1>5. ASSUME Start \/ BeginPass \/ UNCHANGED vars PROVE IInv'
  <2>1. \A t \in Turns : Fits(t)'
    BY <1>5 DEF Start, BeginPass, vars, IInv, IntentTracksTurn, Fits, Complete
  <2> QED BY <1>1, <1>5, <2>1 DEF Start, BeginPass, vars
<1>6. ASSUME Reconcile PROVE IInv'
  BY <1>6, ReconcileKeepsInv
<1>7. ASSUME Crash PROVE IInv'
  <2>1. \A t \in Turns : Fits(t)'
    BY <1>0, <1>7 DEF Crash, IInv, IntentTracksTurn, Fits, Complete, TypeOK, Running, Holding
  <2> QED BY <1>1, <1>7, <2>1 DEF Crash
<1> QED BY <1>2, <1>3, <1>4, <1>5, <1>6, <1>7 DEF Next

\* The invariant holds initially.
LEMMA InitInv == Init => IInv
<1> SUFFICES ASSUME Init PROVE IInv
  OBVIOUS
<1>1. RecordedOnce
  BY DEF Init, RecordedOnce
<1>2. IntentTracksTurn
  BY TurnsAssumption DEF Init, IntentTracksTurn, Fits, Complete
<1> QED BY <1>1, <1>2, InitTypes DEF IInv

\* The invariant holds in every state.
LEMMA InvHolds == Spec => []IInv
BY InitInv, StepKeepsInv, PTL DEF Spec

\* However the turn, the worker and a restart overlap on an intent, its reply
\* and its work are recorded at most once.
THEOREM ReplyRecordedOnce == Spec => []RecordedOnce
BY InvHolds, PTL DEF IInv

\* Nothing is recorded that Slack does not have in full.
THEOREM OnlyPostedIsRecorded == Spec => []RecordedIsPosted
<1>1. IInv => RecordedIsPosted
  BY DEF IInv, RecordedIsPosted, IntentTracksTurn, Fits, TypeOK
<1> QED BY <1>1, InvHolds, PTL

\* A reply that Slack has in full keeps its intent until it is recorded.
THEOREM NoAcceptedReplyLost == Spec => []AcceptedIsKept
<1>1. IInv => AcceptedIsKept
  BY TurnsAssumption DEF IInv, AcceptedIsKept, IntentTracksTurn, Fits, TypeOK, Complete
<1> QED BY <1>1, InvHolds, PTL

\* A turn that reports an answer has recorded it.
THEOREM AnswersAreRecorded == Spec => []RespondedIsRecorded
<1>1. IInv => RespondedIsRecorded
  BY DEF IInv, RespondedIsRecorded, IntentTracksTurn, Fits
<1> QED BY <1>1, InvHolds, PTL

\* The conversation and the memory say what happened, whatever fails or overlaps.
THEOREM RecordsAreTrue == Spec => []RecordIsTrue
<1>1. RecordedOnce /\ RecordedIsPosted /\ AcceptedIsKept /\ RespondedIsRecorded => RecordIsTrue
  BY DEF RecordIsTrue
<1> QED BY <1>1, ReplyRecordedOnce, OnlyPostedIsRecorded, NoAcceptedReplyLost,
           AnswersAreRecorded, PTL

-----------------------------------------------------------------------------
(* The first reconciliation leaves nothing behind.                          *)

SInv == IInv /\ StartCoversAll

\* Unless the process is starting, only the turns matter.
LEMMA NotStarting ==
    ASSUME phase' # "starting", phase' # "up" => \A t \in Turns : pc'[t] \notin Running
    PROVE  StartCoversAll'
BY DEF StartCoversAll

\* Dropping the matches that share a timestamp leaves each dropped one a twin.
LEMMA GroupingCovers ==
    ASSUME SInv, TypeOK', GroupMatches
    PROVE  StartCoversAll'
<1>1. CASE phase # "starting"
  BY <1>1, NotStarting DEF GroupMatches, SInv, StartCoversAll
<1>2. CASE phase = "starting"
  <2>1. /\ step = "find" /\ listed = {} /\ matches' = Unambiguous(matches)
        /\ step' = "settle" /\ UNCHANGED <<pc, intent, posted, stamp, hidden, phase, current>>
    BY DEF GroupMatches
  <2>2. /\ \A t \in Turns : pc[t] \notin Running
        /\ \A t \in Turns : intent[t] = "published" => t = current
        /\ \A t \in matches : intent[t] = "prepared"
        /\ \A t \in Turns : intent[t] = "prepared" /\ Evident(t) => t \in matches
    BY <1>2, <2>1 DEF SInv, StartCoversAll
  <2>3. matches \subseteq Turns /\ \A t \in matches : Complete(t)
    BY DEF SInv, IInv, TypeOK, IntentTracksTurn
  <2>4. ASSUME NEW t \in Turns, intent[t] = "prepared", Evident(t), t \notin matches'
        PROVE  \E u \in Turns \ (matches' \cup {t}) : Twin(t, u)
    <3>1. PICK u \in matches : stamp[u] = stamp[t] /\ u # t
      BY <2>1, <2>2, <2>4 DEF Unambiguous
    <3>2. t \in matches /\ u \notin matches'
      BY <2>1, <2>2, <2>4, <3>1 DEF Unambiguous
    <3> QED BY <2>2, <2>3, <3>1, <3>2 DEF Twin
  <2> QED BY <1>2, <2>1, <2>2, <2>4 DEF StartCoversAll, Evident, Complete, Twin
<1> QED BY <1>1, <1>2

\* Settling one intent, which is nobody's twin, leaves the others covered.
LEMMA SettlingCovers ==
    ASSUME SInv, NEW m \in Turns,
           phase = "starting", phase' = "starting",
           step \in {"settle", "finalizeMatch"}, step' \in {"settle", "finalizeMatch"},
           UNCHANGED <<pc, posted, stamp, hidden>>,
           matches' \subseteq matches, matches \ {m} \subseteq matches',
           \A t \in Turns \ {m} : intent'[t] = intent[t],
           intent'[m] # "prepared",
           m \in matches \/ intent[m] # "prepared",
           \A t \in Turns : intent'[t] = "published" => t = current'
    PROVE  StartCoversAll'
<1>1. ASSUME NEW t \in Turns, intent'[t] = "prepared", Evident(t)', t \notin matches'
      PROVE  \E u \in Turns \ (matches' \cup {t}) : Twin(t, u)'
  <2>1. t # m /\ intent[t] = "prepared" /\ Evident(t) /\ t \notin matches
    BY <1>1 DEF Evident, Complete
  <2>2. PICK u \in Turns \ (matches \cup {t}) : Twin(t, u)
    BY <2>1 DEF SInv, StartCoversAll
  <2>3. u # m
    BY <2>2 DEF Twin
  <2> QED BY <2>2, <2>3 DEF Twin, Complete
<1> QED BY <1>1 DEF SInv, StartCoversAll

\* A step of the reconciliation keeps the replies covered.
LEMMA ReconcileCovers ==
    ASSUME SInv, TypeOK', Reconcile
    PROVE  StartCoversAll'
<1>0. TypeOK /\ UNCHANGED <<pc, posted, stamp, hidden>>
  BY DEF SInv, IInv, Reconcile, SelectPublished, LoadPublished, FinalizePublished,
         ListPrepared, GroupMatches, FinalizeMatch, EndPass, FindMatch, MarkMatch
<1>1. CASE phase' # "starting"
  <2>1. phase' # "up" => phase # "up"
    BY <1>0 DEF Reconcile, SelectPublished, LoadPublished, FinalizePublished,
         ListPrepared, GroupMatches, FinalizeMatch, EndPass, FindMatch, MarkMatch, Abort, TypeOK
  <2> QED BY <1>0, <1>1, <2>1, NotStarting DEF SInv, StartCoversAll
<1>2. ASSUME phase' = "starting", SelectPublished \/ LoadPublished \/ FinalizePublished
      PROVE  StartCoversAll'
  <2>1. /\ phase = "starting"
        /\ \/ step' \in {"select", "load", "finalizePublished"}
           \/ /\ step' = "list" /\ intent' = intent
              /\ \A t \in Turns : intent[t] # "published"
    BY <1>2 DEF SelectPublished, LoadPublished, FinalizePublished, Abort
  <2> QED BY <1>0, <1>2, <2>1 DEF SInv, StartCoversAll
<1>3. ASSUME phase' = "starting", ListPrepared PROVE StartCoversAll'
  <2>1. /\ phase = "starting" /\ step = "list" /\ step' = "find"
        /\ UNCHANGED <<intent, matches, current>> /\ matches = {}
        /\ listed' = {t \in Turns : intent[t] = "prepared"}
    BY <1>0, <1>3 DEF ListPrepared, Abort, TypeOK
  <2> QED BY <1>0, <1>3, <2>1 DEF SInv, StartCoversAll, Evident, Complete
<1>4. ASSUME phase' = "starting", NEW m \in Turns, FindMatch(m) PROVE StartCoversAll'
  <2>1. /\ phase = "starting" /\ step = "find" /\ step' = "find"
        /\ UNCHANGED <<intent, current>> /\ m \in listed
        /\ listed' = listed \ {m}
        /\ matches' = IF Evident(m) THEN matches \cup {m} ELSE matches
    BY <1>4 DEF FindMatch, Abort
  <2> QED BY <1>0, <1>4, <2>1 DEF SInv, StartCoversAll, Evident, Complete
<1>5. ASSUME GroupMatches PROVE StartCoversAll'
  BY <1>5, GroupingCovers
<1>6. ASSUME phase' = "starting", NEW m \in Turns, MarkMatch(m) PROVE StartCoversAll'
  <2>1. /\ phase = "starting" /\ step = "settle" /\ step' = "finalizeMatch"
        /\ m \in matches /\ matches' = matches \ {m} /\ current' = m
        /\ intent' = IF intent[m] = "prepared"
                     THEN [intent EXCEPT ![m] = "published"] ELSE intent
    BY <1>6 DEF MarkMatch, MarkRow, Abort
  <2>2. \A t \in Turns : intent[t] # "published"
    BY <1>0, <2>1, AbsenceAssumption DEF SInv, StartCoversAll, TypeOK
  <2>3. /\ \A t \in Turns \ {m} : intent'[t] = intent[t]
        /\ intent'[m] # "prepared"
    BY <1>0, <2>1 DEF TypeOK
  <2> QED BY <1>0, <1>6, <2>1, <2>2, <2>3, SettlingCovers
<1>7. ASSUME phase' = "starting", FinalizeMatch PROVE StartCoversAll'
  <2>1. /\ phase = "starting" /\ step = "finalizeMatch" /\ step' = "settle"
        /\ UNCHANGED matches /\ FinalizeRow(current) /\ current \in Turns
    BY <1>0, <1>7 DEF FinalizeMatch, Abort, TypeOK
  <2>2. /\ \A t \in Turns \ {current} : intent'[t] = intent[t]
        /\ intent'[current] = "gone" /\ intent[current] # "prepared"
    BY <1>0, <2>1 DEF FinalizeRow, TypeOK
  <2>3. \A t \in Turns : intent'[t] # "published"
    BY <2>1, <2>2 DEF SInv, StartCoversAll
  <2> QED BY <1>0, <1>7, <2>1, <2>2, <2>3, SettlingCovers
<1>8. ASSUME phase' = "starting" PROVE ~EndPass
  BY <1>8 DEF EndPass
<1> QED BY <1>1, <1>2, <1>3, <1>4, <1>5, <1>6, <1>7, <1>8 DEF Reconcile

\* A step keeps the replies covered.
LEMMA StepCovers == SInv /\ [Next]_vars => SInv'
<1> SUFFICES ASSUME SInv, [Next]_vars PROVE StartCoversAll'
  BY StepKeepsInv DEF SInv
<1>0. IInv' /\ TypeOK /\ TypeOK'
  BY StepKeepsInv DEF SInv, IInv
<1>1. ASSUME NEW c \in Turns, Arrive(c) \/ Turn(c) PROVE StartCoversAll'
  <2>1. phase = "up" /\ phase' = "up"
    BY <1>1 DEF Arrive, Turn, Ask, Prepare, Post, Mark, Finalize, Running, Holding,
                SInv, StartCoversAll
  <2> QED BY <2>1 DEF StartCoversAll
<1>2. ASSUME NEW c \in Turns, Hide(c) PROVE StartCoversAll'
  <2>1. hidden \subseteq hidden' /\ UNCHANGED <<pc, intent, posted, stamp, phase, step, listed, matches, current>>
    BY <1>2 DEF Hide
  <2>2. \A t \in Turns : Evident(t)' => Evident(t)
    BY <2>1 DEF Evident, Complete
  <2> QED BY <2>1, <2>2 DEF SInv, StartCoversAll, Twin, Complete
<1>3. ASSUME Start PROVE StartCoversAll'
  BY <1>3 DEF Start, SInv, StartCoversAll
<1>4. ASSUME BeginPass PROVE StartCoversAll'
  BY <1>4 DEF BeginPass, StartCoversAll
<1>5. ASSUME Reconcile PROVE StartCoversAll'
  BY <1>0, <1>5, ReconcileCovers
<1>6. ASSUME Crash PROVE StartCoversAll'
  BY <1>0, <1>6 DEF Crash, StartCoversAll, TypeOK, Running, Holding
<1>7. ASSUME UNCHANGED vars PROVE StartCoversAll'
  BY <1>7 DEF vars, SInv, StartCoversAll, Twin, Evident, Complete
<1> QED BY <1>1, <1>2, <1>3, <1>4, <1>5, <1>6, <1>7 DEF Next

\* In every state the reconciliation of a start covers each reply it should.
THEOREM StartCoverage == Spec => []StartCoversAll
<1>1. Init => SInv
  BY InitInv DEF Init, SInv, StartCoversAll, Running, Holding
<1> QED BY <1>1, StepCovers, PTL DEF Spec, SInv

\* When the listener opens, no reply that Slack can still show is unrecorded,
\* but for those that share a timestamp.
THEOREM NothingLeftBehind == Spec => StartRecovers
<1> DEFINE Opened == phase = "starting" /\ phase' = "up" =>
         \A t \in Turns :
             /\ intent[t] # "published"
             /\ intent[t] = "prepared" /\ Evident(t) =>
                    \E u \in Turns \ {t} : Twin(t, u)
<1>1. SInv /\ [Next]_vars => [Opened]_vars
  <2> SUFFICES ASSUME SInv, Next, phase = "starting", phase' = "up" PROVE Opened
    OBVIOUS
  <2>1. EndPass
    BY DEF Next, Arrive, Turn, Ask, Prepare, Post, Mark, Finalize, Hide, Start, BeginPass,
           Crash, Reconcile, SelectPublished, LoadPublished, FinalizePublished,
           ListPrepared, GroupMatches, FinalizeMatch, FindMatch, MarkMatch, Abort
  <2>2. /\ \A t \in Turns : intent[t] = "published" => t = current
        /\ \A t \in Turns : intent[t] = "prepared" /\ Evident(t) =>
               \E u \in Turns \ {t} : Twin(t, u)
    BY <2>1 DEF EndPass, SInv, StartCoversAll
  <2>3. current \notin Turns
    BY <2>1, AbsenceAssumption DEF EndPass, SInv, IInv, TypeOK
  <2> QED BY <2>2, <2>3
<1>2. Spec => []SInv
  <2>1. Init => SInv
    BY InitInv DEF Init, SInv, StartCoversAll, Running, Holding
  <2> QED BY <2>1, StepCovers, PTL DEF Spec
<1> QED BY <1>1, <1>2, PTL DEF Spec, StartRecovers

-----------------------------------------------------------------------------
(* The exchange implements RecordedReply.                                   *)

Reply  == [t \in Turns |-> IF replies[t] > 0 THEN "recorded"
                           ELSE IF Complete(t) THEN "sent" ELSE "unsent"]
Queued == {t \in Turns : work[t] > 0}

\* A change of one reply, pointwise, is an update of the function.
LEMMA ReplyChanges ==
    ASSUME NEW c \in Turns, NEW v, Reply'[c] = v,
           \A t \in Turns \ {c} : Reply'[t] = Reply[t]
    PROVE  Reply' = [Reply EXCEPT ![c] = v]
<1>1. \A t \in Turns : Reply'[t] = [Reply EXCEPT ![c] = v][t]
  BY DEF Reply
<1>2. /\ Reply' = [t \in Turns |-> Reply'[t]]
      /\ [Reply EXCEPT ![c] = v] = [t \in Turns |-> [Reply EXCEPT ![c] = v][t]]
  BY DEF Reply
<1> QED BY <1>1, <1>2

\* Where neither Slack nor the rows change, the record stands still.
LEMMA RecordStutters ==
    ASSUME UNCHANGED <<replies, work, posted>>
    PROVE  UNCHANGED <<Reply, Queued>>
BY DEF Reply, Queued, Complete

\* Finalizing a row, whoever does it, is recording the reply or nothing.
LEMMA FinalizeRowRecords ==
    ASSUME IInv, NEW c \in Turns, FinalizeRow(c), posted' = posted
    PROVE  Record!Record(c) \/ UNCHANGED <<Reply, Queued>>
<1>1. CASE intent[c] = "published"
  <2>1. TypeOK /\ Complete(c) /\ replies[c] = 0 /\ work[c] = 0
    BY <1>1 DEF IInv, IntentTracksTurn, Fits, RecordedOnce
  <2>2. /\ replies' = [replies EXCEPT ![c] = @ + 1]
        /\ work' = IF c \in Eligible THEN [work EXCEPT ![c] = @ + 1] ELSE work
    BY <1>1 DEF FinalizeRow
  <2>3. /\ replies'[c] = 1
        /\ \A t \in Turns \ {c} : replies'[t] = replies[t]
    BY <2>1, <2>2 DEF TypeOK
  <2>4. Reply[c] = "sent"
    BY <2>1 DEF Reply
  <2>5. Reply' = [Reply EXCEPT ![c] = "recorded"]
    <3>1. Reply'[c] = "recorded"
      BY <2>3 DEF Reply
    <3>2. \A t \in Turns \ {c} : Reply'[t] = Reply[t]
      BY <2>3 DEF Reply, Complete
    <3> QED BY <3>1, <3>2, ReplyChanges
  <2>6. Queued' = Queued \cup ({c} \cap Eligible)
    BY <2>1, <2>2 DEF TypeOK, Queued
  <2> QED BY <2>4, <2>5, <2>6 DEF Record!Record, Reply, Queued
<1>2. CASE UNCHANGED <<intent, replies, work>>
  BY <1>2, RecordStutters
<1> QED BY <1>1, <1>2 DEF FinalizeRow

\* When Slack accepts the last part the reply is sent; any other part is
\* nothing to the record.
LEMMA AcceptPartAccepts ==
    ASSUME IInv, NEW c \in Turns, Post(c)
    PROVE  Record!Accept(c) \/ UNCHANGED <<Reply, Queued>>
<1>1. /\ TypeOK /\ intent[c] = "prepared" /\ posted[c] < Parts[c]
      /\ replies[c] = 0 /\ UNCHANGED <<replies, work>>
  BY DEF Post, IInv, IntentTracksTurn, Fits
<1>2. CASE posted' = [posted EXCEPT ![c] = @ + 1]
  <2>1. /\ posted'[c] = posted[c] + 1
        /\ \A t \in Turns \ {c} : posted'[t] = posted[t]
    BY <1>1, <1>2 DEF TypeOK
  <2>2. Queued' = Queued
    BY <1>1 DEF Queued
  <2>3. posted[c] # Parts[c] /\ Reply[c] = "unsent"
    BY <1>1, TurnsAssumption DEF Reply, Complete, TypeOK
  <2>4. CASE posted[c] + 1 = Parts[c]
    <3>1. Reply'[c] = "sent"
      BY <1>1, <2>1, <2>4 DEF Reply, Complete
    <3>2. \A t \in Turns \ {c} : Reply'[t] = Reply[t]
      BY <1>1, <2>1 DEF Reply, Complete
    <3>3. Reply' = [Reply EXCEPT ![c] = "sent"]
      BY <3>1, <3>2, ReplyChanges
    <3> QED BY <2>2, <2>3, <3>3 DEF Record!Accept, Reply, Queued
  <2>5. CASE posted[c] + 1 # Parts[c]
    <3>1. Reply' = Reply
      BY <1>1, <2>1, <2>3, <2>5 DEF Reply, Complete
    <3> QED BY <2>2, <3>1
  <2> QED BY <2>4, <2>5
<1>3. CASE posted' = posted
  BY <1>1, <1>3, RecordStutters
<1> QED BY <1>2, <1>3 DEF Post, AcceptPart

\* Initially nothing is sent and nothing is queued.
LEMMA InitRecord == Init => Record!Init
BY TurnsAssumption DEF Init, Record!Init, Complete

\* Each step is a step of the record or none.
LEMMA StepRecords == IInv /\ [Next]_vars => [Record!Next]_<<Reply, Queued>>
<1> SUFFICES ASSUME IInv, [Next]_vars
             PROVE  Record!Next \/ UNCHANGED <<Reply, Queued>>
  OBVIOUS
<1>1. ASSUME NEW c \in Turns, Post(c)
      PROVE  Record!Next \/ UNCHANGED <<Reply, Queued>>
  BY <1>1, AcceptPartAccepts DEF Record!Next
<1>2. ASSUME NEW c \in Turns, FinalizeRow(c), posted' = posted
      PROVE  Record!Next \/ UNCHANGED <<Reply, Queued>>
  BY <1>2, FinalizeRowRecords DEF Record!Next
<1>3. ASSUME NEW c \in Turns, Arrive(c) \/ Ask(c) \/ Prepare(c) \/ Mark(c) \/ Hide(c)
      PROVE  UNCHANGED <<Reply, Queued>>
  BY <1>3, RecordStutters DEF Arrive, Ask, Prepare, Mark, Hide
<1>4. ASSUME NEW c \in Turns, Finalize(c)
      PROVE  Record!Next \/ UNCHANGED <<Reply, Queued>>
  BY <1>2, <1>4, RecordStutters DEF Finalize
<1>5. ASSUME Start \/ BeginPass \/ Crash \/ UNCHANGED vars
      PROVE  UNCHANGED <<Reply, Queued>>
  BY <1>5, RecordStutters DEF Start, BeginPass, Crash, vars
<1>6. ASSUME Reconcile
      PROVE  Record!Next \/ UNCHANGED <<Reply, Queued>>
  <2>1. CASE UNCHANGED <<replies, work, posted>>
    BY <2>1, RecordStutters
  <2>2. CASE current \in Turns /\ FinalizeRow(current) /\ posted' = posted
    BY <1>2, <2>2
  <2>3. step \in {"finalizePublished", "finalizeMatch"} => current \in Turns
    BY DEF IInv, TypeOK
  <2> QED
    BY <1>6, <2>1, <2>2, <2>3
       DEF Reconcile, SelectPublished, LoadPublished, FinalizePublished, ListPrepared,
           GroupMatches, FinalizeMatch, EndPass, FindMatch, MarkMatch
<1> QED BY <1>1, <1>3, <1>4, <1>5, <1>6 DEF Next, Turn

\* With its intents, crashes and reconciliations, the exchange is one atomic
\* recording of each reply.
THEOREM ExchangeImplementsRecord == Spec => ImplementsRecord
BY InitRecord, StepRecords, InvHolds, PTL
   DEF Spec, ImplementsRecord, Record!Spec, Reply, Queued
=============================================================================
