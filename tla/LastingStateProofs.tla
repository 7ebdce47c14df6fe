------------------------- MODULE LastingStateProofs -------------------------
(***************************************************************************)
(* Proofs about LastingState for all its constants: streamed answers, the  *)
(* sessions of the model, the identity of messages, and the executable of  *)
(* OpenCode, each about the specification of its component, and at the end *)
(* about that of LastingState, whose steps are steps of one component and  *)
(* stutters of the others. The proofs about confirmations are in           *)
(* ConfirmationDeliveryProofs.                                             *)
(***************************************************************************)
EXTENDS LastingState, FiniteSetTheorems, TLAPS

-----------------------------------------------------------------------------
(* STREAMED ANSWERS                                                          *)

Holds(s, text) == \E m \in DOMAIN s : s[m] = text

Unfinished(rowStatus) == rowStatus \notin Finished \cup {"none"}

\* A handler in one of these places that has no message has posted none.
Silent == {"idle", "stream", "prepare", "finalize", "apologize", "interrupt"}

\* In these places nothing is half-written.
Settled == {"close", "giveup", "record", "complete"}

\* In these places there is no answer yet that an edit could write over.
Unanswered == {"stream", "mark", "created", "updated", "prepare", "interrupt",
               "remark"}

\* What Slack shows of a turn, for a place, a timestamp and a status: the
\* arguments are the entries of the turn.
Fits(place, m, rowStatus, exchange, s) ==
    /\ place \in Silent /\ m = 0 => s = <<>>
    /\ place \in {"idle", "apologize"} => m = 0
    /\ place \in {"mark", "created", "updated", "remark"} => m # 0
    /\ place \in {"stream", "prepare"} => Unfinished(rowStatus)
    /\ Holds(s, "partial") => Unfinished(rowStatus)
    /\ place \in Settled => ~Holds(s, "partial")
    /\ place \in {"record", "complete"} => Holds(s, "answer")
    /\ place = "complete" => exchange = "recorded"
    /\ place \in Unanswered => ~Holds(s, "answer")
    /\ rowStatus = "finalized" => exchange = "recorded" /\ Holds(s, "answer")

TurnInv(t) ==
    /\ Len(shown[t]) <= 1
    /\ ts[t] \in {0} \cup DOMAIN shown[t]
    /\ seen[t] \in {0} \cup DOMAIN shown[t]
    /\ Fits(pc[t], seen[t], row[t], intent[t], shown[t])

Types ==
    /\ row \in [Turns -> Statuses]
    /\ ts \in [Turns -> Nat]
    /\ intent \in [Turns -> {"none", "open", "recorded"}]
    /\ shown \in [Turns -> Seq(Texts)]
    /\ pc \in [Turns -> Live \cup {"idle", "remark", "done"}]
    /\ seen \in [Turns -> Nat]
    /\ phase \in {"down", "starting", "up"}
    /\ todo \subseteq Turns

IInv == Types /\ \A t \in Turns : TurnInv(t)

------------------------------------------------------------------------------
(* One message or none.                                                     *)

\* An empty conversation holds no text.
LEMMA HoldsNone == \A text : ~Holds(<<>>, text)
BY DEF Holds

\* A conversation with one message holds that text only.
LEMMA HoldsOne ==
    ASSUME NEW one \in Texts, NEW text
    PROVE  Holds(<<one>>, text) <=> text = one
BY DEF Holds

\* Editing the one message of a conversation leaves one, with the new text.
LEMMA EditOne ==
    ASSUME NEW s \in Seq(Texts), Len(s) <= 1, NEW m \in DOMAIN s, NEW text \in Texts
    PROVE  [s EXCEPT ![m] = text] = <<text>>
<1>1. m = 1 /\ Len(s) = 1 /\ DOMAIN s = {1}
  <2>1. Len(s) \in Nat /\ DOMAIN s = 1 .. Len(s)
    OBVIOUS
  <2>2. m \in 1 .. Len(s)
    BY <2>1
  <2>3. m = 1 /\ Len(s) = 1
    BY <2>1, <2>2
  <2>4. DOMAIN s = {1}
    BY <2>1, <2>3
  <2> QED BY <2>3, <2>4
<1>2. [s EXCEPT ![m] = text] = [i \in {1} |-> text]
  BY <1>1
<1>3. <<text>> = [i \in {1} |-> text]
  <2>1. <<text>> \in Seq(Texts) /\ Len(<<text>>) = 1 /\ <<text>>[1] = text
    OBVIOUS
  <2>2. DOMAIN <<text>> = {1}
    BY <2>1
  <2>3. <<text>> = [i \in DOMAIN <<text>> |-> <<text>>[i]]
    BY <2>1
  <2> QED BY <2>1, <2>2, <2>3
<1> QED BY <1>2, <1>3

\* The entries of every other turn stay.
Outside(t) == \A u \in Turns \ {t} :
    /\ row'[u] = row[u] /\ ts'[u] = ts[u] /\ intent'[u] = intent[u]
    /\ shown'[u] = shown[u] /\ pc'[u] = pc[u] /\ seen'[u] = seen[u]

\* A step that touches one turn and keeps its part of the invariant keeps it.
LEMMA OneTurn ==
    ASSUME IInv, NEW t \in Turns, Types', Outside(t), TurnInv(t)'
    PROVE  IInv'
<1>1. ASSUME NEW u \in Turns PROVE TurnInv(u)'
  <2>1. CASE u # t
    <3>1. TurnInv(u)
      BY DEF IInv
    <3>2. /\ row'[u] = row[u] /\ ts'[u] = ts[u] /\ intent'[u] = intent[u]
          /\ shown'[u] = shown[u] /\ pc'[u] = pc[u] /\ seen'[u] = seen[u]
      BY <2>1 DEF Outside
    <3> QED BY <3>1, <3>2 DEF TurnInv
  <2> QED BY <2>1
<1> QED BY <1>1 DEF IInv

\* A first message.
LEMMA PostOne ==
    ASSUME NEW t \in Turns, Types, shown[t] = <<>>, NEW text \in Texts, Posted(t, text)
    PROVE  shown' = [shown EXCEPT ![t] = <<text>>]
BY DEF Types, Posted

\* An edit of the only message.
LEMMA EditShown ==
    ASSUME NEW t \in Turns, Types, TurnInv(t), seen[t] # 0, NEW text \in Texts,
           Edited(t, text)
    PROVE  shown' = [shown EXCEPT ![t] = <<text>>]
<1>1. seen[t] \in DOMAIN shown[t] /\ shown[t] \in Seq(Texts) /\ Len(shown[t]) <= 1
  BY DEF Types, TurnInv
<1>2. [shown[t] EXCEPT ![seen[t]] = text] = <<text>>
  BY <1>1, EditOne
<1> QED BY <1>2 DEF Edited

\* The timestamps that a turn can hold.
LEMMA OneMessageHere ==
    ASSUME NEW t \in Turns, Types, TurnInv(t)
    PROVE  /\ ts[t] \in {0, 1} /\ seen[t] \in {0, 1}
           /\ (seen[t] # 0 \/ ts[t] # 0 \/ shown[t] # <<>>) =>
                  Len(shown[t]) = 1 /\ DOMAIN shown[t] = {1}
<1>1. /\ shown[t] \in Seq(Texts) /\ Len(shown[t]) <= 1 /\ Len(shown[t]) \in Nat
      /\ DOMAIN shown[t] = 1 .. Len(shown[t])
      /\ ts[t] \in {0} \cup DOMAIN shown[t] /\ seen[t] \in {0} \cup DOMAIN shown[t]
  BY DEF Types, TurnInv
<1>2. CASE Len(shown[t]) = 0
  BY <1>1, <1>2
<1>3. CASE Len(shown[t]) = 1
  <2>1. DOMAIN shown[t] = {1}
    BY <1>1, <1>3
  <2> QED BY <1>1, <1>3, <2>1
<1>4. Len(shown[t]) = 0 \/ Len(shown[t]) = 1
  <2>1. \A n \in Nat : n <= 1 => n = 0 \/ n = 1
    OBVIOUS
  <2> QED BY <1>1, <2>1
<1> QED BY <1>2, <1>3, <1>4

\* What is shown of the turn after such a step.
Says(t, text) ==
    /\ shown' \in [Turns -> Seq(Texts)]
    /\ \A u \in Turns \ {t} : shown'[u] = shown[u]
    /\ Len(shown'[t]) = 1 /\ DOMAIN shown'[t] = {1}
    /\ \A x : Holds(shown'[t], x) <=> text = x

\* A conversation that is replaced by one message says its text.
LEMMA ShownOne ==
    ASSUME NEW t \in Turns, Types, NEW text \in Texts,
           shown' = [shown EXCEPT ![t] = <<text>>]
    PROVE  Says(t, text)
<1>1. shown'[t] = <<text>> /\ \A u \in Turns \ {t} : shown'[u] = shown[u]
  BY DEF Types
<1>2. shown' \in [Turns -> Seq(Texts)]
  BY DEF Types
<1>3. Len(<<text>>) = 1 /\ DOMAIN <<text>> = {1} /\ <<text>>[1] = text
  OBVIOUS
<1> QED BY <1>1, <1>2, <1>3 DEF Holds, Says

\* Fits, where one message is shown.
FitsOne(place, m, rowStatus, exchange, text) ==
    /\ place \in Silent => m # 0
    /\ place \notin {"idle", "apologize"}
    /\ place \in {"mark", "created", "updated", "remark"} => m # 0
    /\ place \in {"stream", "prepare"} => Unfinished(rowStatus)
    /\ text = "partial" => Unfinished(rowStatus)
    /\ place \in Settled => text # "partial"
    /\ place \in {"record", "complete"} => text = "answer"
    /\ place = "complete" => exchange = "recorded"
    /\ place \in Unanswered => text # "answer"
    /\ rowStatus = "finalized" => exchange = "recorded" /\ text = "answer"

\* A turn whose one message says what its step allows keeps its invariant.
LEMMA SaysTurn ==
    ASSUME NEW t \in Turns, NEW text \in Texts, Says(t, text),
           ts'[t] \in {0, 1}, seen'[t] \in {0, 1},
           FitsOne(pc'[t], seen'[t], row'[t], intent'[t], text)
    PROVE  TurnInv(t)'
<1>1. Fits(pc'[t], seen'[t], row'[t], intent'[t], shown'[t])
  BY DEF Fits, FitsOne, Says
<1>2. /\ Len(shown'[t]) <= 1 /\ ts'[t] \in {0} \cup DOMAIN shown'[t]
      /\ seen'[t] \in {0} \cup DOMAIN shown'[t]
  BY DEF Says
<1> QED BY <1>1, <1>2 DEF TurnInv

------------------------------------------------------------------------------
(* The steps that leave Slack alone.                                        *)

\* PrepareIncremental keeps the invariant.
LEMMA PrepareIncrementalKeeps ==
    ASSUME IInv, NEW t \in Turns, PrepareIncremental(t)
    PROVE  IInv'
<1>1. Types /\ TurnInv(t)
  BY DEF IInv
<1>2. Types'
  BY <1>1 DEF PrepareIncremental, Types, SetRow, Goto, Recorded, rows, process,
     Statuses, Live, Finished
<1>3. Outside(t)
  BY <1>1 DEF PrepareIncremental, Outside, Types, SetRow, Goto, Recorded, rows, process
<1>4. TurnInv(t)'
  BY <1>1, HoldsNone DEF PrepareIncremental, Types, TurnInv, Fits, SetRow, Goto,
     Recorded, rows, process, Silent, Settled, Unanswered, Unfinished, Finished
<1> QED BY <1>2, <1>3, <1>4, OneTurn

\* MarkIncrementalCreated keeps the invariant.
LEMMA MarkIncrementalCreatedKeeps ==
    ASSUME IInv, NEW t \in Turns, MarkIncrementalCreated(t)
    PROVE  IInv'
<1>1. Types /\ TurnInv(t)
  BY DEF IInv
<1>2. /\ UNCHANGED <<intent, shown, seen, phase, todo>> /\ pc[t] = "mark"
      /\ \/ /\ row' = [row EXCEPT ![t] = "message_created"]
            /\ ts' = [ts EXCEPT ![t] = seen[t]]
            /\ pc' = [pc EXCEPT ![t] = "created"]
         \/ /\ row' = row /\ ts' = ts
            /\ pc' = [pc EXCEPT ![t] = "lost"]
  BY DEF MarkIncrementalCreated, Goto, rows
<1>3. Types'
  <2>1. seen[t] \in Nat /\ "message_created" \in Statuses
    BY <1>1 DEF Types, Statuses
  <2>2. row' \in [Turns -> Statuses]
    BY <1>1, <1>2, <2>1 DEF Types
  <2>3. ts' \in [Turns -> Nat]
    BY <1>1, <1>2, <2>1 DEF Types
  <2>4. pc' \in [Turns -> Live \cup {"idle", "remark", "done"}]
    BY <1>1, <1>2 DEF Types, Live
  <2> QED BY <1>1, <1>2, <2>2, <2>3, <2>4 DEF Types
<1>4. Outside(t)
  BY <1>1, <1>2 DEF Outside, Types
<1>5. TurnInv(t)'
  BY <1>1, <1>2, HoldsNone DEF Types, TurnInv, Fits, Silent, Settled, Unanswered,
     Unfinished, Finished
<1> QED BY <1>3, <1>4, <1>5, OneTurn

\* UpdateIncremental keeps the invariant.
LEMMA UpdateIncrementalKeeps ==
    ASSUME IInv, NEW t \in Turns, UpdateIncremental(t)
    PROVE  IInv'
<1>1. Types /\ TurnInv(t)
  BY DEF IInv
<1>2. Types'
  BY <1>1 DEF UpdateIncremental, Types, SetRow, Goto, Recorded, rows, process,
     Statuses, Live, Finished
<1>3. Outside(t)
  BY <1>1 DEF UpdateIncremental, Outside, Types, SetRow, Goto, Recorded, rows, process
<1>4. TurnInv(t)'
  BY <1>1, HoldsNone DEF UpdateIncremental, Types, TurnInv, Fits, SetRow, Goto,
     Recorded, rows, process, Silent, Settled, Unanswered, Unfinished, Finished
<1> QED BY <1>2, <1>3, <1>4, OneTurn

\* AdvanceIncremental keeps the invariant.
LEMMA AdvanceIncrementalKeeps ==
    ASSUME IInv, NEW t \in Turns, AdvanceIncremental(t)
    PROVE  IInv'
<1>1. Types /\ TurnInv(t)
  BY DEF IInv
<1>2. Types'
  BY <1>1 DEF AdvanceIncremental, Types, SetRow, Goto, Recorded, rows, process,
     Statuses, Live, Finished
<1>3. Outside(t)
  BY <1>1 DEF AdvanceIncremental, Outside, Types, SetRow, Goto, Recorded, rows, process
<1>4. TurnInv(t)'
  BY <1>1, HoldsNone DEF AdvanceIncremental, Types, TurnInv, Fits, SetRow, Goto,
     Recorded, rows, process, Silent, Settled, Unanswered, Unfinished, Finished
<1> QED BY <1>2, <1>3, <1>4, OneTurn

\* Lose keeps the invariant.
LEMMA LoseKeeps ==
    ASSUME IInv, NEW t \in Turns, Lose(t)
    PROVE  IInv'
<1>1. Types /\ TurnInv(t)
  BY DEF IInv
<1>2. Types'
  BY <1>1 DEF Lose, Types, SetRow, Goto, Recorded, rows, process,
     Statuses, Live, Finished
<1>3. Outside(t)
  BY <1>1 DEF Lose, Outside, Types, SetRow, Goto, Recorded, rows, process
<1>4. TurnInv(t)'
  BY <1>1, HoldsNone DEF Lose, Types, TurnInv, Fits, SetRow, Goto,
     Recorded, rows, process, Silent, Settled, Unanswered, Unfinished, Finished
<1> QED BY <1>2, <1>3, <1>4, OneTurn

\* EndStream keeps the invariant.
LEMMA EndStreamKeeps ==
    ASSUME IInv, NEW t \in Turns, EndStream(t)
    PROVE  IInv'
<1>1. Types /\ TurnInv(t)
  BY DEF IInv
<1>2. Types'
  BY <1>1 DEF EndStream, Types, SetRow, Goto, Recorded, rows, process,
     Statuses, Live, Finished
<1>3. Outside(t)
  BY <1>1 DEF EndStream, Outside, Types, SetRow, Goto, Recorded, rows, process
<1>4. TurnInv(t)'
  BY <1>1, HoldsNone DEF EndStream, Types, TurnInv, Fits, SetRow, Goto,
     Recorded, rows, process, Silent, Settled, Unanswered, Unfinished, Finished
<1> QED BY <1>2, <1>3, <1>4, OneTurn

\* Close keeps the invariant.
LEMMA CloseKeeps ==
    ASSUME IInv, NEW t \in Turns, Close(t)
    PROVE  IInv'
<1>1. Types /\ TurnInv(t)
  BY DEF IInv
<1>2. Types'
  BY <1>1 DEF Close, Types, SetRow, Goto, Recorded, rows, process,
     Statuses, Live, Finished
<1>3. Outside(t)
  BY <1>1 DEF Close, Outside, Types, SetRow, Goto, Recorded, rows, process
<1>4. TurnInv(t)'
  BY <1>1, HoldsNone DEF Close, Types, TurnInv, Fits, SetRow, Goto,
     Recorded, rows, process, Silent, Settled, Unanswered, Unfinished, Finished
<1> QED BY <1>2, <1>3, <1>4, OneTurn

\* PrepareAssistantExchange keeps the invariant.
LEMMA PrepareAssistantExchangeKeeps ==
    ASSUME IInv, NEW t \in Turns, PrepareAssistantExchange(t)
    PROVE  IInv'
<1>1. Types /\ TurnInv(t)
  BY DEF IInv
<1>2. Types'
  BY <1>1 DEF PrepareAssistantExchange, Types, SetRow, Goto, Recorded, rows, process,
     Statuses, Live, Finished
<1>3. Outside(t)
  BY <1>1 DEF PrepareAssistantExchange, Outside, Types, SetRow, Goto, Recorded, rows, process
<1>4. TurnInv(t)'
  BY <1>1, HoldsNone DEF PrepareAssistantExchange, Types, TurnInv, Fits, SetRow, Goto,
     Recorded, rows, process, Silent, Settled, Unanswered, Unfinished, Finished
<1> QED BY <1>2, <1>3, <1>4, OneTurn

\* FinalizeAssistantExchange keeps the invariant.
LEMMA FinalizeAssistantExchangeKeeps ==
    ASSUME IInv, NEW t \in Turns, FinalizeAssistantExchange(t)
    PROVE  IInv'
<1>1. Types /\ TurnInv(t)
  BY DEF IInv
<1>2. Types'
  BY <1>1 DEF FinalizeAssistantExchange, Types, SetRow, Goto, Recorded, rows, process,
     Statuses, Live, Finished
<1>3. Outside(t)
  BY <1>1 DEF FinalizeAssistantExchange, Outside, Types, SetRow, Goto, Recorded, rows, process
<1>4. TurnInv(t)'
  BY <1>1, HoldsNone DEF FinalizeAssistantExchange, Types, TurnInv, Fits, SetRow, Goto,
     Recorded, rows, process, Silent, Settled, Unanswered, Unfinished, Finished
<1> QED BY <1>2, <1>3, <1>4, OneTurn

\* Complete keeps the invariant.
LEMMA CompleteKeeps ==
    ASSUME IInv, NEW t \in Turns, Complete(t)
    PROVE  IInv'
<1>1. Types /\ TurnInv(t)
  BY DEF IInv
<1>2. Types'
  BY <1>1 DEF Complete, Types, SetRow, Goto, Recorded, rows, process,
     Statuses, Live, Finished
<1>3. Outside(t)
  BY <1>1 DEF Complete, Outside, Types, SetRow, Goto, Recorded, rows, process
<1>4. TurnInv(t)'
  BY <1>1, HoldsNone DEF Complete, Types, TurnInv, Fits, SetRow, Goto,
     Recorded, rows, process, Silent, Settled, Unanswered, Unfinished, Finished
<1> QED BY <1>2, <1>3, <1>4, OneTurn

\* GiveUp keeps the invariant.
LEMMA GiveUpKeeps ==
    ASSUME IInv, NEW t \in Turns, GiveUp(t)
    PROVE  IInv'
<1>1. Types /\ TurnInv(t)
  BY DEF IInv
<1>2. Types'
  BY <1>1 DEF GiveUp, Types, SetRow, Goto, Recorded, rows, process,
     Statuses, Live, Finished
<1>3. Outside(t)
  BY <1>1 DEF GiveUp, Outside, Types, SetRow, Goto, Recorded, rows, process
<1>4. TurnInv(t)'
  BY <1>1, HoldsNone DEF GiveUp, Types, TurnInv, Fits, SetRow, Goto,
     Recorded, rows, process, Silent, Settled, Unanswered, Unfinished, Finished
<1> QED BY <1>2, <1>3, <1>4, OneTurn

\* ReconcileAssistantExchange keeps the invariant.
LEMMA ReconcileAssistantExchangeKeeps ==
    ASSUME IInv, NEW t \in Turns, ReconcileAssistantExchange(t)
    PROVE  IInv'
<1>1. Types /\ TurnInv(t)
  BY DEF IInv
<1>2. Types'
  BY <1>1 DEF ReconcileAssistantExchange, Types, SetRow, Goto, Recorded, rows, process,
     Statuses, Live, Finished
<1>3. Outside(t)
  BY <1>1 DEF ReconcileAssistantExchange, Outside, Types, SetRow, Goto, Recorded, rows, process
<1>4. TurnInv(t)'
  BY <1>1, HoldsNone DEF ReconcileAssistantExchange, Types, TurnInv, Fits, SetRow, Goto,
     Recorded, rows, process, Silent, Settled, Unanswered, Unfinished, Finished, Holds
<1> QED BY <1>2, <1>3, <1>4, OneTurn

------------------------------------------------------------------------------
(* The steps that post or edit.                                             *)

\* CreateIncremental keeps the invariant.
LEMMA CreateIncrementalKeeps ==
    ASSUME IInv, NEW t \in Turns, CreateIncremental(t)
    PROVE  IInv'
<1>1. Types /\ TurnInv(t) /\ pc[t] = "stream" /\ seen[t] = 0 /\ "partial" \in Texts
  BY DEF IInv, CreateIncremental, Texts
<1>2. shown[t] = <<>> /\ ts[t] = 0 /\ Len(shown[t]) = 0 /\ Unfinished(row[t])
  <2>1. shown[t] = <<>> /\ Unfinished(row[t])
    BY <1>1 DEF TurnInv, Fits, Silent
  <2> QED BY <1>1, <2>1 DEF TurnInv
<1>3. /\ UNCHANGED <<row, ts, intent, phase, todo>>
      /\ Posted(t, "partial") \/ shown' = shown
      /\ \/ /\ Posted(t, "partial")
            /\ pc' = [pc EXCEPT ![t] = "mark"] /\ seen' = [seen EXCEPT ![t] = 1]
         \/ pc' = [pc EXCEPT ![t] = "lost"] /\ seen' = seen
  BY <1>2 DEF CreateIncremental, Goto, rows
<1>4. Posted(t, "partial") => Says(t, "partial")
  BY <1>1, <1>2, PostOne, ShownOne
<1>5. Types'
  <2>1. shown' \in [Turns -> Seq(Texts)]
    BY <1>1, <1>3, <1>4 DEF Types, Says
  <2>2. seen' \in [Turns -> Nat]
    <3>1. seen' = [seen EXCEPT ![t] = 1] \/ seen' = seen
      BY <1>3
    <3>2. seen \in [Turns -> Nat] /\ 1 \in Nat
      BY <1>1 DEF Types
    <3> QED BY <3>1, <3>2
  <2>3. pc' \in [Turns -> Live \cup {"idle", "remark", "done"}]
    BY <1>1, <1>3 DEF Types, Live
  <2> QED BY <1>1, <1>3, <2>1, <2>2, <2>3 DEF Types
<1>6. Outside(t)
  BY <1>1, <1>3, <1>4 DEF Outside, Types, Says
<1>7. TurnInv(t)'
  <2>1. /\ row'[t] = row[t] /\ intent'[t] = intent[t] /\ ts'[t] = 0
        /\ \/ pc'[t] = "mark" /\ seen'[t] = 1 /\ Posted(t, "partial")
           \/ pc'[t] = "lost" /\ seen'[t] = 0
    BY <1>1, <1>2, <1>3 DEF Types
  <2>2. CASE Posted(t, "partial")
    <3>1. FitsOne(pc'[t], seen'[t], row'[t], intent'[t], "partial")
      BY <1>2, <2>1 DEF FitsOne, Silent, Settled, Unanswered, Unfinished, Finished
    <3> QED BY <1>1, <1>4, <2>1, <2>2, <3>1, SaysTurn
  <2>3. CASE ~Posted(t, "partial")
    <3>1. shown'[t] = <<>> /\ Len(shown'[t]) = 0
      BY <1>2, <1>3, <2>3
    <3>2. Fits(pc'[t], seen'[t], row'[t], intent'[t], shown'[t])
      BY <1>2, <2>1, <2>3, <3>1, HoldsNone DEF Fits, Silent, Settled, Unanswered,
         Unfinished, Finished
    <3> QED BY <2>1, <2>3, <3>1, <3>2 DEF TurnInv
  <2> QED BY <2>2, <2>3
<1> QED BY <1>5, <1>6, <1>7, OneTurn

\* Apologize keeps the invariant.
LEMMA ApologizeKeeps ==
    ASSUME IInv, NEW t \in Turns, Apologize(t)
    PROVE  IInv'
<1>1. Types /\ TurnInv(t) /\ pc[t] = "apologize" /\ "apology" \in Texts
  BY DEF IInv, Apologize, Texts
<1>2. shown[t] = <<>> /\ ts[t] = 0 /\ seen[t] = 0 /\ Len(shown[t]) = 0
  <2>1. shown[t] = <<>> /\ seen[t] = 0
    BY <1>1 DEF TurnInv, Fits, Silent
  <2> QED BY <1>1, <2>1 DEF TurnInv
<1>3. /\ UNCHANGED <<ts, intent, phase, todo, seen>>
      /\ row' = [row EXCEPT ![t] = "interrupted"] \/ row' = row
      /\ Posted(t, "apology") \/ shown' = shown
      /\ pc' = [pc EXCEPT ![t] = "done"]
  BY DEF Apologize, Goto, SetRow, rows
<1>4. Posted(t, "apology") => Says(t, "apology")
  BY <1>1, <1>2, PostOne, ShownOne
<1>5. Types'
  <2>1. shown' \in [Turns -> Seq(Texts)]
    BY <1>1, <1>3, <1>4 DEF Types, Says
  <2>2. /\ row' \in [Turns -> Statuses]
        /\ pc' \in [Turns -> Live \cup {"idle", "remark", "done"}]
    BY <1>1, <1>3 DEF Types, Live, Statuses, Finished
  <2> QED BY <1>1, <1>3, <2>1, <2>2 DEF Types
<1>6. Outside(t)
  BY <1>1, <1>3, <1>4 DEF Outside, Types, Says
<1>7. TurnInv(t)'
  <2>1. /\ row'[t] = row[t] \/ row'[t] = "interrupted"
        /\ intent'[t] = intent[t] /\ ts'[t] = 0 /\ pc'[t] = "done" /\ seen'[t] = 0
    BY <1>1, <1>2, <1>3 DEF Types
  <2>2. row[t] # "finalized"
    BY <1>1, <1>2, HoldsNone DEF TurnInv, Fits
  <2>3. CASE Posted(t, "apology")
    <3>1. FitsOne(pc'[t], seen'[t], row'[t], intent'[t], "apology")
      BY <2>1, <2>2 DEF FitsOne, Silent, Settled, Unanswered
    <3> QED BY <1>1, <1>4, <2>1, <2>3, <3>1, SaysTurn
  <2>4. CASE ~Posted(t, "apology")
    <3>1. shown'[t] = <<>> /\ Len(shown'[t]) = 0
      BY <1>2, <1>3, <2>4
    <3>2. Fits(pc'[t], seen'[t], row'[t], intent'[t], shown'[t])
      BY <2>1, <2>2, <3>1, HoldsNone DEF Fits, Silent, Settled, Unanswered
    <3> QED BY <2>1, <3>1, <3>2 DEF TurnInv
  <2> QED BY <2>3, <2>4
<1> QED BY <1>5, <1>6, <1>7, OneTurn

\* Interrupt keeps the invariant.
LEMMA InterruptKeeps ==
    ASSUME IInv, NEW t \in Turns, Interrupt(t)
    PROVE  IInv'
<1>1. Types /\ TurnInv(t) /\ pc[t] = "interrupt" /\ "closed" \in Texts
  BY DEF IInv, Interrupt, Texts
<1>2. /\ UNCHANGED <<row, ts, intent, phase, todo, seen>>
      /\ \/ seen[t] = 0 /\ pc' = [pc EXCEPT ![t] = "close"] /\ shown' = shown
         \/ /\ seen[t] # 0 /\ Edited(t, "closed")
            /\ pc' = [pc EXCEPT ![t] = "close"]
         \/ seen[t] # 0 /\ shown' = shown /\ pc' = [pc EXCEPT ![t] = "lost"]
         \/ /\ seen[t] # 0 /\ Edited(t, "closed")
            /\ pc' = [pc EXCEPT ![t] = "lost"]
  BY DEF Interrupt, Goto, rows
<1>3. seen[t] # 0 /\ Edited(t, "closed") => Says(t, "closed")
  BY <1>1, EditShown, ShownOne
<1>4. /\ ts[t] \in {0, 1} /\ seen[t] \in {0, 1} /\ row[t] # "finalized"
      /\ seen[t] = 0 => shown[t] = <<>>
  <2>1. row[t] # "finalized" /\ (seen[t] = 0 => shown[t] = <<>>)
    BY <1>1 DEF TurnInv, Fits, Unanswered, Silent
  <2> QED BY <1>1, <2>1, OneMessageHere
<1>5. Types'
  <2>1. shown' \in [Turns -> Seq(Texts)]
    BY <1>1, <1>2, <1>3 DEF Types, Says
  <2>2. pc' \in [Turns -> Live \cup {"idle", "remark", "done"}]
    BY <1>1, <1>2 DEF Types, Live
  <2> QED BY <1>1, <1>2, <2>1, <2>2 DEF Types
<1>6. Outside(t)
  BY <1>1, <1>2, <1>3 DEF Outside, Types, Says
<1>7. TurnInv(t)'
  <2>1. /\ row'[t] = row[t] /\ intent'[t] = intent[t] /\ ts'[t] = ts[t]
        /\ seen'[t] = seen[t]
    BY <1>2
  <2>2. pc'[t] \in {"close", "lost"}
    BY <1>1, <1>2 DEF Types
  <2>3. CASE seen[t] # 0 /\ Edited(t, "closed")
    <3>1. FitsOne(pc'[t], seen'[t], row'[t], intent'[t], "closed")
      BY <1>4, <2>1, <2>2, <2>3 DEF FitsOne, Silent, Settled, Unanswered
    <3> QED BY <1>1, <1>3, <1>4, <2>1, <2>3, <3>1, SaysTurn
  <2>4. CASE shown' = shown /\ pc'[t] = "lost"
    <3>1. Fits(pc'[t], seen'[t], row'[t], intent'[t], shown'[t])
      BY <1>1, <1>4, <2>1, <2>4 DEF TurnInv, Fits, Silent, Settled, Unanswered
    <3> QED BY <1>1, <2>1, <2>4, <3>1 DEF TurnInv
  <2>5. CASE shown' = shown /\ pc'[t] = "close" /\ seen[t] = 0
    <3>1. Fits(pc'[t], seen'[t], row'[t], intent'[t], shown'[t])
      BY <1>1, <1>4, <2>1, <2>5, HoldsNone DEF TurnInv, Fits, Silent, Settled,
         Unanswered
    <3> QED BY <1>1, <2>1, <2>5, <3>1 DEF TurnInv
  <2>6. \/ seen[t] # 0 /\ Edited(t, "closed")
        \/ shown' = shown /\ pc'[t] = "lost"
        \/ shown' = shown /\ pc'[t] = "close" /\ seen[t] = 0
    BY <1>1, <1>2 DEF Types
  <2> QED BY <2>3, <2>4, <2>5, <2>6
<1> QED BY <1>5, <1>6, <1>7, OneTurn

\* FinalizeIncremental keeps the invariant.
LEMMA FinalizeIncrementalKeeps ==
    ASSUME IInv, NEW t \in Turns, FinalizeIncremental(t)
    PROVE  IInv'
<1>1. Types /\ TurnInv(t) /\ pc[t] = "finalize" /\ "answer" \in Texts
  BY DEF IInv, FinalizeIncremental, Texts
<1>2. /\ UNCHANGED <<row, ts, intent, phase, todo, seen>>
      /\ \/ Answer(t) /\ pc' = [pc EXCEPT ![t] = "record"]
         \/ /\ Answer(t) \/ shown' = shown
            /\ \/ seen[t] = 0 /\ pc' = [pc EXCEPT ![t] = "giveup"]
               \/ seen[t] # 0 /\ pc' = [pc EXCEPT ![t] = "lost"]
  BY DEF FinalizeIncremental, Goto, rows
<1>3. seen[t] = 0 => shown[t] = <<>>
  BY <1>1 DEF TurnInv, Fits, Silent
<1>4. Answer(t) => shown' = [shown EXCEPT ![t] = <<"answer">>]
  BY <1>1, <1>3, PostOne, EditShown DEF Answer
<1>5. Answer(t) => Says(t, "answer")
  BY <1>1, <1>4, ShownOne
<1>6. ts[t] \in {0, 1} /\ seen[t] \in {0, 1}
  BY <1>1, OneMessageHere
<1>7. Types'
  <2>1. shown' \in [Turns -> Seq(Texts)]
    BY <1>1, <1>2, <1>5 DEF Types, Says
  <2>2. pc' \in [Turns -> Live \cup {"idle", "remark", "done"}]
    BY <1>1, <1>2 DEF Types, Live
  <2> QED BY <1>1, <1>2, <2>1, <2>2 DEF Types
<1>8. Outside(t)
  BY <1>1, <1>2, <1>5 DEF Outside, Types, Says
<1>9. TurnInv(t)'
  <2>1. /\ row'[t] = row[t] /\ intent'[t] = intent[t] /\ ts'[t] = ts[t]
        /\ seen'[t] = seen[t]
    BY <1>2
  <2>2. \/ Answer(t) /\ pc'[t] \in {"record", "giveup", "lost"}
        \/ shown' = shown /\ pc'[t] = "giveup" /\ seen[t] = 0
        \/ shown' = shown /\ pc'[t] = "lost" /\ seen[t] # 0
    BY <1>1, <1>2 DEF Types
  <2>3. row[t] = "finalized" => intent[t] = "recorded"
    BY <1>1 DEF TurnInv, Fits
  <2>4. CASE Answer(t) /\ pc'[t] \in {"record", "giveup", "lost"}
    <3>1. FitsOne(pc'[t], seen'[t], row'[t], intent'[t], "answer")
      BY <2>1, <2>3, <2>4 DEF FitsOne, Silent, Settled, Unanswered
    <3> QED BY <1>1, <1>5, <1>6, <2>1, <2>4, <3>1, SaysTurn
  <2>5. CASE shown' = shown /\ pc'[t] = "giveup" /\ seen[t] = 0
    <3>1. Fits(pc'[t], seen'[t], row'[t], intent'[t], shown'[t])
      BY <1>1, <1>3, <2>1, <2>5, HoldsNone DEF TurnInv, Fits, Silent, Settled,
         Unanswered
    <3> QED BY <1>1, <2>1, <2>5, <3>1 DEF TurnInv
  <2>6. CASE shown' = shown /\ pc'[t] = "lost" /\ seen[t] # 0
    <3>1. Fits(pc'[t], seen'[t], row'[t], intent'[t], shown'[t])
      BY <1>1, <2>1, <2>6 DEF TurnInv, Fits, Silent, Settled, Unanswered
    <3> QED BY <1>1, <2>1, <2>6, <3>1 DEF TurnInv
  <2> QED BY <2>2, <2>4, <2>5, <2>6
<1> QED BY <1>7, <1>8, <1>9, OneTurn

------------------------------------------------------------------------------
(* The start.                                                               *)

\* A process that is gone holds no message and no place.
LEMMA StopKeeps ==
    ASSUME IInv, Stop, UNCHANGED <<rows, shown>>
    PROVE  IInv'
<1>1. Types
  BY DEF IInv
<1>2. /\ UNCHANGED <<row, ts, intent, shown>> /\ phase' = "down" /\ todo' = {}
      /\ pc' = [t \in Turns |-> IF pc[t] = "idle" THEN "idle" ELSE "done"]
      /\ seen' = [t \in Turns |-> 0]
  BY DEF Stop, rows
<1>3. Types'
  <2>1. pc' \in [Turns -> Live \cup {"idle", "remark", "done"}]
    BY <1>2
  <2>2. seen' \in [Turns -> Nat]
    BY <1>2
  <2> QED BY <1>1, <1>2, <2>1, <2>2 DEF Types
<1>4. ASSUME NEW t \in Turns PROVE TurnInv(t)'
  <2>1. TurnInv(t)
    BY DEF IInv
  <2>2. /\ row'[t] = row[t] /\ intent'[t] = intent[t] /\ ts'[t] = ts[t]
        /\ shown'[t] = shown[t] /\ seen'[t] = 0
        /\ pc'[t] = IF pc[t] = "idle" THEN "idle" ELSE "done"
    BY <1>2
  <2>3. Fits(pc'[t], seen'[t], row'[t], intent'[t], shown'[t])
    BY <2>1, <2>2 DEF TurnInv, Fits, Silent, Settled, Unanswered
  <2> QED BY <2>1, <2>2, <2>3 DEF TurnInv
<1> QED BY <1>3, <1>4 DEF IInv

\* The phase and the list are not part of what a turn keeps.
LEMMA PhaseKeeps ==
    ASSUME IInv, UNCHANGED <<rows, shown, pc, seen>>,
           phase' \in {"down", "starting", "up"}, todo' \subseteq Turns
    PROVE  IInv'
<1>1. /\ row' = row /\ ts' = ts /\ intent' = intent /\ shown' = shown
      /\ pc' = pc /\ seen' = seen
  BY DEF rows
<1>2. Types'
  BY <1>1 DEF IInv, Types
<1>3. ASSUME NEW t \in Turns PROVE TurnInv(t)'
  BY <1>1 DEF IInv, TurnInv
<1> QED BY <1>2, <1>3 DEF IInv

\* RecoverIncremental keeps the invariant.
LEMMA RecoverIncrementalKeeps ==
    ASSUME IInv, NEW t \in Turns, RecoverIncremental(t)
    PROVE  IInv'
<1>1. Types /\ TurnInv(t) /\ shown' = shown
  BY DEF IInv, RecoverIncremental
<1>2. pc[t] \notin Live \cup {"remark"}
  BY DEF RecoverIncremental, Busy
<1>3. CASE Streamed(t) = {} /\ SetRow(t, "interrupted") /\ todo' = todo \ {t}
           /\ UNCHANGED <<pc, seen, phase>>
  <2>1. /\ row' = [row EXCEPT ![t] = "interrupted"] /\ ts' = ts /\ intent' = intent
        /\ pc' = pc /\ seen' = seen /\ phase' = phase /\ todo' = todo \ {t}
    BY <1>3 DEF SetRow
  <2>2. Types'
    <3>1. row' \in [Turns -> Statuses]
      BY <1>1, <2>1 DEF Types, Statuses, Finished
    <3> QED BY <1>1, <2>1, <3>1 DEF Types
  <2>3. Outside(t)
    BY <1>1, <2>1 DEF Types, Outside
  <2>4. ~Holds(shown[t], "partial")
    BY <1>3 DEF Streamed, Holds
  <2>5. TurnInv(t)'
    <3>1. row'[t] = "interrupted"
      BY <1>1, <2>1 DEF Types
    <3>2. Fits(pc'[t], seen'[t], row'[t], intent'[t], shown'[t])
      BY <1>1, <1>2, <2>1, <2>4, <3>1 DEF TurnInv, Fits, Silent, Settled, Unanswered,
         Live
    <3> QED BY <1>1, <2>1, <3>2 DEF TurnInv
  <2> QED BY <2>2, <2>3, <2>5, OneTurn
<1>4. CASE \E m \in Streamed(t) :
              /\ Streamed(t) = {m}
              /\ seen' = [seen EXCEPT ![t] = IF ts[t] = 0 THEN m ELSE ts[t]]
              /\ pc' = [pc EXCEPT ![t] = IF ts[t] = 0 THEN "remark" ELSE "interrupt"]
              /\ todo' = todo \ {t}
              /\ UNCHANGED <<rows, phase>>
  <2>1. PICK m \in Streamed(t) :
              /\ seen' = [seen EXCEPT ![t] = IF ts[t] = 0 THEN m ELSE ts[t]]
              /\ pc' = [pc EXCEPT ![t] = IF ts[t] = 0 THEN "remark" ELSE "interrupt"]
              /\ todo' = todo \ {t}
              /\ UNCHANGED <<rows, phase>>
    BY <1>4
  <2>2. m \in DOMAIN shown[t] /\ shown[t][m] \in {"partial", "closed"}
    BY DEF Streamed
  <2>3. m = 1 /\ DOMAIN shown[t] = {1} /\ (IF ts[t] = 0 THEN m ELSE ts[t]) = 1
    <3>1. shown[t] # <<>>
      BY <2>2
    <3> QED BY <1>1, <2>2, <3>1, OneMessageHere
  <2>4. UNCHANGED <<row, ts, intent, phase, shown>> /\ todo' \subseteq Turns
    BY <1>1, <2>1 DEF rows, Types
  <2>5. ~Holds(shown[t], "answer")
    BY <2>2, <2>3 DEF Holds
  <2>6. Types'
    <3>1. seen' \in [Turns -> Nat]
      BY <1>1, <2>1, <2>3 DEF Types
    <3>2. pc' \in [Turns -> Live \cup {"idle", "remark", "done"}]
      BY <1>1, <2>1 DEF Types, Live
    <3> QED BY <1>1, <2>4, <3>1, <3>2 DEF Types
  <2>7. Outside(t)
    BY <1>1, <2>1, <2>4 DEF Types, Outside
  <2>8. TurnInv(t)'
    <3>1. seen'[t] = 1 /\ pc'[t] \in {"remark", "interrupt"}
      BY <1>1, <2>1, <2>3 DEF Types
    <3>2. Fits(pc'[t], seen'[t], row'[t], intent'[t], shown'[t])
      BY <1>1, <2>3, <2>4, <2>5, <3>1 DEF TurnInv, Fits, Silent, Settled, Unanswered
    <3> QED BY <1>1, <2>3, <2>4, <3>1, <3>2 DEF TurnInv
  <2> QED BY <2>6, <2>7, <2>8, OneTurn
<1>5. CASE Stop /\ UNCHANGED rows
  BY <1>1, <1>5, StopKeeps
<1> QED BY <1>3, <1>4, <1>5 DEF RecoverIncremental

\* RemarkIncremental keeps the invariant.
LEMMA RemarkIncrementalKeeps ==
    ASSUME IInv, NEW t \in Turns, RemarkIncremental(t)
    PROVE  IInv'
<1>1. Types /\ TurnInv(t) /\ shown' = shown /\ pc[t] = "remark"
  BY DEF IInv, RemarkIncremental
<1>2. CASE Unmarked(t) /\ row' = [row EXCEPT ![t] = "message_created"]
           /\ ts' = [ts EXCEPT ![t] = seen[t]] /\ Goto(t, "interrupt")
           /\ UNCHANGED intent
  <2>1. /\ row' = [row EXCEPT ![t] = "message_created"]
        /\ ts' = [ts EXCEPT ![t] = seen[t]] /\ intent' = intent
        /\ pc' = [pc EXCEPT ![t] = "interrupt"]
        /\ seen' = seen /\ phase' = phase /\ todo' = todo
    BY <1>2 DEF Goto
  <2>2. Types'
    <3>1. row' \in [Turns -> Statuses]
      BY <1>1, <2>1 DEF Types, Statuses
    <3>2. ts' \in [Turns -> Nat]
      BY <1>1, <2>1 DEF Types
    <3>3. pc' \in [Turns -> Live \cup {"idle", "remark", "done"}]
      BY <1>1, <2>1 DEF Types, Live
    <3> QED BY <1>1, <2>1, <3>1, <3>2, <3>3 DEF Types
  <2>3. Outside(t)
    BY <1>1, <2>1 DEF Types, Outside
  <2>4. TurnInv(t)'
    <3>1. /\ row'[t] = "message_created" /\ ts'[t] = seen[t]
          /\ pc'[t] = "interrupt"
      BY <1>1, <2>1 DEF Types
    <3>2. Fits(pc'[t], seen'[t], row'[t], intent'[t], shown'[t])
      BY <1>1, <2>1, <3>1 DEF TurnInv, Fits, Silent, Settled, Unanswered, Unfinished,
         Finished
    <3> QED BY <1>1, <2>1, <3>1, <3>2 DEF TurnInv
  <2> QED BY <2>2, <2>3, <2>4, OneTurn
<1>3. CASE Stop /\ UNCHANGED rows
  BY <1>1, <1>3, StopKeeps
<1> QED BY <1>2, <1>3 DEF RemarkIncremental

------------------------------------------------------------------------------
(* The invariant.                                                           *)

\* The invariant holds at the start.
LEMMA InitIInv == ASSUME Init PROVE IInv
<1>1. Types
  BY DEF Init, Types, Statuses
<1>2. ASSUME NEW t \in Turns PROVE TurnInv(t)
  BY HoldsNone DEF Init, TurnInv, Fits, Silent, Settled, Unanswered
<1> QED BY <1>1, <1>2 DEF IInv

\* Every step keeps the invariant.
LEMMA NextIInv == ASSUME IInv, [Next]_vars PROVE IInv'
<1>1. ASSUME NEW t \in Turns, Turn(t) PROVE IInv'
  BY <1>1, PrepareIncrementalKeeps, CreateIncrementalKeeps, MarkIncrementalCreatedKeeps,
     UpdateIncrementalKeeps, AdvanceIncrementalKeeps, LoseKeeps, EndStreamKeeps,
     ApologizeKeeps, InterruptKeeps, CloseKeeps, PrepareAssistantExchangeKeeps,
     FinalizeIncrementalKeeps, FinalizeAssistantExchangeKeeps, CompleteKeeps,
     GiveUpKeeps DEF Turn
<1>2. CASE ListUnfinishedIncremental
  BY <1>2, PhaseKeeps DEF ListUnfinishedIncremental
<1>3. CASE StartListening
  BY <1>3, PhaseKeeps DEF StartListening, IInv, Types
<1>4. CASE Crash
  BY <1>4, StopKeeps DEF Crash
<1>5. CASE UNCHANGED vars
  BY <1>5, PhaseKeeps DEF vars, process, IInv, Types
<1> QED BY <1>1, <1>2, <1>3, <1>4, <1>5, ReconcileAssistantExchangeKeeps,
           RecoverIncrementalKeeps, RemarkIncrementalKeeps DEF Next

\* The invariant holds at every moment.
LEMMA Invariance == Spec => []IInv
BY InitIInv, NextIInv, PTL DEF Spec

------------------------------------------------------------------------------
(* Theorems                                                                 *)

\* Every variable stays in its type: a timestamp in a row or in a handler is
\* that of a message in Slack.
THEOREM TypeCorrect == Spec => []TypeOK
<1>1. IInv => TypeOK
  BY DEF IInv, Types, TypeOK, TurnInv
<1> QED BY <1>1, Invariance, PTL

\* Whatever fails, handleStreamingTurn never says two things in one turn.
THEOREM SpeaksOnce == Spec => []OneMessage
<1>1. IInv => OneMessage
  BY DEF IInv, TurnInv, OneMessage
<1> QED BY <1>1, Invariance, PTL

\* Half-written text always has a row for ReconcileIncremental to find.
THEOREM PartsAreFound == Spec => []PartIsFound
<1>1. IInv => PartIsFound
  BY DEF IInv, TurnInv, Fits, Holds, Unfinished, PartIsFound
<1> QED BY <1>1, Invariance, PTL

\* A finalized row means an answer in Slack and in the conversation.
THEOREM FinalizedMeansAnswered == Spec => []FinalizedIsAnswered
<1>1. IInv => FinalizedIsAnswered
  BY DEF IInv, TurnInv, Fits, Holds, FinalizedIsAnswered
<1> QED BY <1>1, Invariance, PTL

\* Whatever fails, a streamed turn speaks once and is found until it is finished.
THEOREM StreamsAreFound == Spec => []StreamIsFound
<1>1. OneMessage /\ PartIsFound /\ FinalizedIsAnswered => StreamIsFound
  BY DEF StreamIsFound
<1> QED BY <1>1, SpeaksOnce, PartsAreFound, FinalizedMeansAnswered, PTL

\* Posts and edits of one turn leave what is shown of the others.
LEMMA SpokenElsewhere ==
    ASSUME Types, NEW u \in Turns, NEW t \in Turns, u # t, NEW text,
           Posted(u, text) \/ Edited(u, text) \/ shown' = shown
    PROVE  shown'[t] = shown[t]
BY DEF Types, Posted, Edited

\* A message that shows the answer goes on showing it.
LEMMA AnswerKept ==
    ASSUME IInv, [Next]_vars, NEW t \in Turns, NEW m \in DOMAIN shown[t],
           shown[t][m] = "answer"
    PROVE  m \in DOMAIN shown'[t] /\ shown'[t][m] = "answer"
<1>1. Types /\ TurnInv(t) /\ Holds(shown[t], "answer") /\ shown[t] # <<>>
  BY DEF IInv, Holds
<1>2. ASSUME NEW u \in Turns, CreateIncremental(u) PROVE shown'[t] = shown[t]
  <2>1. u = t => pc[t] = "stream"
    BY <1>2 DEF CreateIncremental
  <2>2. u # t
    BY <1>1, <2>1 DEF TurnInv, Fits, Unanswered
  <2> QED BY <1>1, <1>2, <2>2, SpokenElsewhere DEF CreateIncremental
<1>3. ASSUME NEW u \in Turns, Apologize(u) PROVE shown'[t] = shown[t]
  <2>1. u = t => pc[t] = "apologize"
    BY <1>3 DEF Apologize
  <2>2. u # t
    BY <1>1, <2>1 DEF TurnInv, Fits, Silent
  <2> QED BY <1>1, <1>3, <2>2, SpokenElsewhere DEF Apologize
<1>4. ASSUME NEW u \in Turns, Interrupt(u) PROVE shown'[t] = shown[t]
  <2>1. u = t => pc[t] = "interrupt"
    BY <1>4 DEF Interrupt
  <2>2. u # t
    BY <1>1, <2>1 DEF TurnInv, Fits, Unanswered
  <2> QED BY <1>1, <1>4, <2>2, SpokenElsewhere DEF Interrupt
<1>5. ASSUME NEW u \in Turns, FinalizeIncremental(u)
      PROVE  m \in DOMAIN shown'[t] /\ shown'[t][m] = "answer"
  <2>1. Answer(u) \/ shown' = shown
    BY <1>5 DEF FinalizeIncremental
  <2>2. CASE u # t
    <3>1. shown'[t] = shown[t]
      BY <1>1, <2>1, <2>2, SpokenElsewhere DEF Answer
    <3> QED BY <3>1
  <2>3. CASE shown' = shown
    BY <2>3
  <2>4. CASE u = t /\ Answer(t)
    <3>1. pc[t] = "finalize"
      BY <1>5, <2>4 DEF FinalizeIncremental
    <3>2. seen[t] # 0
      BY <1>1, <3>1 DEF TurnInv, Fits, Silent
    <3>3. shown' = [shown EXCEPT ![t] = <<"answer">>]
      BY <1>1, <2>4, <3>2, EditShown DEF Answer, Texts
    <3>4. shown'[t] = <<"answer">>
      BY <1>1, <3>3 DEF Types
    <3>5. m = 1
      BY <1>1, OneMessageHere
    <3> QED BY <3>4, <3>5
  <2> QED BY <2>1, <2>2, <2>3, <2>4
<1>6. ASSUME NEW u \in Turns, Turn(u)
      PROVE  shown' = shown \/ CreateIncremental(u) \/ Apologize(u) \/ Interrupt(u)
                 \/ FinalizeIncremental(u)
  BY <1>6 DEF Turn, PrepareIncremental, MarkIncrementalCreated, UpdateIncremental,
     AdvanceIncremental, Lose, EndStream, Close, PrepareAssistantExchange,
     FinalizeAssistantExchange, Complete, GiveUp
<1>7. \/ shown' = shown
      \/ \E u \in Turns : CreateIncremental(u) \/ Apologize(u) \/ Interrupt(u)
                              \/ FinalizeIncremental(u)
  BY <1>6 DEF Next, vars, ReconcileAssistantExchange, RecoverIncremental,
     RemarkIncremental, ListUnfinishedIncremental, StartListening, Crash
<1> QED BY <1>2, <1>3, <1>4, <1>5, <1>7

\* No later step of the turn, of another turn or of a start writes over an
\* answer that Slack has.
THEOREM AnswersStay == Spec => AnswerStays
<1>1. IInv /\ [Next]_vars =>
        [\A t \in Turns : \A m \in DOMAIN shown[t] :
           shown[t][m] = "answer" => m \in DOMAIN shown'[t] /\ shown'[t][m] = "answer"]_vars
  BY AnswerKept
<1> QED BY <1>1, Invariance, PTL DEF Spec, AnswerStays

-----------------------------------------------------------------------------
(* THE SESSIONS OF THE MODEL                                                 *)

EventDeltas == Deltas \cup {Adk!Empty}
Trimmed(d) == [k \in {x \in DOMAIN d : x.scope # "temp"} |-> d[k]]
EventFamilies == Families \cup {"openai_compatible"}
Rows == [delta : EventDeltas, family : EventFamilies]
LocalRows == [delta : EventDeltas \cup {Trimmed(d) : d \in EventDeltas}, family : EventFamilies]
TurnPlaces == {"idle", "ensure", "check", "row", "app", "user", "events", "run"}

\* A map whose keys are all of some scope.
MapOf(f, scope) == f = [k \in DOMAIN f |-> f[k]] /\ \A k \in DOMAIN f : k.scope = scope

SessionsTyped ==
    /\ up \in BOOLEAN /\ providerFamily \in Families
    /\ stored \subseteq Sessions
    /\ revision \in [Sessions -> Nat]
    /\ events \in [Sessions -> Seq(Rows)]
    /\ \A s \in Sessions : revision[s] = Len(events[s])
    /\ \A s \in Sessions : s \notin stored => revision[s] = 0

TurnsTyped ==
    /\ turn \in [SessionTurns -> TurnPlaces]
    /\ sessionID \in [SessionTurns -> Sessions]
    /\ localRevision \in [SessionTurns -> Nat]
    /\ localEvents \in [SessionTurns -> Seq(LocalRows)]
    /\ DOMAIN localState = SessionTurns

StatesTyped ==
    /\ DOMAIN state = Sessions
    /\ \A s \in Sessions : MapOf(state[s], "session")
    /\ MapOf(appState, "app")
    /\ MapOf(userState, "user")

StoreTyped == SessionsTyped /\ TurnsTyped /\ StatesTyped

------------------------------------------------------------------------------
(* Maps of state                                                             *)

LEMMA ScopedIsMap ==
    ASSUME NEW d, NEW scope PROVE MapOf(Adk!Scoped(d, scope), scope)
  BY DEF MapOf, Adk!Scoped

LEMMA CopyIsMap ==
    ASSUME NEW f, NEW d, NEW scope, MapOf(f, scope), MapOf(d, scope)
    PROVE  MapOf(Adk!Copy(f, d), scope)
  BY DEF MapOf, Adk!Copy

LEMMA CopyNothing ==
    ASSUME NEW f, NEW d, NEW scope, MapOf(f, scope), DOMAIN d = {}
    PROVE  Adk!Copy(f, d) = f
  BY DEF MapOf, Adk!Copy

\* What is copied from another scope does not show.
LEMMA OtherScope ==
    ASSUME NEW f, NEW d, NEW scope, NEW other, other # scope, MapOf(d, other)
    PROVE  Adk!Scoped(Adk!Copy(f, d), scope) = Adk!Scoped(f, scope)
<1>1. \A k \in DOMAIN d : k.scope # scope
  BY DEF MapOf
<1>2. {x \in DOMAIN Adk!Copy(f, d) : x.scope = scope} = {x \in DOMAIN f : x.scope = scope}
  BY <1>1 DEF Adk!Copy
<1>3. \A k \in {x \in DOMAIN f : x.scope = scope} : Adk!Copy(f, d)[k] = f[k]
  BY <1>1 DEF Adk!Copy
<1> QED BY <1>2, <1>3 DEF Adk!Scoped

LEMMA SameScope ==
    ASSUME NEW f, NEW d, NEW scope, MapOf(d, scope)
    PROVE  Adk!Scoped(Adk!Copy(f, d), scope) = Adk!Copy(Adk!Scoped(f, scope), d)
<1> DEFINE whole == {x \in DOMAIN Adk!Copy(f, d) : x.scope = scope}
           kept == {x \in DOMAIN f : x.scope = scope}
<1>1. \A k \in DOMAIN d : k.scope = scope
  BY DEF MapOf
<1>2. DOMAIN Adk!Copy(f, d) = DOMAIN f \cup DOMAIN d
  BY DEF Adk!Copy
<1>3. whole = kept \cup DOMAIN d
  BY <1>1, <1>2
<1>4. DOMAIN Adk!Scoped(f, scope) = kept /\ \A k \in kept : Adk!Scoped(f, scope)[k] = f[k]
  BY DEF Adk!Scoped
<1>5. Adk!Scoped(Adk!Copy(f, d), scope) = [k \in whole |-> Adk!Copy(f, d)[k]]
  BY DEF Adk!Scoped
<1>6. Adk!Copy(Adk!Scoped(f, scope), d) = [k \in kept \cup DOMAIN d |->
          IF k \in DOMAIN d THEN d[k] ELSE Adk!Scoped(f, scope)[k]]
  BY <1>4 DEF Adk!Copy
<1>7. \A k \in kept \cup DOMAIN d : Adk!Copy(f, d)[k] =
          IF k \in DOMAIN d THEN d[k] ELSE Adk!Scoped(f, scope)[k]
  BY <1>4 DEF Adk!Copy
<1> HIDE DEF whole, kept
<1> QED BY <1>3, <1>5, <1>6, <1>7

LEMMA ScopedWhole ==
    ASSUME NEW f, NEW scope, MapOf(f, scope) PROVE Adk!Scoped(f, scope) = f
<1>1. {x \in DOMAIN f : x.scope = scope} = DOMAIN f
  BY DEF MapOf
<1> QED BY <1>1 DEF Adk!Scoped, MapOf

------------------------------------------------------------------------------
(* Rows and what they change                                                 *)

LEMMA TrimTwice == \A d : Trimmed(Trimmed(d)) = Trimmed(d)
<1> SUFFICES ASSUME NEW d PROVE Trimmed(Trimmed(d)) = Trimmed(d)
  OBVIOUS
<1>1. DOMAIN Trimmed(d) = {x \in DOMAIN d : x.scope # "temp"}
  BY DEF Trimmed
<1>2. {x \in DOMAIN Trimmed(d) : x.scope # "temp"} = {x \in DOMAIN d : x.scope # "temp"}
  BY <1>1
<1>3. \A k \in {x \in DOMAIN d : x.scope # "temp"} : Trimmed(d)[k] = d[k]
  BY DEF Trimmed
<1> QED BY <1>2, <1>3 DEF Trimmed

LEMMA TrimmedRow ==
    ASSUME NEW e, e \in Rows \/ e \in LocalRows
    PROVE  /\ Adk!trimTempDeltaState(e).delta = Trimmed(e.delta)
           /\ e \in Rows => Adk!trimTempDeltaState(e) \in LocalRows
<1>1. Adk!trimTempDeltaState(e) = [e EXCEPT !.delta = Trimmed(e.delta)]
  BY DEF Adk!trimTempDeltaState, Trimmed
<1>2. Adk!trimTempDeltaState(e).delta = Trimmed(e.delta)
  BY <1>1 DEF Rows, LocalRows
<1>3. ASSUME e \in Rows PROVE Adk!trimTempDeltaState(e) \in LocalRows
  BY <1>1, <1>3 DEF Rows, LocalRows
<1> QED BY <1>2, <1>3

LEMMA ChangesOf ==
    ASSUME NEW es, es \in Seq(Rows) \/ es \in Seq(LocalRows)
    PROVE  /\ Adk!Changes(es) = [i \in 1..Len(es) |-> Trimmed(es[i].delta)]
           /\ Len(Adk!Changes(es)) = Len(es)
           /\ DOMAIN Adk!Changes(es) = 1..Len(es)
<1>1. DOMAIN es = 1..Len(es) /\ Len(es) \in Nat
  OBVIOUS
<1>2. \A i \in DOMAIN es : es[i] \in Rows \/ es[i] \in LocalRows
  OBVIOUS
<1>3. \A i \in DOMAIN es : Adk!trimTempDeltaState(es[i]).delta = Trimmed(es[i].delta)
  BY <1>2, TrimmedRow
<1>4. Adk!Changes(es) = [i \in 1..Len(es) |-> Trimmed(es[i].delta)]
  BY <1>1, <1>3 DEF Adk!Changes
<1>5. Adk!Changes(es) \in Seq({Trimmed(es[i].delta) : i \in 1..Len(es)})
  BY <1>1, <1>4
<1> QED BY <1>1, <1>4, <1>5

LEMMA ChangesNone == Adk!Changes(<<>>) = <<>>
<1>1. DOMAIN <<>> = {} /\ Len(<<>>) = 0
  OBVIOUS
<1>2. DOMAIN Adk!Changes(<<>>) = {}
  BY <1>1 DEF Adk!Changes
<1> QED BY <1>2 DEF Adk!Changes

LEMMA ChangesAppend ==
    ASSUME NEW R \in {Rows, LocalRows}, NEW es \in Seq(R), NEW e \in R
    PROVE  Adk!Changes(Append(es, e)) = Append(Adk!Changes(es), Trimmed(e.delta))
<1> DEFINE more == Append(es, e)
<1>1. more \in Seq(R) /\ Len(more) = Len(es) + 1
  OBVIOUS
<1>2. \A i \in 1..Len(es) : more[i] = es[i]
  OBVIOUS
<1>3. more[Len(es) + 1] = e
  OBVIOUS
<1>4. Adk!Changes(more) = [i \in 1..Len(es) + 1 |-> Trimmed(more[i].delta)]
  BY <1>1, ChangesOf
<1>5. Adk!Changes(es) = [i \in 1..Len(es) |-> Trimmed(es[i].delta)]
  BY ChangesOf
<1>6. Len(es) \in Nat /\ Adk!Changes(es) \in Seq({Trimmed(es[i].delta) : i \in 1..Len(es)})
  BY <1>5
<1>7. Len(Adk!Changes(es)) = Len(es)
  BY ChangesOf
<1>8. Append(Adk!Changes(es), Trimmed(e.delta)) =
        [i \in 1..Len(es) + 1 |-> IF i = Len(es) + 1 THEN Trimmed(e.delta) ELSE Adk!Changes(es)[i]]
  BY <1>6, <1>7
<1>9. \A i \in 1..Len(es) + 1 :
        Trimmed(more[i].delta) = IF i = Len(es) + 1 THEN Trimmed(e.delta) ELSE Adk!Changes(es)[i]
  BY <1>2, <1>3, <1>5, <1>6
<1> QED BY <1>4, <1>8, <1>9

------------------------------------------------------------------------------
(* Types                                                                     *)

LEMMA InitStoreTyped == Adk!Init => StoreTyped
<1> SUFFICES ASSUME Adk!Init PROVE StoreTyped
  OBVIOUS
<1>1. [delta |-> Adk!Empty, family |-> "openai_compatible"] \in Rows
  BY DEF Rows, EventDeltas, EventFamilies
<1>2. \A s \in Sessions : events[s] =
          IF s \in stored THEN <<[delta |-> Adk!Empty, family |-> "openai_compatible"]>> ELSE <<>>
  BY DEF Adk!Init
<1>3. events \in [Sessions -> Seq(Rows)] /\ \A s \in Sessions : revision[s] = Len(events[s])
  <2>1. \A s \in Sessions : events[s] \in Seq(Rows) /\ revision[s] = Len(events[s])
    BY <1>1, <1>2 DEF Adk!Init
  <2> QED BY <2>1 DEF Adk!Init
<1>4. SessionsTyped
  BY <1>3 DEF Adk!Init, SessionsTyped
<1>5. TurnsTyped
  BY DEF Adk!Init, TurnsTyped, TurnPlaces
<1>6. StatesTyped
  <2>1. \A scope : MapOf(Adk!Empty, scope)
    BY DEF MapOf, Adk!Empty
  <2> QED BY <2>1 DEF Adk!Init, StatesTyped
<1> QED BY <1>4, <1>5, <1>6 DEF StoreTyped

LEMMA EndTurnKeepsTypes ==
    ASSUME StoreTyped, NEW t \in SessionTurns, Adk!EndTurn(t) PROVE StoreTyped'
<1>1. turn' \in [SessionTurns -> TurnPlaces] /\ localEvents' \in [SessionTurns -> Seq(LocalRows)]
      /\ localRevision' \in [SessionTurns -> Nat] /\ DOMAIN localState' = SessionTurns
  BY DEF StoreTyped, TurnsTyped, Adk!EndTurn, Adk!Goto, TurnPlaces
<1> QED BY <1>1 DEF StoreTyped, TurnsTyped, SessionsTyped, StatesTyped, MapOf, Adk!EndTurn,
                    Adk!Goto, Adk!database

\* A step that reads, or only goes on.
LEMMA ReadingKeepsTypes ==
    ASSUME StoreTyped, NEW t \in SessionTurns,
           \/ Adk!CheckProviderFamily(t) \/ Adk!GetRow(t) \/ Adk!GetAppState(t)
           \/ Adk!GetUserState(t)
           \/ \E s \in Sessions : Adk!Begin(t, s)
    PROVE  StoreTyped'
<1>1. CASE \E s \in Sessions : Adk!Begin(t, s)
  BY <1>1 DEF StoreTyped, TurnsTyped, SessionsTyped, StatesTyped, MapOf, Adk!Begin, Adk!database,
              Adk!local, TurnPlaces
<1>2. CASE Adk!CheckProviderFamily(t) /\ ~Adk!EndTurn(t)
  <2>1. Adk!Goto(t, "row") /\ UNCHANGED <<Adk!database, Adk!local>>
    BY <1>2 DEF Adk!CheckProviderFamily
  <2>2. TurnsTyped'
    BY <2>1 DEF StoreTyped, TurnsTyped, Adk!Goto, Adk!local, TurnPlaces
  <2> QED BY <2>1, <2>2 DEF StoreTyped, SessionsTyped, StatesTyped, MapOf, Adk!Goto, Adk!database
<1>3. CASE Adk!EndTurn(t)
  BY <1>3, EndTurnKeepsTypes
<1>4. CASE Adk!GetRow(t) \/ Adk!GetAppState(t) \/ Adk!GetUserState(t)
  <2>1. /\ turn' \in [SessionTurns -> TurnPlaces]
        /\ localRevision' \in [SessionTurns -> Nat] /\ DOMAIN localState' = SessionTurns
        /\ UNCHANGED <<sessionID, localEvents, up, providerFamily>>
    BY <1>4 DEF StoreTyped, TurnsTyped, SessionsTyped, Adk!GetRow, Adk!GetAppState,
                Adk!GetUserState, Adk!Goto, TurnPlaces
  <2>2. UNCHANGED Adk!database
    BY <1>4 DEF Adk!GetRow, Adk!GetAppState, Adk!GetUserState
  <2> QED BY <2>1, <2>2 DEF StoreTyped, TurnsTyped, SessionsTyped, StatesTyped, MapOf, Adk!database
<1> QED BY <1>1, <1>2, <1>3, <1>4

LEMMA GetEventsKeepsTypes ==
    ASSUME StoreTyped, NEW t \in SessionTurns, Adk!GetEvents(t) PROVE StoreTyped'
<1>1. Rows \subseteq LocalRows
  BY DEF Rows, LocalRows
<1>2. events[sessionID[t]] \in Seq(LocalRows)
  BY <1>1 DEF StoreTyped, SessionsTyped, TurnsTyped
<1>3. localEvents' \in [SessionTurns -> Seq(LocalRows)] /\ turn' \in [SessionTurns -> TurnPlaces]
  BY <1>2 DEF StoreTyped, TurnsTyped, Adk!GetEvents, Adk!Goto, TurnPlaces
<1> QED BY <1>3 DEF StoreTyped, TurnsTyped, SessionsTyped, StatesTyped, MapOf, Adk!GetEvents,
                    Adk!Goto, Adk!database

LEMMA EnsureSessionKeepsTypes ==
    ASSUME StoreTyped, NEW t \in SessionTurns, Adk!EnsureSession(t) PROVE StoreTyped'
<1>1. TurnsTyped'
  BY DEF StoreTyped, TurnsTyped, Adk!EnsureSession, Adk!Goto, Adk!local, TurnPlaces
<1>2. CASE UNCHANGED Adk!database
  BY <1>1, <1>2 DEF StoreTyped, SessionsTyped, StatesTyped, MapOf, Adk!EnsureSession, Adk!Goto,
                    Adk!database
<1>3. CASE Adk!Insert(sessionID[t], [k \in {Adk!ProviderFamilyStateKey} |-> providerFamily])
  <2> DEFINE s == sessionID[t]
             initial == [k \in {Adk!ProviderFamilyStateKey} |-> providerFamily]
  <2>1. s \in Sessions
    BY DEF StoreTyped, TurnsTyped
  <2>2. SessionsTyped'
    BY <1>3, <2>1 DEF StoreTyped, SessionsTyped, Adk!EnsureSession, Adk!Goto, Adk!Insert
  <2>3. /\ state' = [state EXCEPT ![s] = Adk!Scoped(initial, "session")]
        /\ appState' = Adk!Copy(appState, Adk!Scoped(initial, "app"))
        /\ userState' = Adk!Copy(userState, Adk!Scoped(initial, "user"))
    BY <1>3 DEF Adk!Insert, Adk!extractStateDeltas
  <2>4. MapOf(appState', "app") /\ MapOf(userState', "user")
    BY <2>3, ScopedIsMap, CopyIsMap DEF StoreTyped, StatesTyped
  <2>5. \A x \in Sessions : MapOf(state'[x], "session")
    <3> HIDE DEF initial
    <3>1. /\ state'[s] = Adk!Scoped(initial, "session")
          /\ \A x \in Sessions \ {s} : state'[x] = state[x]
      BY <2>1, <2>3 DEF StoreTyped, StatesTyped
    <3> QED BY <3>1, ScopedIsMap DEF StoreTyped, StatesTyped
  <2>6. DOMAIN state' = Sessions
    BY <2>3 DEF StoreTyped, StatesTyped
  <2> QED BY <1>1, <2>2, <2>4, <2>5, <2>6 DEF StoreTyped, StatesTyped, MapOf
<1> QED BY <1>2, <1>3 DEF Adk!EnsureSession

\* What an event does, with the scopes of its delta named.
Appends(t, d, event) ==
    LET s == sessionID[t]
    IN  /\ Adk!At(t, "run") /\ Adk!IsCurrent(t)
        /\ event = [delta |-> d, family |-> providerFamily]
        /\ appState' = Adk!Copy(appState, Adk!Scoped(d, "app"))
        /\ userState' = Adk!Copy(userState, Adk!Scoped(d, "user"))
        /\ state' = [state EXCEPT ![s] =
               IF DOMAIN Adk!Scoped(d, "session") = {} THEN state[s]
               ELSE Adk!Copy(Adk!Scoped(localState[t], "session"), Adk!Scoped(d, "session"))]
        /\ events' = [events EXCEPT ![s] = Append(@, event)]
        /\ revision' = [revision EXCEPT ![s] = @ + 1]
        /\ localEvents' = [localEvents EXCEPT ![t] = Append(@, Adk!trimTempDeltaState(event))]
        /\ localState' = [localState EXCEPT ![t] =
               Adk!Copy(Adk!Copy(Adk!Copy(@, Adk!Scoped(d, "session")), Adk!Scoped(d, "app")),
                   Adk!Scoped(d, "user"))]
        /\ localRevision' = [localRevision EXCEPT ![t] = @ + 1]
        /\ UNCHANGED <<up, providerFamily, stored, turn, sessionID>>

LEMMA AppendAppends ==
    ASSUME NEW t, NEW d, Adk!AppendEvent(t, [delta |-> d, family |-> providerFamily])
    PROVE  Appends(t, d, [delta |-> d, family |-> providerFamily])
  BY DEF Adk!AppendEvent, Appends, Adk!extractStateDeltas, Adk!mergeStates,
         Adk!sessionStateFromMerged, Adk!SessionStateAfter

LEMMA AppendKeepsTypes ==
    ASSUME StoreTyped, NEW t \in SessionTurns, NEW d \in Deltas, NEW event, Appends(t, d, event)
    PROVE  StoreTyped'
<1> DEFINE s == sessionID[t]
<1>1. s \in Sessions /\ s \in stored
  BY DEF StoreTyped, TurnsTyped, Appends, Adk!IsCurrent
<1>2. event \in Rows
  BY DEF Appends, Rows, EventDeltas, EventFamilies, StoreTyped, SessionsTyped
<1>3. Adk!trimTempDeltaState(event) \in LocalRows
  BY <1>2, TrimmedRow
<1>4. SessionsTyped'
  <2>1. events' \in [Sessions -> Seq(Rows)] /\ revision' \in [Sessions -> Nat]
    BY <1>1, <1>2 DEF Appends, StoreTyped, SessionsTyped
  <2>2. \A x \in Sessions : revision'[x] = Len(events'[x])
    BY <1>1, <1>2 DEF Appends, StoreTyped, SessionsTyped
  <2> QED BY <1>1, <2>1, <2>2 DEF Appends, StoreTyped, SessionsTyped
<1>5. TurnsTyped'
  BY <1>3 DEF Appends, StoreTyped, TurnsTyped
<1>6. StatesTyped'
  <2>1. MapOf(appState', "app") /\ MapOf(userState', "user")
    BY ScopedIsMap, CopyIsMap DEF Appends, StoreTyped, StatesTyped
  <2> DEFINE new == IF DOMAIN Adk!Scoped(d, "session") = {} THEN state[s]
                    ELSE Adk!Copy(Adk!Scoped(localState[t], "session"), Adk!Scoped(d, "session"))
  <2>2. MapOf(new, "session")
    <3>1. MapOf(state[s], "session")
      BY <1>1 DEF StoreTyped, StatesTyped
    <3>2. MapOf(Adk!Copy(Adk!Scoped(localState[t], "session"), Adk!Scoped(d, "session")), "session")
      BY ScopedIsMap, CopyIsMap
    <3> QED BY <3>1, <3>2
  <2>3. state' = [state EXCEPT ![s] = new]
    BY DEF Appends
  <2> HIDE DEF new
  <2>4. /\ DOMAIN state' = Sessions /\ state'[s] = new
        /\ \A x \in Sessions \ {s} : state'[x] = state[x]
    BY <1>1, <2>3 DEF StoreTyped, StatesTyped
  <2>5. \A x \in Sessions : MapOf(state'[x], "session")
    BY <2>2, <2>4 DEF StoreTyped, StatesTyped
  <2> QED BY <2>1, <2>4, <2>5 DEF StatesTyped, MapOf
<1> QED BY <1>4, <1>5, <1>6 DEF StoreTyped

LEMMA StoreKeepsTypes == StoreTyped /\ [Adk!Next]_(Adk!vars) => StoreTyped'
<1> SUFFICES ASSUME StoreTyped, [Adk!Next]_(Adk!vars) PROVE StoreTyped'
  OBVIOUS
<1>1. CASE UNCHANGED Adk!vars
  BY <1>1 DEF Adk!vars, Adk!database, Adk!local, StoreTyped, SessionsTyped, TurnsTyped,
              StatesTyped, MapOf
<1>2. ASSUME NEW family \in Families, Adk!Start(family) PROVE StoreTyped'
  BY <1>2 DEF Adk!Start, Adk!database, Adk!local, StoreTyped, SessionsTyped, TurnsTyped,
              StatesTyped, MapOf
<1>3. CASE Adk!Crash
  <2>1. TurnsTyped'
    BY <1>3 DEF Adk!Crash, StoreTyped, TurnsTyped, TurnPlaces
  <2>2. up' = FALSE /\ UNCHANGED <<providerFamily, Adk!database, sessionID>>
    BY <1>3 DEF Adk!Crash
  <2>3. SessionsTyped'
    BY <2>2 DEF StoreTyped, SessionsTyped, Adk!database
  <2>4. StatesTyped'
    BY <2>2 DEF StoreTyped, StatesTyped, MapOf, Adk!database
  <2> QED BY <2>1, <2>3, <2>4 DEF StoreTyped
<1>4. ASSUME NEW t \in SessionTurns, Adk!Turn(t) PROVE StoreTyped'
  <2>1. CASE Adk!Fail(t) \/ Adk!StaleSession(t)
    BY <2>1, EndTurnKeepsTypes DEF Adk!Fail, Adk!StaleSession
  <2>2. ASSUME NEW d \in Deltas, Adk!AppendEvent(t, [delta |-> d, family |-> providerFamily])
        PROVE  StoreTyped'
    BY <2>2, AppendAppends, AppendKeepsTypes
  <2> QED BY <1>4, <2>1, <2>2, ReadingKeepsTypes, GetEventsKeepsTypes, EnsureSessionKeepsTypes
     DEF Adk!Turn
<1> QED BY <1>1, <1>2, <1>3, <1>4 DEF Adk!Next

LEMMA StoreStaysTyped == Adk!Spec => []StoreTyped
  BY InitStoreTyped, StoreKeepsTypes, PTL DEF Adk!Spec

\* The variables of the session store keep their types.
THEOREM SessionsTypeCorrect == Adk!Spec => []Adk!TypeOK
<1>1. StoreTyped => Adk!TypeOK
  BY DEF StoreTyped, SessionsTyped, TurnsTyped, Adk!TypeOK, TurnPlaces
<1> QED BY <1>1, StoreStaysTyped, PTL

------------------------------------------------------------------------------
(* What a turn knows of its session                                          *)

Reading == {"app", "user", "events", "run"}
InSession == {"row"} \cup Reading

\* A turn whose copy has the revision of the session has its state, and in the
\* end its events.
Knows(t) ==
    /\ turn[t] \in {"check"} \cup InSession => sessionID[t] \in stored
    /\ turn[t] \in Reading => localRevision[t] <= revision[sessionID[t]]
    /\ turn[t] \in Reading /\ localRevision[t] = revision[sessionID[t]] =>
           Adk!Scoped(localState[t], "session") = state[sessionID[t]]
    /\ turn[t] = "run" /\ localRevision[t] = revision[sessionID[t]] =>
           Adk!Changes(localEvents[t]) = Adk!Changes(events[sessionID[t]])

Coherent == \A t \in SessionTurns : Knows(t)

\* The events of a session are of its family, and a turn that reads one is too.
OfFamily(s) == \A i \in DOMAIN events[s] : events[s][i].family = Adk!StoredFamily(s)
ReadsOwn(t) == turn[t] \in InSession => Adk!StoredFamily(sessionID[t]) = providerFamily

OneFamily ==
    /\ \A s \in Sessions : OfFamily(s)
    /\ \A t \in SessionTurns : ReadsOwn(t)
    /\ ~up => \A t \in SessionTurns : turn[t] = "idle"

StoreInv == StoreTyped /\ Coherent /\ OneFamily

LEMMA InitStoreInv == Adk!Init => StoreInv
<1> SUFFICES ASSUME Adk!Init PROVE StoreInv
  OBVIOUS
<1>1. \A s \in Sessions : OfFamily(s)
  <2> SUFFICES ASSUME NEW s \in Sessions, NEW i \in DOMAIN events[s]
               PROVE  events[s][i].family = Adk!StoredFamily(s)
    BY DEF OfFamily
  <2>1. Adk!StoredFamily(s) = "openai_compatible"
    BY DEF Adk!Init, Adk!Empty, Adk!StoredFamily
  <2>2. s \in stored
    BY DEF Adk!Init
  <2>3. events[s] = <<[delta |-> Adk!Empty, family |-> "openai_compatible"]>>
    BY <2>2 DEF Adk!Init
  <2> QED BY <2>1, <2>3
<1>2. \A t \in SessionTurns : turn[t] = "idle"
  BY DEF Adk!Init
<1> QED BY <1>1, <1>2, InitStoreTyped DEF StoreInv, Coherent, Knows, OneFamily, ReadsOwn, Reading,
                                          InSession

\* A turn that ends, or comes to read a session, and the others are as before.
LEMMA OtherKnows ==
    ASSUME NEW u, Knows(u), ReadsOwn(u),
           UNCHANGED <<turn[u], sessionID[u], localState[u], localEvents[u], localRevision[u]>>,
           UNCHANGED <<Adk!database, providerFamily>>
    PROVE  Knows(u)' /\ ReadsOwn(u)'
  BY DEF Knows, ReadsOwn, Adk!StoredFamily, Adk!database, Adk!Changes, Adk!trimTempDeltaState,
         Adk!Scoped

LEMMA DatabaseKeepsFamily ==
    ASSUME UNCHANGED Adk!database, NEW s, OfFamily(s) PROVE OfFamily(s)'
  BY DEF Adk!database, OfFamily, Adk!StoredFamily

LEMMA EndTurnKeepsInv ==
    ASSUME StoreInv, NEW t \in SessionTurns, Adk!EndTurn(t) PROVE StoreInv'
<1>1. ASSUME NEW u \in SessionTurns, u # t PROVE Knows(u)' /\ ReadsOwn(u)'
  BY <1>1, OtherKnows DEF StoreInv, Coherent, OneFamily, Adk!EndTurn, Adk!Goto, StoreTyped,
                          TurnsTyped
<1>2. turn'[t] = "idle"
  BY DEF Adk!EndTurn, Adk!Goto, StoreInv, StoreTyped, TurnsTyped
<1>3. Knows(t)' /\ ReadsOwn(t)'
  BY <1>2 DEF Knows, ReadsOwn, InSession, Reading
<1>4. UNCHANGED <<Adk!database, up, providerFamily>>
  BY DEF Adk!EndTurn, Adk!Goto
<1>5. \A u \in SessionTurns : turn'[u] \in {turn[u], "idle"}
  BY DEF Adk!EndTurn, Adk!Goto, StoreInv, StoreTyped, TurnsTyped
<1> QED BY <1>1, <1>3, <1>4, <1>5, EndTurnKeepsTypes, DatabaseKeepsFamily DEF StoreInv, Coherent,
                                                                              OneFamily

\* A turn that reads: of it alone something has to be shown.
LEMMA TurnGoesOn ==
    ASSUME StoreInv, NEW t \in SessionTurns, up, StoreTyped',
           UNCHANGED <<Adk!database, up, providerFamily>>,
           \A u \in SessionTurns \ {t} : UNCHANGED <<turn[u], sessionID[u], localState[u],
               localEvents[u], localRevision[u]>>,
           Knows(t)', ReadsOwn(t)'
    PROVE  StoreInv'
<1>1. ASSUME NEW u \in SessionTurns, u # t PROVE Knows(u)' /\ ReadsOwn(u)'
  BY <1>1, OtherKnows DEF StoreInv, Coherent, OneFamily
<1> QED BY <1>1, DatabaseKeepsFamily DEF StoreInv, Coherent, OneFamily

LEMMA BeginKeepsInv ==
    ASSUME StoreInv, NEW t \in SessionTurns, NEW s \in Sessions, Adk!Begin(t, s) PROVE StoreInv'
<1>1. StoreTyped'
  BY ReadingKeepsTypes DEF StoreInv
<1>2. turn'[t] = "ensure" /\ \A u \in SessionTurns \ {t} : UNCHANGED <<turn[u], sessionID[u]>>
  BY DEF Adk!Begin, StoreInv, StoreTyped, TurnsTyped
<1>3. Knows(t)' /\ ReadsOwn(t)'
  BY <1>2 DEF Knows, ReadsOwn, InSession, Reading
<1> QED BY <1>1, <1>2, <1>3, TurnGoesOn DEF Adk!Begin, Adk!At, Adk!local

LEMMA CheckKeepsInv ==
    ASSUME StoreInv, NEW t \in SessionTurns, Adk!CheckProviderFamily(t) PROVE StoreInv'
<1>1. CASE Adk!EndTurn(t)
  BY <1>1, EndTurnKeepsInv
<1>2. CASE ~Adk!EndTurn(t)
  <2>1. /\ Adk!Goto(t, "row") /\ UNCHANGED <<Adk!database, Adk!local>>
        /\ Adk!StoredFamily(sessionID[t]) = providerFamily
    BY <1>2 DEF Adk!CheckProviderFamily
  <2>2. turn'[t] = "row" /\ \A u \in SessionTurns \ {t} : turn'[u] = turn[u]
    BY <2>1 DEF Adk!Goto, StoreInv, StoreTyped, TurnsTyped
  <2>3. up /\ sessionID[t] \in stored
    BY DEF Adk!CheckProviderFamily, Adk!At, StoreInv, Coherent, Knows
  <2>4. StoreTyped'
    BY ReadingKeepsTypes DEF StoreInv
  <2>5. /\ UNCHANGED <<Adk!database, up, providerFamily>>
        /\ UNCHANGED <<sessionID, localState, localEvents, localRevision>>
    BY <2>1 DEF Adk!Goto, Adk!local
  <2>6. Knows(t)'
    BY <2>2, <2>3, <2>5 DEF Knows, Reading, Adk!database
  <2>7. ReadsOwn(t)'
    BY <2>1, <2>5 DEF ReadsOwn, Adk!StoredFamily, Adk!database
  <2> QED BY <2>2, <2>3, <2>4, <2>5, <2>6, <2>7, TurnGoesOn
<1> QED BY <1>1, <1>2

LEMMA GetRowKeepsInv ==
    ASSUME StoreInv, NEW t \in SessionTurns, Adk!GetRow(t) PROVE StoreInv'
<1> DEFINE s == sessionID[t]
<1>1. StoreTyped'
  BY ReadingKeepsTypes DEF StoreInv
<1>2. s \in Sessions
  BY DEF StoreInv, StoreTyped, TurnsTyped
<1>3. /\ turn'[t] = "app" /\ localState'[t] = state[s] /\ localRevision'[t] = revision[s]
      /\ \A u \in SessionTurns \ {t} : UNCHANGED <<turn[u], localState[u], localRevision[u]>>
      /\ UNCHANGED <<Adk!database, up, providerFamily, sessionID, localEvents>>
  BY DEF Adk!GetRow, Adk!Goto, StoreInv, StoreTyped, TurnsTyped
<1>4. up /\ turn[t] = "row"
  BY DEF Adk!GetRow, Adk!At
<1>5. Adk!Scoped(state[s], "session") = state[s]
  BY <1>2, ScopedWhole DEF StoreInv, StoreTyped, StatesTyped
<1>6. s \in stored /\ revision[s] \in Nat
  BY <1>2 DEF Adk!GetRow, StoreInv, StoreTyped, SessionsTyped
<1>7. Knows(t)'
  BY <1>3, <1>5, <1>6 DEF Knows, Adk!database
<1>8. ReadsOwn(t)'
  BY <1>3, <1>4 DEF StoreInv, OneFamily, ReadsOwn, Adk!StoredFamily, Adk!database, InSession,
                    Reading
<1> QED BY <1>1, <1>3, <1>4, <1>7, <1>8, TurnGoesOn

\* The states of the application and the user are copied over that of the session.
LEMMA GetSharedKeepsInv ==
    ASSUME StoreInv, NEW t \in SessionTurns, Adk!GetAppState(t) \/ Adk!GetUserState(t)
    PROVE  StoreInv'
<1> DEFINE s == sessionID[t]
<1>1. StoreTyped'
  BY ReadingKeepsTypes DEF StoreInv
<1>2. s \in Sessions
  BY DEF StoreInv, StoreTyped, TurnsTyped
<1>3. /\ turn'[t] \in {"user", "events"} /\ turn[t] \in {"app", "user"} /\ up
      /\ \A u \in SessionTurns \ {t} : UNCHANGED <<turn[u], localState[u]>>
      /\ UNCHANGED <<Adk!database, up, providerFamily, sessionID, localEvents, localRevision>>
  BY DEF Adk!GetAppState, Adk!GetUserState, Adk!Goto, Adk!At, StoreInv, StoreTyped, TurnsTyped
<1>4. /\ MapOf(appState, "app") /\ MapOf(userState, "user")
      /\ MapOf(Adk!Empty, "app") /\ MapOf(Adk!Empty, "user")
  BY DEF StoreInv, StoreTyped, StatesTyped, MapOf, Adk!Empty
<1>9. ASSUME NEW f PROVE /\ Adk!Scoped(Adk!Copy(f, appState), "session") = Adk!Scoped(f, "session")
                         /\ Adk!Scoped(Adk!Copy(f, userState), "session") = Adk!Scoped(f, "session")
                         /\ Adk!Scoped(Adk!Copy(f, Adk!Empty), "session") = Adk!Scoped(f, "session")
  <2>1. "app" # "session" /\ "user" # "session"
    OBVIOUS
  <2> QED BY <2>1, <1>4, OtherScope
<1>5. Adk!Scoped(localState'[t], "session") = Adk!Scoped(localState[t], "session")
  <2>1. CASE Adk!GetAppState(t)
    <3>1. localState'[t] = Adk!Copy(Adk!Copy(localState[t], appState), Adk!Empty)
      BY <2>1 DEF Adk!GetAppState, Adk!mergeStates, StoreInv, StoreTyped, TurnsTyped
    <3> QED BY <3>1, <1>9
  <2>2. CASE Adk!GetUserState(t)
    <3>1. localState'[t] = Adk!Copy(Adk!Copy(localState[t], Adk!Empty), userState)
      BY <2>2 DEF Adk!GetUserState, Adk!mergeStates, StoreInv, StoreTyped, TurnsTyped
    <3> QED BY <3>1, <1>9
  <2> QED BY <2>1, <2>2
<1>6. Knows(t)
  BY DEF StoreInv, Coherent
<1>7. Knows(t)'
  BY <1>3, <1>5, <1>6 DEF Knows, Adk!database, InSession, Reading
<1>8. ReadsOwn(t)'
  BY <1>3 DEF StoreInv, OneFamily, ReadsOwn, Adk!StoredFamily, Adk!database, InSession, Reading
<1> QED BY <1>1, <1>3, <1>7, <1>8, TurnGoesOn

LEMMA GetEventsKeepsInv ==
    ASSUME StoreInv, NEW t \in SessionTurns, Adk!GetEvents(t) PROVE StoreInv'
<1> DEFINE s == sessionID[t]
<1>1. StoreTyped'
  BY GetEventsKeepsTypes DEF StoreInv
<1>2. s \in Sessions
  BY DEF StoreInv, StoreTyped, TurnsTyped
<1>3. /\ turn'[t] = "run" /\ turn[t] = "events" /\ up /\ localEvents'[t] = events[s]
      /\ \A u \in SessionTurns \ {t} : UNCHANGED <<turn[u], localEvents[u]>>
      /\ UNCHANGED <<Adk!database, up, providerFamily, sessionID, localState, localRevision>>
  BY DEF Adk!GetEvents, Adk!Goto, Adk!At, StoreInv, StoreTyped, TurnsTyped
<1>4. Adk!Changes(localEvents'[t]) = Adk!Changes(events[s])
  BY <1>3
<1>5. Adk!Changes(events'[s]) = Adk!Changes(events[s])
  BY <1>3 DEF Adk!database
<1>6. Adk!Changes(localEvents[t])' = Adk!Changes(events[sessionID[t]])'
  BY <1>3, <1>4, <1>5 DEF Adk!Changes, Adk!trimTempDeltaState, Adk!database
<1>7. Knows(t)
  BY DEF StoreInv, Coherent
<1>8. Knows(t)'
  BY <1>3, <1>6, <1>7 DEF Knows, Adk!database, InSession, Reading, Adk!Scoped
<1>9. ReadsOwn(t)'
  BY <1>3 DEF StoreInv, OneFamily, ReadsOwn, Adk!StoredFamily, Adk!database, InSession, Reading
<1> QED BY <1>1, <1>3, <1>8, <1>9, TurnGoesOn

LEMMA EnsureSessionKeepsInv ==
    ASSUME StoreInv, NEW t \in SessionTurns, Adk!EnsureSession(t) PROVE StoreInv'
<1> DEFINE s == sessionID[t]
<1>1. StoreTyped'
  BY EnsureSessionKeepsTypes DEF StoreInv
<1>2. s \in Sessions
  BY DEF StoreInv, StoreTyped, TurnsTyped
<1>3. up /\ turn[t] = "ensure" /\ UNCHANGED <<up, providerFamily, sessionID, Adk!local>>
  BY DEF Adk!EnsureSession, Adk!Goto, Adk!At
<1>4. CASE s \in stored /\ Adk!Goto(t, "check") /\ UNCHANGED Adk!database
  <2>1. turn'[t] = "check" /\ \A u \in SessionTurns \ {t} : turn'[u] = turn[u]
    BY <1>4 DEF Adk!Goto, StoreInv, StoreTyped, TurnsTyped
  <2>2. Knows(t)' /\ ReadsOwn(t)'
    BY <1>3, <1>4, <2>1 DEF Knows, ReadsOwn, InSession, Reading, Adk!database
  <2> QED BY <1>1, <1>3, <1>4, <2>1, <2>2, TurnGoesOn DEF Adk!local
<1>5. CASE /\ Adk!Insert(s, [k \in {Adk!ProviderFamilyStateKey} |-> providerFamily])
           /\ Adk!Goto(t, "row")
  <2> DEFINE initial == [k \in {Adk!ProviderFamilyStateKey} |-> providerFamily]
  <2>1. turn'[t] = "row" /\ \A u \in SessionTurns \ {t} : turn'[u] = turn[u]
    BY <1>5 DEF Adk!Goto, StoreInv, StoreTyped, TurnsTyped
  <2>2. /\ s \notin stored /\ stored' = stored \cup {s}
        /\ UNCHANGED <<revision, events>>
        /\ state' = [state EXCEPT ![s] = Adk!Scoped(initial, "session")]
    BY <1>5 DEF Adk!Insert, Adk!extractStateDeltas
  <2>3. state'[s] = Adk!Scoped(initial, "session") /\ \A x \in Sessions \ {s} : state'[x] = state[x]
    BY <1>2, <2>2 DEF StoreInv, StoreTyped, StatesTyped
  <2>4. Adk!StoredFamily(s)' = providerFamily
    <3>1. Adk!ProviderFamilyStateKey.scope = "session"
      BY DEF Adk!ProviderFamilyStateKey
    <3>2. Adk!ProviderFamilyStateKey \in DOMAIN Adk!Scoped(initial, "session")
          /\ Adk!Scoped(initial, "session")[Adk!ProviderFamilyStateKey] = providerFamily
      BY <3>1 DEF Adk!Scoped
    <3> QED BY <2>3, <3>2, <1>3 DEF Adk!StoredFamily
  <2>5. \A x \in Sessions \ {s} : Adk!StoredFamily(x)' = Adk!StoredFamily(x)
    BY <2>3 DEF Adk!StoredFamily
  <2>6. DOMAIN events[s] = {}
    <3>1. Len(events[s]) = 0 /\ events[s] \in Seq(Rows)
      BY <1>2, <2>2 DEF StoreInv, StoreTyped, SessionsTyped
    <3> QED BY <3>1
  <2>7. \A x \in Sessions : OfFamily(x)'
    BY <2>2, <2>5, <2>6 DEF StoreInv, OneFamily, OfFamily
  <2>8. ASSUME NEW u \in SessionTurns, u # t PROVE Knows(u)' /\ ReadsOwn(u)'
    <3>1. Knows(u) /\ ReadsOwn(u) /\ sessionID[u] \in Sessions
      BY DEF StoreInv, Coherent, OneFamily, StoreTyped, TurnsTyped
    <3>2. turn'[u] = turn[u]
      BY <2>1, <2>8
    <3>3. CASE turn[u] \in {"check"} \cup InSession
      <4>1. sessionID[u] # s
        BY <3>1, <3>3, <2>2 DEF Knows
      <4>2. /\ state'[sessionID[u]] = state[sessionID[u]]
            /\ Adk!StoredFamily(sessionID[u])' = Adk!StoredFamily(sessionID[u])
        BY <4>1, <3>1, <2>3, <2>5, <1>3
      <4>3. Adk!Changes(localEvents[u])' = Adk!Changes(localEvents[u])
            /\ Adk!Changes(events[sessionID[u]])' = Adk!Changes(events[sessionID[u]])
        BY <2>2, <1>3 DEF Adk!Changes, Adk!trimTempDeltaState, Adk!local
      <4>4. Adk!Scoped(localState[u], "session")' = Adk!Scoped(localState[u], "session")
        BY <1>3 DEF Adk!Scoped, Adk!local
      <4>5. Knows(u)'
        BY <3>1, <3>2, <4>2, <4>3, <4>4, <2>2, <1>3 DEF Knows, Adk!local
      <4>6. ReadsOwn(u)'
        BY <3>1, <3>2, <4>2, <1>3 DEF ReadsOwn
      <4> QED BY <4>5, <4>6
    <3>4. CASE turn[u] \notin {"check"} \cup InSession
      BY <3>2, <3>4 DEF Knows, ReadsOwn, InSession, Reading
    <3> QED BY <3>3, <3>4
  <2>9. Knows(t)' /\ ReadsOwn(t)'
    BY <2>1, <2>2, <2>4, <1>3 DEF Knows, ReadsOwn, Reading
  <2> QED BY <1>1, <1>3, <2>7, <2>8, <2>9 DEF StoreInv, Coherent, OneFamily
<1> QED BY <1>4, <1>5 DEF Adk!EnsureSession

\* The state that an event leaves is that of its session and its own delta.
LEMMA AppendMakesState ==
    ASSUME StoreInv, NEW t \in SessionTurns, NEW d \in Deltas, NEW event, Appends(t, d, event)
    PROVE  /\ state' = [state EXCEPT ![sessionID[t]] = Adk!Copy(@, Adk!Scoped(d, "session"))]
           /\ Adk!Scoped(localState'[t], "session") = state'[sessionID[t]]
<1> DEFINE s == sessionID[t]
           own == Adk!Scoped(d, "session")
           ls == localState[t]
<1>1. s \in Sessions /\ s \in DOMAIN state
  BY DEF StoreInv, StoreTyped, TurnsTyped, StatesTyped
<1>2. Adk!Scoped(ls, "session") = state[s]
  BY DEF Appends, Adk!At, Adk!IsCurrent, StoreInv, Coherent, Knows, Reading
<1>3. MapOf(own, "session") /\ MapOf(state[s], "session")
  BY <1>1, ScopedIsMap DEF StoreInv, StoreTyped, StatesTyped
<1>4. state' = [state EXCEPT ![s] =
          IF DOMAIN own = {} THEN state[s] ELSE Adk!Copy(Adk!Scoped(ls, "session"), own)]
  BY DEF Appends
<1>5. DOMAIN own = {} => Adk!Copy(state[s], own) = state[s]
  BY <1>3, CopyNothing
<1>6. state' = [state EXCEPT ![s] = Adk!Copy(state[s], own)]
  BY <1>2, <1>4, <1>5
<1>7. localState'[t] =
          Adk!Copy(Adk!Copy(Adk!Copy(ls, own), Adk!Scoped(d, "app")), Adk!Scoped(d, "user"))
  BY DEF Appends, StoreInv, StoreTyped, TurnsTyped
<1>8. Adk!Scoped(localState'[t], "session") = Adk!Scoped(Adk!Copy(ls, own), "session")
  <2>1. MapOf(Adk!Scoped(d, "app"), "app") /\ MapOf(Adk!Scoped(d, "user"), "user")
    BY ScopedIsMap
  <2>2. "app" # "session" /\ "user" # "session"
    OBVIOUS
  <2>3. \A f : Adk!Scoped(Adk!Copy(f, Adk!Scoped(d, "app")), "session") = Adk!Scoped(f, "session")
    BY <2>1, <2>2, OtherScope
  <2>4. \A f : Adk!Scoped(Adk!Copy(f, Adk!Scoped(d, "user")), "session") = Adk!Scoped(f, "session")
    BY <2>1, <2>2, OtherScope
  <2> HIDE DEF own, ls
  <2> QED BY <1>7, <2>3, <2>4
<1>9. Adk!Scoped(Adk!Copy(ls, own), "session") = Adk!Copy(state[s], own)
  BY <1>2, <1>3, SameScope
<1>10. state'[s] = Adk!Copy(state[s], own)
  BY <1>1, <1>6
<1> QED BY <1>6, <1>8, <1>9, <1>10

\* The change that an event makes, in the session and in the turn's copy.
LEMMA AppendMakesHistory ==
    ASSUME StoreInv, NEW t \in SessionTurns, NEW d \in Deltas, NEW event, Appends(t, d, event)
    PROVE  LET s == sessionID[t]
           IN  /\ s \in Sessions
               /\ Adk!Changes(localEvents[t]) = Adk!Changes(events[s])
               /\ Len(Adk!Changes(events[s])) = Len(events[s])
               /\ Adk!Changes(events'[s]) = Append(Adk!Changes(events[s]), Trimmed(d))
               /\ Adk!Changes(localEvents'[t]) = Append(Adk!Changes(localEvents[t]), Trimmed(d))
<1> DEFINE s == sessionID[t]
<1>1. s \in Sessions
  BY DEF StoreInv, StoreTyped, TurnsTyped
<1>2. event \in Rows /\ event.delta = d
  BY DEF Appends, Rows, EventDeltas, EventFamilies, StoreInv, StoreTyped, SessionsTyped
<1>3. /\ Adk!trimTempDeltaState(event) \in LocalRows
      /\ Adk!trimTempDeltaState(event).delta = Trimmed(d)
  BY <1>2, TrimmedRow
<1>4. events[s] \in Seq(Rows) /\ localEvents[t] \in Seq(LocalRows)
  BY <1>1 DEF StoreInv, StoreTyped, SessionsTyped, TurnsTyped
<1>5. events'[s] = Append(events[s], event)
      /\ localEvents'[t] = Append(localEvents[t], Adk!trimTempDeltaState(event))
  BY <1>1 DEF Appends, StoreInv, StoreTyped, SessionsTyped, TurnsTyped
<1>6. Adk!Changes(events'[s]) = Append(Adk!Changes(events[s]), Trimmed(d))
  BY <1>2, <1>4, <1>5, ChangesAppend
<1>7. Adk!Changes(localEvents'[t]) = Append(Adk!Changes(localEvents[t]), Trimmed(Trimmed(d)))
  BY <1>3, <1>4, <1>5, ChangesAppend
<1>8. Adk!Changes(localEvents[t]) = Adk!Changes(events[s])
  BY DEF Appends, Adk!At, Adk!IsCurrent, StoreInv, Coherent, Knows, Reading
<1>9. Len(Adk!Changes(events[s])) = Len(events[s])
  BY <1>4, ChangesOf
<1> QED BY <1>1, <1>6, <1>7, <1>8, <1>9, TrimTwice

LEMMA AppendKeepsInv ==
    ASSUME StoreInv, NEW t \in SessionTurns, NEW d \in Deltas, NEW event, Appends(t, d, event)
    PROVE  StoreInv'
<1> DEFINE s == sessionID[t]
           own == Adk!Scoped(d, "session")
<1>1. StoreTyped'
  BY AppendKeepsTypes DEF StoreInv
<1>2. s \in Sessions /\ s \in DOMAIN state
  BY DEF StoreInv, StoreTyped, TurnsTyped, StatesTyped
<1>3. /\ up /\ turn[t] = "run" /\ s \in stored /\ revision[s] = localRevision[t]
      /\ event = [delta |-> d, family |-> providerFamily]
      /\ UNCHANGED <<up, providerFamily, stored, turn, sessionID>>
  BY DEF Appends, Adk!At, Adk!IsCurrent
<1>4. /\ state' = [state EXCEPT ![s] = Adk!Copy(@, own)]
      /\ Adk!Scoped(localState'[t], "session") = state'[s]
  BY AppendMakesState
<1>5. \A x \in Sessions : Adk!StoredFamily(x)' = Adk!StoredFamily(x)
  <2>1. Adk!ProviderFamilyStateKey \notin DOMAIN own
    BY DeltasAssumption DEF Adk!Scoped
  <2>2. \A x \in Sessions \ {s} : state'[x] = state[x]
    BY <1>2, <1>4 DEF StoreInv, StoreTyped, StatesTyped
  <2>3. state'[s] = Adk!Copy(state[s], own)
    BY <1>2, <1>4
  <2>4. DOMAIN Adk!Copy(state[s], own) = DOMAIN state[s] \cup DOMAIN own
        /\ \A k \in DOMAIN state[s] : k \notin DOMAIN own =>
               Adk!Copy(state[s], own)[k] = state[s][k]
    BY DEF Adk!Copy
  <2> HIDE DEF own
  <2> SUFFICES ASSUME NEW x \in Sessions PROVE Adk!StoredFamily(x)' = Adk!StoredFamily(x)
    OBVIOUS
  <2>5. CASE x = s
    BY <2>1, <2>3, <2>4, <2>5 DEF Adk!StoredFamily
  <2>6. CASE x # s
    BY <2>2, <2>6 DEF Adk!StoredFamily
  <2> QED BY <2>5, <2>6
<1>6. /\ events[s] \in Seq(Rows) /\ revision[s] \in Nat
      /\ events'[s] = Append(events[s], event) /\ \A x \in Sessions \ {s} : events'[x] = events[x]
      /\ revision'[s] = revision[s] + 1 /\ \A x \in Sessions \ {s} : revision'[x] = revision[x]
  BY <1>2 DEF Appends, StoreInv, StoreTyped, SessionsTyped
<1>7. ASSUME NEW x \in Sessions PROVE OfFamily(x)'
  <2>1. CASE x # s
    BY <2>1, <1>5, <1>6 DEF StoreInv, OneFamily, OfFamily
  <2>2. CASE x = s
    <3>1. Adk!StoredFamily(s) = providerFamily
      BY <1>3 DEF StoreInv, OneFamily, ReadsOwn, InSession, Reading
    <3>2. \A i \in DOMAIN events[s] : events[s][i].family = Adk!StoredFamily(s)
      BY <1>2 DEF StoreInv, OneFamily, OfFamily
    <3>3. \A i \in DOMAIN events'[s] :
              events'[s][i] = event \/ (i \in DOMAIN events[s] /\ events'[s][i] = events[s][i])
      BY <1>6
    <3>4. event.family = providerFamily
      BY <1>3
    <3> QED BY <2>2, <3>1, <3>2, <3>3, <3>4, <1>2, <1>5 DEF OfFamily
  <2> QED BY <2>1, <2>2
<1>8. ASSUME NEW u \in SessionTurns PROVE ReadsOwn(u)'
  <2>1. sessionID[u] \in Sessions /\ ReadsOwn(u)
    BY DEF StoreInv, OneFamily, StoreTyped, TurnsTyped
  <2> QED BY <2>1, <1>3, <1>5 DEF ReadsOwn
<1>9. ASSUME NEW u \in SessionTurns, u # t PROVE Knows(u)'
  <2>1. Knows(u) /\ sessionID[u] \in Sessions /\ localRevision[u] \in Nat
    BY DEF StoreInv, Coherent, StoreTyped, TurnsTyped
  <2>2. UNCHANGED <<turn[u], sessionID[u], localState[u], localEvents[u], localRevision[u], stored>>
    BY <1>9, <1>3 DEF Appends, StoreInv, StoreTyped, TurnsTyped
  <2>3. CASE sessionID[u] = s
    <3>1. turn[u] \in Reading => localRevision'[u] < revision'[s]
      BY <2>1, <2>2, <2>3, <1>6 DEF Knows
    <3>2. turn[u] = "run" => turn[u] \in Reading
      BY DEF Reading
    <3>3. turn[u] \in Reading =>
              localRevision'[u] <= revision'[s] /\ localRevision'[u] # revision'[s]
      BY <3>1, <2>1, <2>2, <1>6
    <3> QED BY <2>1, <2>2, <2>3, <3>2, <3>3, <1>3 DEF Knows
  <2>4. CASE sessionID[u] # s
    <3>1. state'[sessionID[u]] = state[sessionID[u]]
      BY <1>2, <1>4, <2>1, <2>4 DEF StoreInv, StoreTyped, StatesTyped
    <3>2. /\ events'[sessionID[u]] = events[sessionID[u]]
          /\ revision'[sessionID[u]] = revision[sessionID[u]]
      BY <1>6, <2>1, <2>4
    <3>3. Adk!Changes(localEvents[u])' = Adk!Changes(localEvents[u])
          /\ Adk!Changes(events[sessionID[u]])' = Adk!Changes(events[sessionID[u]])
      BY <2>2, <3>2, <1>3 DEF Adk!Changes, Adk!trimTempDeltaState
    <3>4. Adk!Scoped(localState[u], "session")' = Adk!Scoped(localState[u], "session")
      BY <2>2 DEF Adk!Scoped
    <3> QED BY <2>1, <2>2, <3>1, <3>2, <3>3, <3>4 DEF Knows
  <2> QED BY <2>3, <2>4
<1>10. Knows(t)'
  <2>1. localRevision'[t] = revision'[s]
    BY <1>3, <1>6 DEF Appends, StoreInv, StoreTyped, TurnsTyped
  <2>2. revision'[s] \in Nat
    BY <1>6
  <2>3. Adk!Changes(localEvents'[t]) = Adk!Changes(events'[s])
    BY AppendMakesHistory
  <2>4. /\ Adk!Changes(localEvents[t])' = Adk!Changes(localEvents'[t])
        /\ Adk!Changes(events[sessionID[t]])' = Adk!Changes(events'[s])
    BY <1>3 DEF Adk!Changes, Adk!trimTempDeltaState
  <2>5. Adk!Scoped(localState[t], "session")' = state[sessionID[t]]'
    BY <1>3, <1>4 DEF Adk!Scoped
  <2> QED BY <1>3, <2>1, <2>2, <2>3, <2>4, <2>5 DEF Knows
<1> QED BY <1>1, <1>3, <1>7, <1>8, <1>9, <1>10 DEF StoreInv, Coherent, OneFamily

LEMMA StartKeepsInv ==
    ASSUME StoreInv, NEW family \in Families, Adk!Start(family) PROVE StoreInv'
<1>1. StoreTyped'
  BY StoreKeepsTypes DEF StoreInv, Adk!Next
<1>2. \A t \in SessionTurns : turn'[t] = "idle"
  BY DEF Adk!Start, StoreInv, OneFamily
<1>3. \A t \in SessionTurns : Knows(t)' /\ ReadsOwn(t)'
  BY <1>2 DEF Knows, ReadsOwn, InSession, Reading
<1> QED BY <1>1, <1>2, <1>3, DatabaseKeepsFamily DEF StoreInv, Coherent, OneFamily, Adk!Start

LEMMA CrashKeepsInv ==
    ASSUME StoreInv, Adk!Crash PROVE StoreInv'
<1>1. StoreTyped'
  BY StoreKeepsTypes DEF StoreInv, Adk!Next
<1>2. \A t \in SessionTurns : turn'[t] = "idle"
  BY DEF Adk!Crash
<1>3. \A t \in SessionTurns : Knows(t)' /\ ReadsOwn(t)'
  BY <1>2 DEF Knows, ReadsOwn, InSession, Reading
<1> QED BY <1>1, <1>2, <1>3, DatabaseKeepsFamily DEF StoreInv, Coherent, OneFamily, Adk!Crash

LEMMA NextKeepsStoreInv == StoreInv /\ [Adk!Next]_(Adk!vars) => StoreInv'
<1> SUFFICES ASSUME StoreInv, [Adk!Next]_(Adk!vars) PROVE StoreInv'
  OBVIOUS
<1>1. CASE UNCHANGED Adk!vars
  <2>1. StoreTyped'
    BY StoreKeepsTypes DEF StoreInv
  <2>2. ASSUME NEW t \in SessionTurns PROVE Knows(t)' /\ ReadsOwn(t)'
    BY <1>1, OtherKnows DEF Adk!vars, Adk!local, StoreInv, Coherent, OneFamily
  <2> QED BY <1>1, <2>1, <2>2, DatabaseKeepsFamily DEF Adk!vars, StoreInv, Coherent, OneFamily
<1>2. ASSUME NEW t \in SessionTurns, Adk!Turn(t) PROVE StoreInv'
  <2>1. CASE Adk!Fail(t) \/ Adk!StaleSession(t)
    BY <2>1, EndTurnKeepsInv DEF Adk!Fail, Adk!StaleSession
  <2>2. ASSUME NEW d \in Deltas, Adk!AppendEvent(t, [delta |-> d, family |-> providerFamily])
        PROVE  StoreInv'
    BY <2>2, AppendAppends, AppendKeepsInv
  <2> QED BY <1>2, <2>1, <2>2, BeginKeepsInv, EnsureSessionKeepsInv, CheckKeepsInv, GetRowKeepsInv,
             GetSharedKeepsInv, GetEventsKeepsInv DEF Adk!Turn
<1> QED BY <1>1, <1>2, StartKeepsInv, CrashKeepsInv DEF Adk!Next

LEMMA StoreHolds == Adk!Spec => []StoreInv
  BY InitStoreInv, NextKeepsStoreInv, PTL DEF Adk!Spec

\* Structured history is never handed to a model that cannot read it.
THEOREM SessionsAreOfOneFamily == Adk!Spec => []Adk!FamiliesNeverMix
<1>1. StoreInv => Adk!FamiliesNeverMix
  BY DEF StoreInv, OneFamily, OfFamily, Adk!FamiliesNeverMix
<1> QED BY <1>1, StoreHolds, PTL

------------------------------------------------------------------------------
(* The store keeps one history for each session                              *)

LEMMA InitLog == Adk!Init => Adk!Log!Init
<1> SUFFICES ASSUME Adk!Init PROVE Adk!Log!Init
  OBVIOUS
<1> DEFINE first == [delta |-> Adk!Empty, family |-> "openai_compatible"]
<1>1. first \in Rows /\ first.delta = Adk!Empty
  BY DEF Rows, EventDeltas, EventFamilies
<1>2. Trimmed(Adk!Empty) = Adk!Empty
  BY DEF Trimmed, Adk!Empty
<1>3. Adk!Changes(<<first>>) = <<Adk!Empty>>
  <2>1. <<first>> \in Seq(Rows) /\ Len(<<first>>) = 1 /\ <<first>>[1] = first
    BY <1>1
  <2>2. Adk!Changes(<<first>>) = [i \in 1..1 |-> Trimmed(<<first>>[i].delta)]
    BY <2>1, ChangesOf
  <2>3. Adk!Changes(<<first>>) = [i \in 1..1 |-> Adk!Empty]
    BY <1>1, <1>2, <2>1, <2>2
  <2> QED BY <2>3
<1>4. \A s \in Sessions : Adk!Changes(events[s]) \in {<<>>, <<Adk!Empty>>}
  BY <1>3, ChangesNone DEF Adk!Init
<1>5. Adk!Copy(appState, userState) = Adk!Empty
  BY DEF Adk!Init, Adk!Empty, Adk!Copy
<1>6. \A t \in SessionTurns : Adk!Changes(localEvents[t]) = <<>>
  BY ChangesNone DEF Adk!Init
<1>7. Adk!Log!Empty = Adk!Empty
  BY DEF Adk!Log!Empty, Adk!Empty
<1>8. DOMAIN state = Sessions
  BY DEF Adk!Init
<1> QED BY <1>4, <1>5, <1>6, <1>7, <1>8 DEF Adk!Log!Init

\* The abstract state of the log.
History == [s \in Sessions |-> Adk!Changes(events[s])]
View == [t \in SessionTurns |-> Adk!Changes(localEvents[t])]

LEMMA EndTurnForgets ==
    ASSUME StoreInv, UNCHANGED Adk!database,
           \A t \in SessionTurns : localEvents'[t] \in {localEvents[t], <<>>}
    PROVE  Adk!Log!Forget
<1>1. \A t \in SessionTurns : Adk!Changes(localEvents'[t]) \in {Adk!Changes(localEvents[t]), <<>>}
  BY ChangesNone
<1>2. History' = History /\ Adk!Copy(appState, userState)' = Adk!Copy(appState, userState)
  BY DEF History, Adk!database, Adk!Changes, Adk!trimTempDeltaState, Adk!Copy
<1>3. \A t \in SessionTurns : View'[t] \in {View[t], <<>>}
  <2>1. \A t \in SessionTurns : View'[t] = Adk!Changes(localEvents'[t]) /\ View[t] =
            Adk!Changes(localEvents[t])
    BY DEF View, Adk!Changes, Adk!trimTempDeltaState
  <2> QED BY <1>1, <2>1
<1>4. DOMAIN View' = SessionTurns /\ state' = state
  BY DEF View, Adk!database
<1> QED BY <1>2, <1>3, <1>4, Zenon DEF Adk!Log!Forget, History, View

\* The app: and user: parts of a delta reach their states side by side.
LEMMA SharedIsMade ==
    ASSUME NEW a, NEW u, NEW d, MapOf(a, "app"), MapOf(u, "user")
    PROVE  Adk!Copy(Adk!Copy(a, Adk!Scoped(d, "app")), Adk!Copy(u, Adk!Scoped(d, "user"))) =
               Adk!Log!After(Adk!Copy(a, u), Adk!Log!In(Trimmed(d), {"app", "user"}))
<1> DEFINE da == Adk!Scoped(d, "app")
           du == Adk!Scoped(d, "user")
           both == Adk!Log!In(Trimmed(d), {"app", "user"})
<1>1. MapOf(da, "app") /\ MapOf(du, "user")
  BY ScopedIsMap
<1>2. /\ DOMAIN da = {x \in DOMAIN d : x.scope = "app"} /\ \A k \in DOMAIN da : da[k] = d[k]
      /\ DOMAIN du = {x \in DOMAIN d : x.scope = "user"} /\ \A k \in DOMAIN du : du[k] = d[k]
  BY DEF Adk!Scoped
<1>3. /\ DOMAIN Trimmed(d) = {x \in DOMAIN d : x.scope # "temp"}
      /\ \A k \in DOMAIN Trimmed(d) : Trimmed(d)[k] = d[k]
  BY DEF Trimmed
<1>4. /\ DOMAIN both = {x \in DOMAIN Trimmed(d) : x.scope \in {"app", "user"}}
      /\ \A k \in DOMAIN both : both[k] = Trimmed(d)[k]
  BY DEF Adk!Log!In
<1>5. DOMAIN both = DOMAIN da \cup DOMAIN du /\ \A k \in DOMAIN both : both[k] = d[k]
  BY <1>2, <1>3, <1>4
<1> DEFINE left == Adk!Copy(Adk!Copy(a, da), Adk!Copy(u, du))
           right == Adk!Log!After(Adk!Copy(a, u), both)
           all == DOMAIN a \cup DOMAIN da \cup DOMAIN u \cup DOMAIN du
<1>6. /\ left = [k \in all |-> IF k \in DOMAIN du THEN du[k] ELSE IF k \in DOMAIN u THEN u[k]
                               ELSE IF k \in DOMAIN da THEN da[k] ELSE a[k]]
  <2> HIDE DEF da, du, both
  <2>1. /\ DOMAIN Adk!Copy(a, da) = DOMAIN a \cup DOMAIN da
        /\ DOMAIN Adk!Copy(u, du) = DOMAIN u \cup DOMAIN du
    BY DEF Adk!Copy
  <2>2. \A k \in DOMAIN Adk!Copy(a, da) : Adk!Copy(a, da)[k] =
            IF k \in DOMAIN da THEN da[k] ELSE a[k]
    BY DEF Adk!Copy
  <2>3. \A k \in DOMAIN Adk!Copy(u, du) : Adk!Copy(u, du)[k] =
            IF k \in DOMAIN du THEN du[k] ELSE u[k]
    BY DEF Adk!Copy
  <2>4. left = [k \in DOMAIN Adk!Copy(a, da) \cup DOMAIN Adk!Copy(u, du) |->
                  IF k \in DOMAIN Adk!Copy(u, du) THEN Adk!Copy(u, du)[k] ELSE Adk!Copy(a, da)[k]]
    BY DEF Adk!Copy
  <2>5. DOMAIN Adk!Copy(a, da) \cup DOMAIN Adk!Copy(u, du) = all
    BY <2>1
  <2>6. \A k \in all : (IF k \in DOMAIN Adk!Copy(u, du) THEN Adk!Copy(u, du)[k]
            ELSE Adk!Copy(a, da)[k]) =
                       (IF k \in DOMAIN du THEN du[k] ELSE IF k \in DOMAIN u THEN u[k]
                               ELSE IF k \in DOMAIN da THEN da[k] ELSE a[k])
    BY <2>1, <2>2, <2>3
  <2> HIDE DEF left, all
  <2> QED BY <2>4, <2>5, <2>6
<1>7. right = [k \in all |-> IF k \in DOMAIN da \cup DOMAIN du THEN d[k]
          ELSE IF k \in DOMAIN u THEN u[k] ELSE a[k]]
  <2> HIDE DEF da, du, both
  <2>1. DOMAIN Adk!Copy(a, u) = DOMAIN a \cup DOMAIN u
        /\ \A k \in DOMAIN Adk!Copy(a, u) : Adk!Copy(a, u)[k] =
               IF k \in DOMAIN u THEN u[k] ELSE a[k]
    BY DEF Adk!Copy
  <2>2. right = [k \in DOMAIN Adk!Copy(a, u) \cup DOMAIN both |->
            IF k \in DOMAIN both THEN both[k] ELSE Adk!Copy(a, u)[k]]
    BY DEF Adk!Log!After
  <2>3. DOMAIN Adk!Copy(a, u) \cup DOMAIN both = all
    BY <1>5, <2>1
  <2>4. \A k \in all : (IF k \in DOMAIN both THEN both[k] ELSE Adk!Copy(a, u)[k]) =
            (IF k \in DOMAIN da \cup DOMAIN du THEN d[k] ELSE IF k \in DOMAIN u THEN u[k] ELSE a[k])
    BY <1>5, <2>1
  <2> HIDE DEF right, all
  <2> QED BY <2>2, <2>3, <2>4
<1>8. /\ \A k \in DOMAIN a \cup DOMAIN da : k.scope = "app"
      /\ \A k \in DOMAIN u \cup DOMAIN du : k.scope = "user"
  BY <1>1 DEF MapOf
<1>9. \A k \in all :
        (IF k \in DOMAIN du THEN du[k] ELSE IF k \in DOMAIN u THEN u[k]
            ELSE IF k \in DOMAIN da THEN da[k] ELSE a[k]) =
        (IF k \in DOMAIN da \cup DOMAIN du THEN d[k] ELSE IF k \in DOMAIN u THEN u[k] ELSE a[k])
  <2> HIDE DEF da, du
  <2> QED BY <1>2, <1>8
<1> HIDE DEF da, du, both, left, right, all
<1>10. left = right
  BY <1>6, <1>7, <1>9
<1> QED BY <1>10 DEF left, right, da, du, both

LEMMA OwnIsMade ==
    ASSUME NEW d PROVE Adk!Log!In(Trimmed(d), {"session"}) = Adk!Scoped(d, "session")
<1>1. /\ DOMAIN Trimmed(d) = {x \in DOMAIN d : x.scope # "temp"}
      /\ \A k \in DOMAIN Trimmed(d) : Trimmed(d)[k] = d[k]
  BY DEF Trimmed
<1>2. {x \in DOMAIN Trimmed(d) : x.scope \in {"session"}} = {x \in DOMAIN d : x.scope = "session"}
  BY <1>1
<1> QED BY <1>1, <1>2 DEF Adk!Log!In, Adk!Scoped

LEMMA AppendExtends ==
    ASSUME StoreInv, NEW t \in SessionTurns, NEW d \in Deltas, NEW event, Appends(t, d, event)
    PROVE  Adk!Log!Extend(t, sessionID[t])
<1> DEFINE s == sessionID[t]
           change == Trimmed(d)
<1>1. /\ s \in Sessions
      /\ Adk!Changes(localEvents[t]) = Adk!Changes(events[s])
      /\ Len(Adk!Changes(events[s])) = Len(events[s])
      /\ Adk!Changes(events'[s]) = Append(Adk!Changes(events[s]), change)
      /\ Adk!Changes(localEvents'[t]) = Append(Adk!Changes(localEvents[t]), change)
  BY AppendMakesHistory
<1>2. /\ \A x \in Sessions \ {s} : events'[x] = events[x]
      /\ \A u \in SessionTurns \ {t} : localEvents'[u] = localEvents[u]
  BY DEF Appends, StoreInv, StoreTyped, SessionsTyped, TurnsTyped
<1>3. /\ \A x \in Sessions : History[x] = Adk!Changes(events[x]) /\ History'[x] =
             Adk!Changes(events'[x])
      /\ \A u \in SessionTurns : View[u] = Adk!Changes(localEvents[u]) /\ View'[u] =
             Adk!Changes(localEvents'[u])
  BY DEF History, View, Adk!Changes, Adk!trimTempDeltaState
<1>4. Len(events[s]) \in Nat /\ events[s] \in Seq(Rows)
  BY <1>1 DEF StoreInv, StoreTyped, SessionsTyped
<1>5. \E R : Adk!Changes(events[s]) \in Seq(R) /\ change \in R
  <2>1. Adk!Changes(events[s]) = [i \in 1..Len(events[s]) |-> Trimmed(events[s][i].delta)]
    BY <1>4, ChangesOf
  <2> WITNESS {Trimmed(events[s][i].delta) : i \in 1..Len(events[s])} \cup {change}
  <2> QED BY <2>1, <1>4
<1>6. Len(Adk!Changes(events'[s])) = Len(Adk!Changes(events[s])) + 1
      /\ Adk!Changes(events'[s])[Len(Adk!Changes(events[s])) + 1] = change
  BY <1>1, <1>5
<1>7. View[t] = History[s] /\ Len(History'[s]) = Len(History[s]) + 1
      /\ History'[s][Len(History[s]) + 1] = change
  BY <1>1, <1>3, <1>6
<1>8. History' = [History EXCEPT ![s] = Append(@, change)]
  <2>1. ASSUME NEW x \in Sessions
        PROVE  History'[x] = IF x = s THEN Append(History[s], change) ELSE History[x]
    <3>1. CASE x = s
      BY <1>1, <1>3, <3>1
    <3>2. CASE x # s
      BY <1>2, <1>3, <3>2
    <3> QED BY <3>1, <3>2
  <2>2. DOMAIN History = Sessions /\ History = [x \in Sessions |-> History[x]]
        /\ History' = [x \in Sessions |-> History'[x]]
    BY DEF History
  <2> HIDE DEF change
  <2> QED BY <2>1, <2>2, <1>1
<1>9. View' = [View EXCEPT ![t] = Append(@, change)]
  <2>1. ASSUME NEW u \in SessionTurns
        PROVE  View'[u] = IF u = t THEN Append(View[t], change) ELSE View[u]
    <3>1. CASE u = t
      BY <1>1, <1>3, <3>1
    <3>2. CASE u # t
      BY <1>2, <1>3, <3>2
    <3> QED BY <3>1, <3>2
  <2>2. /\ DOMAIN View = SessionTurns /\ View = [u \in SessionTurns |-> View[u]]
        /\ View' = [u \in SessionTurns |-> View'[u]]
    BY DEF View
  <2> HIDE DEF change
  <2> QED BY <2>1, <2>2
<1>10. state' = [state EXCEPT ![s] = Adk!Log!After(@, Adk!Log!In(change, {"session"}))]
  <2>1. state' = [state EXCEPT ![s] = Adk!Copy(@, Adk!Scoped(d, "session"))]
    BY AppendMakesState
  <2>2. \A f, g : Adk!Log!After(f, g) = Adk!Copy(f, g)
    BY DEF Adk!Log!After, Adk!Copy
  <2> QED BY <2>1, <2>2, OwnIsMade
<1>11. Adk!Copy(appState', userState') =
           Adk!Log!After(Adk!Copy(appState, userState), Adk!Log!In(change, {"app", "user"}))
  BY SharedIsMade DEF Appends, StoreInv, StoreTyped, StatesTyped
<1>12. Adk!Copy(appState, userState)' = Adk!Copy(appState', userState')
  BY DEF Adk!Copy
<1> HIDE DEF change, s
<1>13. /\ View[t] = History[s] /\ Len(History'[s]) = Len(History[s]) + 1
       /\ LET c == History'[s][Len(History[s]) + 1]
          IN  /\ History' = [History EXCEPT ![s] = Append(@, c)]
              /\ View' = [View EXCEPT ![t] = Append(@, c)]
              /\ state' = [state EXCEPT ![s] = Adk!Log!After(@, Adk!Log!In(c, {"session"}))]
              /\ Adk!Copy(appState, userState)' = Adk!Log!After(Adk!Copy(appState, userState),
                     Adk!Log!In(c, {"app", "user"}))
  BY <1>7, <1>8, <1>9, <1>10, <1>11, <1>12, Zenon
<1>14. Adk!Log!Extend(t, s)
  BY <1>13, Zenon DEF Adk!Log!Extend, History, View
<1> QED BY <1>14 DEF s

LEMMA EnsureOpens ==
    ASSUME StoreInv, NEW t \in SessionTurns, Adk!EnsureSession(t), ~UNCHANGED Adk!database
    PROVE  Adk!Log!Open(sessionID[t])
<1> DEFINE s == sessionID[t]
           initial == [k \in {Adk!ProviderFamilyStateKey} |-> providerFamily]
<1>1. /\ s \notin stored
      /\ UNCHANGED <<revision, events>>
      /\ state' = [state EXCEPT ![s] = Adk!Scoped(initial, "session")]
      /\ appState' = Adk!Copy(appState, Adk!Scoped(initial, "app"))
      /\ userState' = Adk!Copy(userState, Adk!Scoped(initial, "user"))
      /\ UNCHANGED Adk!local
  BY DEF Adk!EnsureSession, Adk!Insert, Adk!extractStateDeltas
<1>2. s \in Sessions /\ s \in DOMAIN state
  BY DEF StoreInv, StoreTyped, TurnsTyped, StatesTyped
<1>3. DOMAIN Adk!Scoped(initial, "app") = {} /\ DOMAIN Adk!Scoped(initial, "user") = {}
  BY DEF Adk!Scoped, Adk!ProviderFamilyStateKey
<1>4. appState' = appState /\ userState' = userState
  BY <1>1, <1>3, CopyNothing DEF StoreInv, StoreTyped, StatesTyped
<1>5. state' = [state EXCEPT ![s] = state'[s]]
  <2> HIDE DEF initial
  <2> QED BY <1>1, <1>2
<1>6. Adk!Changes(events[s]) = <<>>
  <2>1. Len(events[s]) = 0 /\ events[s] \in Seq(Rows)
    BY <1>1, <1>2 DEF StoreInv, StoreTyped, SessionsTyped
  <2>2. events[s] = <<>>
    BY <2>1
  <2> QED BY <2>2, ChangesNone
<1>7. History[s] = <<>>
  BY <1>2, <1>6 DEF History
<1>8. /\ History' = History /\ View' = View
      /\ Adk!Copy(appState, userState)' = Adk!Copy(appState, userState)
  BY <1>1, <1>4 DEF History, View, Adk!local, Adk!Changes, Adk!trimTempDeltaState, Adk!Copy
<1> HIDE DEF s, initial
<1>9. Adk!Log!Open(s)
  BY <1>5, <1>7, <1>8, Zenon DEF Adk!Log!Open, History, View
<1> QED BY <1>9 DEF s

LEMMA GetEventsReads ==
    ASSUME StoreInv, NEW t \in SessionTurns, Adk!GetEvents(t)
    PROVE  Adk!Log!Read(t, sessionID[t])
<1> DEFINE s == sessionID[t]
<1>1. s \in Sessions
  BY DEF StoreInv, StoreTyped, TurnsTyped
<1>2. localEvents' = [localEvents EXCEPT ![t] = events[s]] /\ UNCHANGED Adk!database
  BY DEF Adk!GetEvents
<1>3. localEvents'[t] = events[s] /\ \A u \in SessionTurns \ {t} : localEvents'[u] = localEvents[u]
  BY <1>2 DEF StoreInv, StoreTyped, TurnsTyped
<1>4. /\ History' = History
      /\ Adk!Copy(appState, userState)' = Adk!Copy(appState, userState)
      /\ state' = state
  BY <1>2 DEF History, Adk!database, Adk!Changes, Adk!trimTempDeltaState, Adk!Copy
<1>5. \A u \in SessionTurns : View[u] = Adk!Changes(localEvents[u]) /\ View'[u] =
          Adk!Changes(localEvents'[u])
  BY DEF View, Adk!Changes, Adk!trimTempDeltaState
<1>6. History[s] = Adk!Changes(events[s])
  BY <1>1 DEF History
<1>7. \A u \in SessionTurns : View'[u] = IF u = t THEN History[s] ELSE View[u]
  BY <1>3, <1>5, <1>6
<1>8. /\ DOMAIN View = SessionTurns /\ View = [u \in SessionTurns |-> View[u]]
      /\ View' = [u \in SessionTurns |-> View'[u]]
  BY DEF View
<1>9. View' = [View EXCEPT ![t] = History[s]]
  BY <1>7, <1>8
<1> HIDE DEF s
<1>10. Adk!Log!Read(t, s)
  BY <1>4, <1>9, Zenon DEF Adk!Log!Read, History, View
<1> QED BY <1>10 DEF s

LEMMA NextMapsLog == StoreInv /\ [Adk!Next]_(Adk!vars) => [Adk!Log!Next]_(Adk!Log!vars)
<1> SUFFICES ASSUME StoreInv, [Adk!Next]_(Adk!vars) PROVE Adk!Log!Next \/ UNCHANGED Adk!Log!vars
  OBVIOUS
<1>1. ASSUME UNCHANGED <<Adk!database, localEvents>> PROVE UNCHANGED Adk!Log!vars
  <2>1. History' = History /\ View' = View /\ state' = state
        /\ Adk!Copy(appState, userState)' = Adk!Copy(appState, userState)
    BY <1>1 DEF History, View, Adk!database, Adk!Changes, Adk!trimTempDeltaState, Adk!Copy
  <2> QED BY <2>1, Zenon DEF Adk!Log!vars, History, View
<1>2. ASSUME UNCHANGED Adk!database, \A t \in SessionTurns :
                 localEvents'[t] \in {localEvents[t], <<>>}
      PROVE  Adk!Log!Next
  BY <1>2, EndTurnForgets DEF Adk!Log!Next
<1>3. CASE UNCHANGED Adk!vars
  BY <1>1, <1>3 DEF Adk!vars, Adk!local
<1>4. ASSUME NEW family \in Families, Adk!Start(family) PROVE UNCHANGED Adk!Log!vars
  BY <1>1, <1>4 DEF Adk!Start, Adk!local
<1>5. CASE Adk!Crash
  BY <1>2, <1>5 DEF Adk!Crash
<1>6. ASSUME NEW t \in SessionTurns, Adk!Turn(t) PROVE Adk!Log!Next \/ UNCHANGED Adk!Log!vars
  <2>1. sessionID[t] \in Sessions
    BY DEF StoreInv, StoreTyped, TurnsTyped
  <2>2. ASSUME Adk!EndTurn(t) PROVE Adk!Log!Next
    BY <1>2, <2>2 DEF Adk!EndTurn, StoreInv, StoreTyped, TurnsTyped
  <2>3. ASSUME NEW d \in Deltas, Adk!AppendEvent(t, [delta |-> d, family |-> providerFamily])
        PROVE  Adk!Log!Next
    BY <2>1, <2>3, AppendAppends, AppendExtends DEF Adk!Log!Next
  <2>4. CASE Adk!EnsureSession(t)
    BY <1>1, <2>1, <2>4, EnsureOpens DEF Adk!Log!Next, Adk!EnsureSession, Adk!local
  <2>5. CASE Adk!GetEvents(t)
    BY <2>1, <2>5, GetEventsReads DEF Adk!Log!Next
  <2>6. CASE Adk!Fail(t) \/ Adk!StaleSession(t)
    BY <2>2, <2>6 DEF Adk!Fail, Adk!StaleSession
  <2>7. CASE Adk!CheckProviderFamily(t)
    BY <1>1, <2>2, <2>7 DEF Adk!CheckProviderFamily, Adk!local
  <2>8. CASE Adk!GetRow(t) \/ Adk!GetAppState(t) \/ Adk!GetUserState(t)
    BY <1>1, <2>8 DEF Adk!GetRow, Adk!GetAppState, Adk!GetUserState
  <2>9. CASE \E s \in Sessions : Adk!Begin(t, s)
    BY <1>1, <2>9 DEF Adk!Begin, Adk!local
  <2> QED BY <1>6, <2>3, <2>4, <2>5, <2>6, <2>7, <2>8, <2>9 DEF Adk!Turn
<1> QED BY <1>3, <1>4, <1>5, <1>6 DEF Adk!Next

\* The store implements the log: an event follows a history its turn has seen
\* to the end, and the state of a session is what its events have made of it.
THEOREM SessionsAreLogs == Adk!Spec => Adk!ImplementsLog
  BY InitLog, NextMapsLog, StoreHolds, PTL DEF Adk!Spec, Adk!ImplementsLog, Adk!Log!Spec

-----------------------------------------------------------------------------
(* THE IDENTITY OF MESSAGES                                                  *)

------------------------------------------------------------------------------
(* Routes                                                                    *)

EventsOf(M) == UNION {Listener!Events(m) : m \in M}

LEMMA EventOf ==
    ASSUME NEW m \in Messages, NEW e \in Listener!Events(m)
    PROVE  /\ e.message = m /\ e.inner \in {"message", "app_mention"}
           /\ e.inner = "app_mention" => m.mention
  BY DEF Listener!Events

\* What is routed comes from a message meant for the bot, and its identity is
\* that of the message.
LEMMA Routed ==
    ASSUME NEW m \in Messages, NEW e \in Listener!Events(m), NEW i \in Listener!Route(e)
    PROVE  /\ Listener!Addressed(m)
           /\ i.id = m.id /\ i.ts = m.ts /\ i.thread = m.thread
           /\ i.kind \in {"public", "private", "dm"}
           /\ i.kind = "dm" <=> m.type = "im"
           /\ m.type = "im" => i.threaded = threadedDM
           /\ m.type # "im" => i.threaded = FALSE
<1>1. m \in Listener!MessageType /\ (m.type = "im" <=> m.id = "D")
  BY MessagesAssumption
<1>2. e.message = m /\ (e.inner = "app_mention" => m.mention)
  BY EventOf
<1>3. CASE e.inner = "app_mention"
  <2>1. i \in Listener!RouteMention(m)
    BY <1>2, <1>3 DEF Listener!Route
  <2>2. /\ i = Listener!Invocation(m, Listener!ChannelKindFromID(m.id), FALSE, "mention")
        /\ m.author = "user" /\ ~m.changed /\ i.kind # "dm" /\ Listener!Validate(i)
    BY <2>1 DEF Listener!RouteMention
  <2>3. /\ i.kind = Listener!ChannelKindFromID(m.id) /\ i.id = m.id /\ i.ts = m.ts
        /\ i.thread = m.thread
        /\ i.threaded = FALSE /\ i.text = m.text /\ i.files = m.files
    BY <2>2 DEF Listener!Invocation
  <2>4. m.id \in {"C", "G", "D"}
    BY <1>1 DEF Listener!MessageType
  <2>5. m.id # "D"
    BY <2>2, <2>3 DEF Listener!ChannelKindFromID
  <2>6. i.kind \in {"public", "private"}
    BY <2>3, <2>4, <2>5 DEF Listener!ChannelKindFromID
  <2>7. Listener!Addressed(m)
    BY <1>1, <1>2, <1>3, <2>2, <2>3, <2>5 DEF Listener!Addressed, Listener!Validate
  <2> QED BY <1>1, <2>2, <2>3, <2>5, <2>6, <2>7
<1>4. CASE e.inner # "app_mention"
  <2>1. i \in Listener!RouteMessage(m)
    BY <1>2, <1>4 DEF Listener!Route
  <2>2. ~Listener!IgnoreMessage(m) /\ Listener!Validate(i)
        /\ (m.type # "im" => m.thread # 0 /\ ~m.mention /\ i.kind # "dm")
    BY <2>1 DEF Listener!RouteMessage, Listener!RouteMessageUnless
  <2>3. CASE m.type = "im"
    <3>1. i = Listener!Invocation(m, "dm", threadedDM, "direct_message")
      BY <2>1, <2>3 DEF Listener!RouteMessage, Listener!RouteMessageUnless
    <3>2. i.kind = "dm" /\ i.id = m.id /\ i.ts = m.ts /\ i.thread = m.thread
          /\ i.threaded = threadedDM /\ i.text = m.text /\ i.files = m.files
      BY <3>1 DEF Listener!Invocation
    <3>3. Listener!Addressed(m)
      BY <1>1, <2>2, <2>3, <3>2 DEF Listener!Addressed, Listener!IgnoreMessage, Listener!Validate,
                                    Listener!MessageType
    <3> QED BY <2>3, <3>2, <3>3
  <2>4. CASE m.type # "im"
    <3>1. /\ m.type \in {"channel", "group"}
          /\ i = Listener!Invocation(m, Listener!ChannelKindFromID(m.id), FALSE, "thread_reply")
      BY <2>1, <2>4 DEF Listener!RouteMessage, Listener!RouteMessageUnless
    <3>2. /\ i.kind = Listener!ChannelKindFromID(m.id) /\ i.id = m.id /\ i.ts = m.ts
          /\ i.thread = m.thread
          /\ i.threaded = FALSE /\ i.text = m.text /\ i.files = m.files
      BY <3>1 DEF Listener!Invocation
    <3>3. i.kind \in {"public", "private"}
      BY <1>1, <2>4, <3>2 DEF Listener!ChannelKindFromID, Listener!MessageType
    <3>4. Listener!Addressed(m)
      BY <1>1, <2>2, <2>4, <3>1, <3>2, <3>3 DEF Listener!Addressed, Listener!IgnoreMessage,
                                                Listener!Validate, Listener!MessageType
    <3> QED BY <2>4, <3>2, <3>3, <3>4
  <2> QED BY <2>3, <2>4
<1> QED BY <1>3, <1>4

\* An event by which a message meant for the bot is routed.
Carries(e) ==
    e.inner = IF e.message.type # "im" /\ e.message.mention THEN "app_mention" ELSE "message"

LEMMA CarrierExists ==
    ASSUME NEW m \in Messages PROVE \E e \in Listener!Events(m) : Carries(e)
<1> DEFINE inner == IF m.type # "im" /\ m.mention THEN "app_mention" ELSE "message"
           e == [inner |-> inner, message |-> m, named |-> inner = "message"]
<1>1. e \in Listener!Events(m)
  BY DEF Listener!Events
<1>2. e.inner = inner /\ e.message = m
  OBVIOUS
<1> QED BY <1>1, <1>2 DEF Carries

LEMMA CarrierIsRouted ==
    ASSUME NEW m \in Messages, NEW e \in Listener!Events(m), Listener!Addressed(m), Carries(e)
    PROVE  Listener!Route(e) # {}
<1>1. m \in Listener!MessageType /\ (m.type = "im" <=> m.id = "D")
  BY MessagesAssumption
<1>2. e.message = m
  BY EventOf
<1>3. CASE m.type # "im" /\ m.mention
  <2> DEFINE i == Listener!Invocation(m, Listener!ChannelKindFromID(m.id), FALSE, "mention")
  <2>1. e.inner = "app_mention"
    BY <1>2, <1>3 DEF Carries
  <2>2. /\ i.kind = Listener!ChannelKindFromID(m.id) /\ i.text = m.text
        /\ i.files = m.files /\ i.trigger = "mention"
    BY DEF Listener!Invocation
  <2>3. i.kind # "dm"
    BY <1>1, <1>3, <2>2 DEF Listener!ChannelKindFromID, Listener!MessageType
  <2>4. Listener!Validate(i)
    BY <1>3, <2>2, <2>3 DEF Listener!Validate, Listener!Addressed
  <2>5. i \in Listener!RouteMention(m)
    BY <2>3, <2>4 DEF Listener!RouteMention, Listener!Addressed
  <2> QED BY <1>2, <2>1, <2>5 DEF Listener!Route
<1>4. CASE m.type = "im"
  <2> DEFINE i == Listener!Invocation(m, "dm", threadedDM, "direct_message")
  <2>1. e.inner = "message"
    BY <1>2, <1>4 DEF Carries
  <2>2. i.kind = "dm" /\ i.text = m.text /\ i.files = m.files /\ i.trigger = "direct_message"
    BY DEF Listener!Invocation
  <2>3. Listener!Validate(i)
    BY <2>2 DEF Listener!Validate, Listener!Addressed
  <2>4. ~Listener!IgnoreMessage(m)
    BY <1>4 DEF Listener!Addressed, Listener!IgnoreMessage
  <2>5. i \in Listener!RouteMessage(m)
    BY <1>4, <2>3, <2>4 DEF Listener!RouteMessage, Listener!RouteMessageUnless
  <2> QED BY <1>2, <2>1, <2>5 DEF Listener!Route
<1>5. CASE m.type # "im" /\ ~m.mention
  <2> DEFINE i == Listener!Invocation(m, Listener!ChannelKindFromID(m.id), FALSE, "thread_reply")
  <2>1. e.inner = "message"
    BY <1>2, <1>5 DEF Carries
  <2>2. i.kind = Listener!ChannelKindFromID(m.id) /\ i.text = m.text /\ i.files = m.files
        /\ i.trigger = "thread_reply" /\ i.thread = m.thread
    BY DEF Listener!Invocation
  <2>3. i.kind # "dm"
    BY <1>1, <1>5, <2>2 DEF Listener!ChannelKindFromID, Listener!MessageType
  <2>4. m.type \in {"channel", "group"} /\ m.thread # 0 /\ ~Listener!IgnoreMessage(m)
    BY <1>5 DEF Listener!Addressed, Listener!IgnoreMessage
  <2>5. Listener!Validate(i)
    BY <2>2, <2>3, <2>4 DEF Listener!Validate, Listener!Addressed
  <2>6. i \in Listener!RouteMessage(m)
    BY <1>5, <2>3, <2>4, <2>5 DEF Listener!RouteMessage, Listener!RouteMessageUnless
  <2> QED BY <1>2, <2>1, <2>6 DEF Listener!Route
<1> QED BY <1>3, <1>4, <1>5

LEMMA RoutedPlace ==
    ASSUME NEW m \in Messages, NEW e \in Listener!Events(m), NEW i \in Listener!Route(e)
    PROVE  /\ i.kind = "dm" <=> i.id = "D"
           /\ i.kind # "dm" => i.threaded = FALSE
           /\ i.kind = "dm" => i.threaded = threadedDM
<1>1. m.type = "im" <=> m.id = "D"
  BY MessagesAssumption
<1> QED BY <1>1, Routed

\* Conversations, answers, roots and histories name one place.
LEMMA OneIdentity ==
    ASSUME NEW m \in Messages, NEW n \in Messages, NEW e \in Listener!Events(m),
           NEW f \in Listener!Events(n),
           NEW i \in Listener!Route(e), NEW j \in Listener!Route(f)
    PROVE  /\ Listener!ConversationKey(i) = Listener!ConversationKey(j)
                  <=> Listener!ReplyTarget(i) = Listener!ReplyTarget(j)
           /\ Listener!MetadataRoot(i) = Listener!ReplyTarget(i).thread
           /\ Listener!HistoryRoot(i) = Listener!ReplyTarget(i).thread
<1>1. /\ i.kind = "dm" <=> i.id = "D"
      /\ i.kind # "dm" => i.threaded = FALSE
      /\ i.kind = "dm" => i.threaded = threadedDM
  BY RoutedPlace
<1>2. /\ j.kind = "dm" <=> j.id = "D"
      /\ j.kind # "dm" => j.threaded = FALSE
      /\ j.kind = "dm" => j.threaded = threadedDM
  BY RoutedPlace
<1>3. \A x \in {i, j} : Listener!ReplyTarget(x) = [id |-> x.id, thread |->
          IF Listener!InThread(x) THEN Listener!Root(x) ELSE 0]
  BY <1>1, <1>2 DEF Listener!ReplyTarget, Listener!InThread, Listener!Root
<1>4. \A x \in {i, j} :
          /\ Listener!MetadataRoot(x) = IF Listener!InThread(x) THEN Listener!Root(x) ELSE 0
          /\ Listener!HistoryRoot(x) = Listener!MetadataRoot(x)
  BY <1>1, <1>2 DEF Listener!MetadataRoot, Listener!HistoryRoot, Listener!InThread, Listener!Root
<1> DEFINE at(x) == IF Listener!InThread(x) THEN Listener!Root(x) ELSE 0
           sort(x) == IF x.kind = "dm" THEN "dm" ELSE "channel"
<1>5. \A x \in {i, j} :
          Listener!ConversationKey(x) = [kind |-> sort(x), id |-> x.id, thread |-> at(x)]
  BY DEF Listener!ConversationKey
<1>6. sort(i) = sort(j) \/ i.id # j.id
  BY <1>1, <1>2
<1> HIDE DEF at, sort
<1>7. Listener!ConversationKey(i) = Listener!ConversationKey(j)
          <=> (sort(i) = sort(j) /\ i.id = j.id /\ at(i) = at(j))
  BY <1>5
<1>8. Listener!ReplyTarget(i) = Listener!ReplyTarget(j) <=> (i.id = j.id /\ at(i) = at(j))
  BY <1>3 DEF at
<1>9. Listener!ReplyTarget(i).thread = at(i)
  BY <1>3 DEF at
<1> QED BY <1>4, <1>6, <1>7, <1>8, <1>9 DEF at

------------------------------------------------------------------------------
(* What is in hand, claimed and answered                                     *)

InLoop == {h.event : h \in handlers}
AllEvents == EventsOf(posted)

ListenerTyped ==
    /\ posted \subseteq Messages
    /\ outstanding \subseteq AllEvents
    /\ loop \subseteq AllEvents
    /\ listenerPhase \in {"down", "running", "draining"}
    /\ listenerPhase = "down" => loop = {} /\ handlers = {}
    /\ answers = [m \in DOMAIN answers |-> answers[m]]

\* A handler has what the router made of its event.
HandlersRouted == \A h \in handlers :
    h.event \in AllEvents /\ h.invocation \in Listener!Route(h.event)

\* A message is answered once, and its key claimed; a key is claimed of what is
\* answered.
ClaimsAreAnswers ==
    /\ DOMAIN answers \subseteq posted
    /\ \A m \in DOMAIN answers :
           answers[m] = 1 /\ Listener!Addressed(m) /\ <<"message", m>> \in claimed
    /\ \A k \in claimed : k[2] \in DOMAIN answers

\* The event that carries a message stays in hand until it is answered.
CarrierKept ==
    \A m \in posted : Listener!Addressed(m) =>
        \/ \E e \in Listener!Events(m) : Carries(e) /\ e \in outstanding \cup loop \cup InLoop
        \/ m \in DOMAIN answers
        \/ m \in interrupted

\* Direct messages are kept as the stored mode says.
ModeKept ==
    /\ dmIdentityMode \in {"none", "channel", "threaded"}
    /\ listenerPhase # "down" => dmIdentityMode = Listener!Mode(threadedDM)
    /\ dmIdentityMode # "threaded" => \A key \in conversations : key.kind = "dm" => key.thread = 0
    /\ dmIdentityMode = "threaded" => \A key \in conversations : key.kind = "dm" => key.thread # 0

ListenerInv ==
    ListenerTyped /\ HandlersRouted /\ ClaimsAreAnswers /\ CarrierKept /\ ModeKept

LEMMA InitListenerInv == Listener!Init => ListenerInv
<1> SUFFICES ASSUME Listener!Init PROVE ListenerInv
  OBVIOUS
<1>1. DOMAIN answers = {} /\ answers = [m \in DOMAIN answers |-> answers[m]]
  BY DEF Listener!Init, Listener!EmptyBag, Listener!SetToBag
<1>2. ListenerTyped
  BY <1>1 DEF Listener!Init, ListenerTyped
<1>3. HandlersRouted /\ ClaimsAreAnswers /\ CarrierKept
  BY <1>1 DEF Listener!Init, HandlersRouted, ClaimsAreAnswers, CarrierKept
<1>4. ModeKept
  BY DEF Listener!Init, ModeKept
<1> QED BY <1>2, <1>3, <1>4 DEF ListenerInv

LEMMA EventsGrow ==
    ASSUME NEW M, NEW N, M \subseteq N PROVE EventsOf(M) \subseteq EventsOf(N)
  BY DEF EventsOf

\* What routes, and what carries, does not change while a handler runs.
LEMMA RouteStays ==
    ASSUME threadedDM' = threadedDM, NEW e PROVE Listener!Route(e)' = Listener!Route(e)
  BY DEF Listener!Route, Listener!RouteMention, Listener!RouteMessage, Listener!RouteMessageUnless

LEMMA PostKeeps ==
    ASSUME ListenerInv, NEW m \in Messages, Listener!Post(m) PROVE ListenerInv'
<1>1. /\ posted \subseteq posted' /\ AllEvents \subseteq AllEvents'
      /\ Listener!Events(m) \subseteq AllEvents'
  BY EventsGrow DEF Listener!Post, AllEvents, EventsOf
<1>2. ListenerTyped'
  BY <1>1 DEF ListenerInv, ListenerTyped, Listener!Post
<1>3. HandlersRouted'
  BY <1>1, RouteStays DEF ListenerInv, HandlersRouted, Listener!Post
<1>4. ClaimsAreAnswers'
  BY <1>1 DEF ListenerInv, ClaimsAreAnswers, Listener!Post
<1>5. CarrierKept'
  <2> SUFFICES ASSUME NEW n \in posted', Listener!Addressed(n)
               PROVE  \/ \E e \in Listener!Events(n) :
                             Carries(e) /\ e \in outstanding' \cup loop' \cup InLoop'
                      \/ n \in DOMAIN answers'
                      \/ n \in interrupted'
    BY DEF CarrierKept
  <2>1. CASE n = m
    <3>1. PICK e \in Listener!Events(m) : Carries(e)
      BY CarrierExists
    <3> QED BY <3>1, <2>1 DEF Listener!Post
  <2>2. CASE n # m
    BY <2>2 DEF Listener!Post, ListenerInv, CarrierKept, InLoop
  <2> QED BY <2>1, <2>2
<1>6. ModeKept'
  BY DEF ListenerInv, ModeKept, Listener!Post, Listener!Mode
<1> QED BY <1>2, <1>3, <1>4, <1>5, <1>6 DEF ListenerInv

LEMMA StartKeeps ==
    ASSUME ListenerInv, NEW threaded \in BOOLEAN, Listener!Start(threaded) PROVE ListenerInv'
<1>1. ListenerTyped' /\ HandlersRouted' /\ ClaimsAreAnswers' /\ CarrierKept'
  <2>1. loop = {} /\ handlers = {}
    BY DEF ListenerInv, ListenerTyped, Listener!Start
  <2>2. ListenerTyped'
    BY <2>1 DEF ListenerInv, ListenerTyped, Listener!Start, AllEvents
  <2>3. HandlersRouted' /\ ClaimsAreAnswers' /\ CarrierKept'
    BY <2>1 DEF ListenerInv, HandlersRouted, ClaimsAreAnswers, CarrierKept, Listener!Start, InLoop
  <2> QED BY <2>2, <2>3
<1>2. ModeKept'
  <2>1. /\ dmIdentityMode' = Listener!Mode(threaded) /\ threadedDM' = threaded
        /\ conversations' = conversations
    BY DEF Listener!Start
  <2>2. threaded => Listener!Mode(threaded) = "threaded"
    BY DEF Listener!Mode
  <2>3. ~threaded => Listener!Mode(threaded) = "channel"
    BY DEF Listener!Mode
  <2>4. CASE dmIdentityMode = Listener!Mode(threaded)
    BY <2>1, <2>2, <2>3, <2>4 DEF ListenerInv, ModeKept
  <2>5. CASE dmIdentityMode = "none" /\ (threaded => ~\E key \in conversations : key.kind = "dm")
    BY <2>1, <2>2, <2>3, <2>5 DEF ListenerInv, ModeKept
  <2> QED BY <2>4, <2>5 DEF Listener!Start, Listener!AcceptsMode
<1> QED BY <1>1, <1>2 DEF ListenerInv

LEMMA AcknowledgeKeeps ==
    ASSUME ListenerInv, NEW e \in outstanding,
           NEW succeeds \in BOOLEAN, Listener!Acknowledge(e, succeeds)
    PROVE  ListenerInv'
<1>1. /\ listenerPhase = "running" /\ loop = {} /\ loop' = {e} /\ outstanding' \subseteq outstanding
      /\ outstanding \subseteq outstanding' \cup {e}
      /\ UNCHANGED <<threadedDM, dmIdentityMode, conversations, listenerPhase, posted, handlers,
             claimed, answers, interrupted>>
  BY DEF Listener!Acknowledge
<1>2. ListenerTyped'
  BY <1>1 DEF ListenerInv, ListenerTyped, AllEvents
<1>3. HandlersRouted' /\ ClaimsAreAnswers'
  BY <1>1, RouteStays DEF ListenerInv, HandlersRouted, ClaimsAreAnswers, AllEvents
<1>4. CarrierKept'
  BY <1>1 DEF ListenerInv, CarrierKept, InLoop
<1>5. ModeKept'
  BY <1>1 DEF ListenerInv, ModeKept, Listener!Mode
<1> QED BY <1>2, <1>3, <1>4, <1>5 DEF ListenerInv

LEMMA DispatchKeeps == ListenerInv /\ Listener!Dispatch => ListenerInv'
<1> SUFFICES ASSUME ListenerInv, Listener!Dispatch PROVE ListenerInv'
  OBVIOUS
<1>1. /\ listenerPhase # "down" /\ loop' = {}
      /\ handlers' = handlers \cup
            UNION {{[event |-> e, invocation |-> i] : i \in Listener!Route(e)} : e \in loop}
      /\ UNCHANGED <<threadedDM, dmIdentityMode, conversations, listenerPhase, posted, outstanding,
             claimed, answers, interrupted>>
  BY DEF Listener!Dispatch
<1>2. ListenerTyped'
  BY <1>1 DEF ListenerInv, ListenerTyped, AllEvents
<1>3. HandlersRouted'
  <2> SUFFICES ASSUME NEW h \in handlers'
               PROVE  h.event \in AllEvents' /\ h.invocation \in Listener!Route(h.event)'
    BY DEF HandlersRouted
  <2>1. AllEvents' = AllEvents /\ Listener!Route(h.event)' = Listener!Route(h.event)
    BY <1>1, RouteStays DEF AllEvents
  <2>2. CASE h \in handlers
    BY <2>1, <2>2 DEF ListenerInv, HandlersRouted
  <2>3. CASE \E e \in loop : \E i \in Listener!Route(e) : h = [event |-> e, invocation |-> i]
    BY <2>1, <2>3 DEF ListenerInv, ListenerTyped
  <2> QED BY <1>1, <2>2, <2>3
<1>4. ClaimsAreAnswers'
  BY <1>1 DEF ListenerInv, ClaimsAreAnswers
<1>5. CarrierKept'
  <2> SUFFICES ASSUME NEW m \in posted, Listener!Addressed(m)
               PROVE  \/ \E e \in Listener!Events(m) :
                             Carries(e) /\ e \in outstanding' \cup loop' \cup InLoop'
                      \/ m \in DOMAIN answers
                      \/ m \in interrupted
    BY <1>1 DEF CarrierKept
  <2>1. ASSUME NEW e \in Listener!Events(m), Carries(e), e \in loop PROVE e \in InLoop'
    <3>1. m \in Messages
      BY DEF ListenerInv, ListenerTyped
    <3>2. PICK i : i \in Listener!Route(e)
      BY <2>1, <3>1, CarrierIsRouted
    <3>3. [event |-> e, invocation |-> i] \in handlers'
      BY <1>1, <2>1, <3>2
    <3> QED BY <3>3 DEF InLoop
  <2>2. InLoop \subseteq InLoop'
    BY <1>1 DEF InLoop
  <2> QED BY <1>1, <2>1, <2>2 DEF ListenerInv, CarrierKept
<1>6. ModeKept'
  BY <1>1 DEF ListenerInv, ModeKept, Listener!Mode
<1> QED BY <1>2, <1>3, <1>4, <1>5, <1>6 DEF ListenerInv

LEMMA Keys ==
    ASSUME NEW e PROVE /\ <<"message", e.message>> \in Listener!DedupeKeys(e)
                       /\ \A k \in Listener!DedupeKeys(e) : k[2] = e.message
  BY DEF Listener!DedupeKeys

\* One more answer, to a message that has none.
LEMMA AnswerAdds ==
    ASSUME NEW h, NEW m, m = h.event.message, m \notin DOMAIN answers,
           Listener!Handle(h), Listener!DedupeKeys(h.event) \cap claimed = {}
    PROVE  /\ DOMAIN answers' = DOMAIN answers \cup {m}
           /\ answers' = [n \in DOMAIN answers' |-> answers'[n]]
           /\ answers'[m] = 1
           /\ \A n \in DOMAIN answers : answers[n] = 1 => answers'[n] = 1
<1>1. answers' = [n \in (DOMAIN answers) \cup {m} |->
                    (IF n \in DOMAIN answers THEN answers[n] ELSE 0)
                  + (IF n \in {m} THEN 1 ELSE 0)]
  BY DEF Listener!Handle, Listener!SetToBag, Listener!(+)
<1> QED BY <1>1

\* The conversation of a direct message is of the kind that the mode says.
LEMMA ConversationOfMode ==
    ASSUME NEW m \in Messages, NEW e \in Listener!Events(m), NEW i \in Listener!Route(e)
    PROVE  Listener!ConversationKey(i).kind = "dm" =>
               (Listener!ConversationKey(i).thread = 0 <=> ~threadedDM)
<1>1. /\ i.ts = m.ts /\ i.thread = m.thread /\ (i.kind = "dm" => i.threaded = threadedDM)
  BY Routed
<1>2. m.ts \in {1, 2} /\ m.thread \in {0, 1}
  BY MessagesAssumption DEF Listener!MessageType
<1>3. Listener!Root(i) # 0
  BY <1>1, <1>2 DEF Listener!Root
<1> QED BY <1>1, <1>3 DEF Listener!ConversationKey, Listener!InThread

LEMMA HandleKeeps ==
    ASSUME ListenerInv, NEW h \in handlers, Listener!Handle(h) PROVE ListenerInv'
<1> DEFINE m == h.event.message
<1>1. /\ h.event \in AllEvents /\ h.invocation \in Listener!Route(h.event)
  BY DEF ListenerInv, HandlersRouted
<1>2. m \in posted /\ m \in Messages /\ h.event \in Listener!Events(m)
  <2>1. PICK n \in posted : h.event \in Listener!Events(n)
    BY <1>1 DEF AllEvents, EventsOf
  <2>2. n \in Messages
    BY DEF ListenerInv, ListenerTyped
  <2> QED BY <2>1, <2>2, EventOf
<1>3. Listener!Addressed(m)
  BY <1>1, <1>2, Routed
<1>4. /\ handlers' = handlers \ {h} /\ claimed' = claimed \cup Listener!DedupeKeys(h.event)
      /\ UNCHANGED <<threadedDM, dmIdentityMode, listenerPhase, posted, outstanding, loop,
             interrupted>>
  BY DEF Listener!Handle
<1>5. /\ <<"message", m>> \in Listener!DedupeKeys(h.event)
      /\ \A k \in Listener!DedupeKeys(h.event) : k[2] = m
  BY Keys
<1>6. CASE Listener!DedupeKeys(h.event) \cap claimed # {}
  <2>1. answers' = answers /\ conversations' = conversations
    BY <1>6 DEF Listener!Handle
  <2>2. m \in DOMAIN answers
    BY <1>5, <1>6 DEF ListenerInv, ClaimsAreAnswers
  <2>3. ListenerTyped' /\ HandlersRouted'
    BY <1>4, <2>1, RouteStays DEF ListenerInv, ListenerTyped, HandlersRouted, AllEvents
  <2>4. ClaimsAreAnswers'
    BY <1>4, <1>5, <2>1, <2>2 DEF ListenerInv, ClaimsAreAnswers
  <2>5. CarrierKept'
    BY <1>4, <2>1, <2>2, EventOf DEF ListenerInv, ListenerTyped, CarrierKept, InLoop
  <2>6. ModeKept'
    BY <1>4, <2>1 DEF ListenerInv, ModeKept, Listener!Mode
  <2> QED BY <2>3, <2>4, <2>5, <2>6 DEF ListenerInv
<1>7. CASE Listener!DedupeKeys(h.event) \cap claimed = {}
  <2>1. conversations' = conversations \cup {Listener!ConversationKey(h.invocation)}
    BY <1>7 DEF Listener!Handle
  <2>2. m \notin DOMAIN answers
    BY <1>5, <1>7 DEF ListenerInv, ClaimsAreAnswers
  <2>3. /\ DOMAIN answers' = DOMAIN answers \cup {m}
        /\ answers' = [n \in DOMAIN answers' |-> answers'[n]]
        /\ answers'[m] = 1
        /\ \A n \in DOMAIN answers : answers[n] = 1 => answers'[n] = 1
    BY <1>7, <2>2, AnswerAdds
  <2>4. ListenerTyped'
    BY <1>4, <2>3 DEF ListenerInv, ListenerTyped, AllEvents
  <2>5. HandlersRouted'
    BY <1>4, RouteStays DEF ListenerInv, HandlersRouted, AllEvents
  <2>6. ClaimsAreAnswers'
    <3>1. DOMAIN answers' \subseteq posted'
      BY <1>2, <1>4, <2>3 DEF ListenerInv, ClaimsAreAnswers
    <3>2. \A n \in DOMAIN answers' :
              answers'[n] = 1 /\ Listener!Addressed(n) /\ <<"message", n>> \in claimed'
      BY <1>3, <1>4, <1>5, <2>3 DEF ListenerInv, ClaimsAreAnswers
    <3>3. \A k \in claimed' : k[2] \in DOMAIN answers'
      BY <1>4, <1>5, <2>3 DEF ListenerInv, ClaimsAreAnswers
    <3> QED BY <3>1, <3>2, <3>3 DEF ClaimsAreAnswers
  <2>7. CarrierKept'
    <3>1. m \in DOMAIN answers' /\ DOMAIN answers \subseteq DOMAIN answers'
      BY <2>3
    <3> QED BY <1>4, <3>1, EventOf DEF ListenerInv, ListenerTyped, CarrierKept, InLoop
  <2>8. ModeKept'
    <3>1. Listener!ConversationKey(h.invocation).kind = "dm" =>
            (Listener!ConversationKey(h.invocation).thread = 0 <=> ~threadedDM)
      BY <1>1, <1>2, ConversationOfMode
    <3>2. listenerPhase # "down"
      BY DEF ListenerInv, ListenerTyped
    <3>3. dmIdentityMode = Listener!Mode(threadedDM)
      BY <3>2 DEF ListenerInv, ModeKept
    <3>4. dmIdentityMode = "threaded" <=> threadedDM
      BY <3>3 DEF Listener!Mode
    <3>5. /\ dmIdentityMode' = dmIdentityMode /\ listenerPhase' = listenerPhase
          /\ Listener!Mode(threadedDM)' = Listener!Mode(threadedDM)
      BY <1>4 DEF Listener!Mode
    <3> HIDE DEF m
    <3> QED BY <2>1, <3>1, <3>3, <3>4, <3>5 DEF ListenerInv, ModeKept
  <2> QED BY <2>4, <2>5, <2>6, <2>7, <2>8 DEF ListenerInv
<1> QED BY <1>6, <1>7

LEMMA AbandonKeeps ==
    ASSUME ListenerInv, NEW h \in handlers, Listener!Abandon(h) PROVE ListenerInv'
<1>1. /\ handlers' = handlers \ {h} /\ interrupted' = interrupted \cup {h.event.message}
      /\ UNCHANGED <<threadedDM, dmIdentityMode, conversations, listenerPhase, posted, outstanding,
             loop, claimed, answers>>
  BY DEF Listener!Abandon
<1>2. ListenerTyped' /\ HandlersRouted' /\ ClaimsAreAnswers' /\ ModeKept'
  BY <1>1, RouteStays
     DEF ListenerInv, ListenerTyped, HandlersRouted, ClaimsAreAnswers, ModeKept, Listener!Mode,
         AllEvents
<1>3. CarrierKept'
  BY <1>1, EventOf DEF ListenerInv, ListenerTyped, CarrierKept, InLoop
<1> QED BY <1>2, <1>3 DEF ListenerInv

LEMMA ListenerStopKeeps == ListenerInv /\ (Listener!Stop \/ Listener!Return) => ListenerInv'
<1> SUFFICES ASSUME ListenerInv, Listener!Stop \/ Listener!Return PROVE ListenerInv'
  OBVIOUS
<1>1. /\ listenerPhase # "down" /\ listenerPhase' \in {"down", "draining"}
      /\ listenerPhase' = "down" => loop = {} /\ handlers = {}
      /\ UNCHANGED <<threadedDM, dmIdentityMode, conversations, posted, outstanding, loop, handlers,
                     claimed, answers, interrupted>>
  BY DEF Listener!Stop, Listener!Return
<1>2. ListenerTyped' /\ ClaimsAreAnswers'
  BY <1>1 DEF ListenerInv, ListenerTyped, ClaimsAreAnswers, AllEvents
<1>3. HandlersRouted' /\ CarrierKept'
  BY <1>1, RouteStays DEF ListenerInv, HandlersRouted, CarrierKept, AllEvents, InLoop
<1>4. ModeKept'
  BY <1>1 DEF ListenerInv, ModeKept, Listener!Mode
<1> QED BY <1>2, <1>3, <1>4 DEF ListenerInv

LEMMA CrashKeeps == ListenerInv /\ Listener!Crash => ListenerInv'
<1> SUFFICES ASSUME ListenerInv, Listener!Crash PROVE ListenerInv'
  OBVIOUS
<1>1. /\ listenerPhase # "down" /\ listenerPhase' = "down" /\ loop' = {} /\ handlers' = {}
      /\ interrupted' = interrupted \cup {e.message : e \in loop \cup {h.event : h \in handlers}}
      /\ UNCHANGED <<threadedDM, dmIdentityMode, conversations, posted, outstanding, claimed,
             answers>>
  BY DEF Listener!Crash
<1>2. ListenerTyped' /\ HandlersRouted' /\ ClaimsAreAnswers' /\ ModeKept'
  BY <1>1
     DEF ListenerInv, ListenerTyped, HandlersRouted, ClaimsAreAnswers, ModeKept, AllEvents
<1>3. CarrierKept'
  <2> SUFFICES ASSUME NEW m \in posted, Listener!Addressed(m)
               PROVE  \/ \E e \in Listener!Events(m) :
                             Carries(e) /\ e \in outstanding' \cup loop' \cup InLoop'
                      \/ m \in DOMAIN answers
                      \/ m \in interrupted'
    BY <1>1 DEF CarrierKept
  <2>1. ASSUME NEW e \in Listener!Events(m), e \in loop \cup InLoop PROVE m \in interrupted'
    <3>1. e.message = m
      BY EventOf DEF ListenerInv, ListenerTyped
    <3> QED BY <1>1, <2>1, <3>1 DEF InLoop
  <2> QED BY <1>1, <2>1 DEF ListenerInv, CarrierKept
<1> QED BY <1>2, <1>3 DEF ListenerInv

LEMMA ListenerNextKeeps == ListenerInv /\ [Listener!Next]_(Listener!vars) => ListenerInv'
<1> SUFFICES ASSUME ListenerInv, [Listener!Next]_(Listener!vars) PROVE ListenerInv'
  OBVIOUS
<1>1. ASSUME NEW m \in Messages, Listener!Post(m) PROVE ListenerInv'
  BY <1>1, PostKeeps
<1>2. ASSUME NEW threaded \in BOOLEAN, Listener!Start(threaded) PROVE ListenerInv'
  BY <1>2, StartKeeps
<1>3. ASSUME NEW e \in outstanding, NEW succeeds \in BOOLEAN, Listener!Acknowledge(e, succeeds)
      PROVE  ListenerInv'
  BY <1>3, AcknowledgeKeeps
<1>4. ASSUME NEW h \in handlers, Listener!Handle(h) \/ Listener!Abandon(h) PROVE ListenerInv'
  BY <1>4, HandleKeeps, AbandonKeeps
<1>5. CASE Listener!Dispatch \/ Listener!Stop \/ Listener!Return \/ Listener!Crash
  BY <1>5, DispatchKeeps, ListenerStopKeeps, CrashKeeps
<1>6. CASE UNCHANGED Listener!vars
  BY <1>6, RouteStays
     DEF Listener!vars, ListenerInv, ListenerTyped, HandlersRouted, ClaimsAreAnswers, CarrierKept,
         ModeKept, Listener!Mode, AllEvents, InLoop
<1> QED BY <1>1, <1>2, <1>3, <1>4, <1>5, <1>6 DEF Listener!Next

LEMMA ListenerInvGives ==
    ListenerInv => /\ Listener!AddressedIsKept /\ Listener!HandledOnce
                   /\ Listener!OnePlace /\ Listener!DirectMessagesAgree
<1> SUFFICES ASSUME ListenerInv
             PROVE  /\ Listener!AddressedIsKept /\ Listener!HandledOnce
                    /\ Listener!OnePlace /\ Listener!DirectMessagesAgree
  OBVIOUS
<1>1. Listener!AddressedIsKept
  <2> SUFFICES ASSUME NEW m \in posted
               PROVE  /\ Listener!Addressed(m) =>
                            Listener!InHand(m) \/ Listener!BagIn(m, answers) \/ m \in interrupted
                      /\ ~Listener!Addressed(m) => ~Listener!BagIn(m, answers)
    BY DEF Listener!AddressedIsKept
  <2>1. ASSUME NEW e \in Listener!Events(m), e \in outstanding \cup loop \cup InLoop
        PROVE  Listener!InHand(m)
    <3>1. e.message = m
      BY EventOf DEF ListenerInv, ListenerTyped
    <3> QED BY <2>1, <3>1 DEF Listener!InHand, InLoop
  <2> QED BY <2>1 DEF ListenerInv, CarrierKept, ClaimsAreAnswers, Listener!BagIn, Listener!BagToSet
<1>2. Listener!HandledOnce
  BY DEF ListenerInv, ClaimsAreAnswers, Listener!HandledOnce, Listener!BagIn, Listener!BagToSet
<1>3. Listener!OnePlace
  <2>1. posted \subseteq Messages
    BY DEF ListenerInv, ListenerTyped
  <2> QED BY <2>1, OneIdentity DEF Listener!OnePlace
<1>4. Listener!DirectMessagesAgree
  BY DEF ListenerInv, ModeKept, Listener!DirectMessagesAgree
<1> QED BY <1>1, <1>2, <1>3, <1>4

\* The listener and the router lose no message that is meant for the bot,
\* handle it once, and name one place for its conversation, its answer and its
\* history, whatever is posted, delivered again or restarted.
THEOREM MessagesAreHandled ==
    Listener!Spec => [](/\ Listener!AddressedIsKept /\ Listener!HandledOnce
                        /\ Listener!OnePlace /\ Listener!DirectMessagesAgree)
<1>1. Listener!Init => ListenerInv
  BY InitListenerInv
<1>2. ListenerInv /\ [Listener!Next]_(Listener!vars) => ListenerInv'
  BY ListenerNextKeeps
<1>3. ListenerInv => /\ Listener!AddressedIsKept /\ Listener!HandledOnce
                     /\ Listener!OnePlace /\ Listener!DirectMessagesAgree
  BY ListenerInvGives
<1> QED BY <1>1, <1>2, <1>3, PTL DEF Listener!Spec

-----------------------------------------------------------------------------
(* THE EXECUTABLE OF OPENCODE                                                *)

-----------------------------------------------------------------------------
(* The count of invocations. A call holds one, or two in a step of its       *)
(* workflow, so the count is that of those who hold one and of those who     *)
(* hold another.                                                             *)

One == {o \in Operations : held[o] \in {1, 2}}
Two == {o \in Operations : held[o] = 2}

Counted ==
    /\ IsFiniteSet(One) /\ IsFiniteSet(Two)
    /\ active = Cardinality(One) + Cardinality(Two)

HoldsAsPlaced(o) ==
    /\ operationPc[o] \notin Coordinator!Using => held[o] = 0
    /\ operationPc[o] \in Coordinator!Using => held[o] \in {1, 2}
    /\ operationPc[o] = "steps" => held[o] = 1 /\ action[o] = "workflow"
    /\ held[o] = 2 => action[o] = "workflow"

Placed == \A o \in Operations : HoldsAsPlaced(o)

AInv == Coordinator!TypeOK /\ Counted /\ Placed

\* A step that takes no invocation and gives none back.
LEMMA SameCount ==
    ASSUME Counted, UNCHANGED <<active, held>>
    PROVE  Counted'
BY DEF Counted, One, Two

\* Taking an invocation, the first one or that of a step.
LEMMA TakeOne ==
    ASSUME Coordinator!TypeOK, Counted, NEW o \in Operations, active' = active + 1,
           held' = [held EXCEPT ![o] = @ + 1], held[o] \in {0, 1}
    PROVE  Counted' /\ active' \in Nat
<1>1. CASE held[o] = 0
  <2>1. One' = One \cup {o} /\ o \notin One /\ Two' = Two
    BY <1>1 DEF One, Two, Coordinator!TypeOK
  <2>2. IsFiniteSet(One') /\ Cardinality(One') = Cardinality(One) + 1
    BY <2>1, FS_AddElement DEF Counted
  <2>3. Cardinality(One) \in Nat /\ Cardinality(Two) \in Nat
    BY FS_CardinalityType DEF Counted
  <2> QED BY <2>1, <2>2, <2>3 DEF Counted
<1>2. CASE held[o] = 1
  <2>1. One' = One /\ Two' = Two \cup {o} /\ o \notin Two
    BY <1>2 DEF One, Two, Coordinator!TypeOK
  <2>2. IsFiniteSet(Two') /\ Cardinality(Two') = Cardinality(Two) + 1
    BY <2>1, FS_AddElement DEF Counted
  <2>3. Cardinality(One) \in Nat /\ Cardinality(Two) \in Nat
    BY FS_CardinalityType DEF Counted
  <2> QED BY <2>1, <2>2, <2>3 DEF Counted
<1> QED BY <1>1, <1>2

\* Giving back the one invocation of a call.
LEMMA GiveOne ==
    ASSUME Coordinator!TypeOK, Counted, NEW o \in Operations, held[o] = 1, active' = active - 1,
           held' = [held EXCEPT ![o] = 0]
    PROVE  Counted' /\ active' \in Nat
<1>1. One' = One \ {o} /\ o \in One /\ Two' = Two
  BY DEF One, Two, Coordinator!TypeOK
<1>2. IsFiniteSet(One') /\ Cardinality(One') = Cardinality(One) - 1
  BY <1>1, FS_RemoveElement DEF Counted
<1>3. Cardinality(One') \in Nat /\ Cardinality(One) \in Nat /\ Cardinality(Two) \in Nat
  BY <1>2, FS_CardinalityType DEF Counted
<1> QED BY <1>1, <1>2, <1>3 DEF Counted

\* Giving back what a step holds beside its call.
LEMMA GiveTwo ==
    ASSUME Coordinator!TypeOK, Counted, NEW o \in Operations, held[o] \in {1, 2},
           active' = active - (held[o] - 1), held' = [held EXCEPT ![o] = 1]
    PROVE  Counted' /\ active' \in Nat
<1>1. CASE held[o] = 1
  <2>1. One' = One /\ Two' = Two /\ active' = active
    BY <1>1 DEF One, Two, Coordinator!TypeOK
  <2> QED BY <2>1 DEF Counted, Coordinator!TypeOK
<1>2. CASE held[o] = 2
  <2>1. One' = One /\ Two' = Two \ {o} /\ o \in Two
    BY <1>2 DEF One, Two, Coordinator!TypeOK
  <2>2. IsFiniteSet(Two') /\ Cardinality(Two') = Cardinality(Two) - 1
    BY <2>1, FS_RemoveElement DEF Counted
  <2>3. Cardinality(One) \in Nat /\ Cardinality(Two) \in Nat /\ Cardinality(Two') \in Nat
    BY <2>2, FS_CardinalityType DEF Counted
  <2> QED BY <1>2, <2>1, <2>2, <2>3 DEF Counted
<1> QED BY <1>1, <1>2

\* An upgrade begins when the count is zero, and so when nothing is held.
LEMMA NoneHeld ==
    ASSUME Coordinator!TypeOK, Counted, Placed, active = 0
    PROVE  \A o \in Operations : held[o] = 0
<1>1. Cardinality(One) \in Nat /\ Cardinality(Two) \in Nat
  BY FS_CardinalityType DEF Counted
<1>2. Cardinality(One) = 0
  BY <1>1 DEF Counted
<1>3. One = {}
  BY <1>2, FS_EmptySet DEF Counted
<1> QED BY <1>3 DEF One, Placed, HoldsAsPlaced

\* An upgrade leaves the invocations alone.
LEMMA ManagingKeepsCount ==
    ASSUME AInv, NEW o \in Operations, UNCHANGED <<active, held, processes>>,
           NEW place \in {"idle"} \cup Coordinator!Maintaining,
           operationPc' = [operationPc EXCEPT ![o] = place],
           operationPc[o] \in {"idle"} \cup Coordinator!Maintaining,
           \/ action' = action
           \/ \E a \in Coordinator!Managements \cup {"run"} : action' = [action EXCEPT ![o] = a],
           maintenance' \in BOOLEAN, binary' \in Versions, prior' \subseteq Versions,
           before' \in [Operations -> SUBSET Versions]
    PROVE  AInv'
<1>1. Counted'
  BY SameCount DEF AInv
<1>2. operationPc' \in [Operations -> {"idle"} \cup Coordinator!Using \cup Coordinator!Maintaining]
  BY DEF AInv, Coordinator!TypeOK
<1>3. action' \in [Operations -> Coordinator!Invocations \cup Coordinator!Managements]
  BY DEF AInv, Coordinator!TypeOK, Coordinator!Invocations
<1>4. Coordinator!TypeOK'
  BY <1>2, <1>3 DEF AInv, Coordinator!TypeOK
<1>5. operationPc[o] \notin Coordinator!Using /\ place \notin Coordinator!Using
  BY DEF Coordinator!Using, Coordinator!Maintaining
<1>6. held[o] = 0
  BY <1>5 DEF AInv, Placed, HoldsAsPlaced
<1>7. ASSUME NEW p \in Operations, p # o
      PROVE  operationPc'[p] = operationPc[p] /\ action'[p] = action[p]
  BY <1>7 DEF AInv, Coordinator!TypeOK
<1>8. operationPc'[o] = place
  BY DEF AInv, Coordinator!TypeOK
<1>9. Placed'
  BY <1>5, <1>6, <1>7, <1>8 DEF AInv, Placed, HoldsAsPlaced, Coordinator!Using
<1> QED BY <1>1, <1>4, <1>9 DEF AInv

\* A call that uses the executable moves itself only.
LEMMA UsingKeepsCount ==
    ASSUME AInv, NEW o \in Operations, Counted', active' \in Nat,
           NEW place, operationPc' = [operationPc EXCEPT ![o] = place],
           place \in {"idle"} \cup Coordinator!Using,
           \/ action' = action
           \/ \E a \in Coordinator!Invocations : action' = [action EXCEPT ![o] = a],
           \/ held' = held
           \/ \E n \in Nat : held' = [held EXCEPT ![o] = n],
           UNCHANGED <<maintenance, binary, prior, before>>, processes' \subseteq Operations,
           HoldsAsPlaced(o)'
    PROVE  AInv'
<1>1. operationPc' \in [Operations -> {"idle"} \cup Coordinator!Using \cup Coordinator!Maintaining]
  BY DEF AInv, Coordinator!TypeOK
<1>2. action' \in [Operations -> Coordinator!Invocations \cup Coordinator!Managements]
  BY DEF AInv, Coordinator!TypeOK
<1>3. held' \in [Operations -> Nat]
  BY DEF AInv, Coordinator!TypeOK
<1>4. Coordinator!TypeOK'
  BY <1>1, <1>2, <1>3 DEF AInv, Coordinator!TypeOK
<1>5. ASSUME NEW p \in Operations, p # o
      PROVE  operationPc'[p] = operationPc[p] /\ action'[p] = action[p] /\ held'[p] = held[p]
  BY <1>5 DEF AInv, Coordinator!TypeOK
<1>6. Placed'
  BY <1>5 DEF AInv, Placed, HoldsAsPlaced
<1> QED BY <1>4, <1>6 DEF AInv

\* Every step keeps the count, and the place of a call says what it holds.
LEMMA StepKeepsCount == AInv /\ [Coordinator!Next]_(Coordinator!vars) => AInv'
<1> SUFFICES ASSUME AInv, [Coordinator!Next]_(Coordinator!vars) PROVE AInv'
  OBVIOUS
<1>0. Coordinator!TypeOK /\ Counted /\ Placed
  BY DEF AInv
<1>1. ASSUME NEW o \in Operations, NEW a \in Coordinator!Invocations, Coordinator!Invoke(o, a)
      PROVE  AInv'
  <2>1. held[o] = 0
    BY <1>0, <1>1 DEF Coordinator!Invoke, Placed, HoldsAsPlaced, Coordinator!Using
  <2>2. Counted' /\ active' \in Nat
    BY <1>0, <1>1, <2>1, TakeOne DEF Coordinator!Invoke, Coordinator!TryInvocation
  <2>3. held' = [held EXCEPT ![o] = 1] /\ action' = [action EXCEPT ![o] = a]
    BY <1>1, <2>1 DEF Coordinator!Invoke, Coordinator!TryInvocation
  <2>4. PICK place : /\ operationPc' = [operationPc EXCEPT ![o] = place]
                     /\ place = IF a = "workflow" THEN "steps" ELSE "launch"
    BY <1>1 DEF Coordinator!Invoke, Coordinator!Goto
  <2>5. operationPc'[o] = place /\ held'[o] = 1 /\ action'[o] = a
    BY <1>0, <2>3, <2>4 DEF Coordinator!TypeOK
  <2>6. HoldsAsPlaced(o)' /\ place \in {"idle"} \cup Coordinator!Using
    BY <2>4, <2>5 DEF HoldsAsPlaced, Coordinator!Using
  <2>7. UNCHANGED <<maintenance, binary, prior, before>> /\ processes' \subseteq Operations
    BY <1>0, <1>1 DEF Coordinator!Invoke, Coordinator!TryInvocation, Coordinator!TypeOK
  <2> QED BY <2>2, <2>3, <2>4, <2>6, <2>7, UsingKeepsCount
<1>2. ASSUME NEW o \in Operations, Coordinator!Step(o) PROVE AInv'
  <2>1. held[o] = 1 /\ action[o] = "workflow"
    BY <1>0, <1>2 DEF Coordinator!Step, Placed, HoldsAsPlaced, Coordinator!Using
  <2>2. /\ Counted' /\ active' \in Nat /\ maintenance' = maintenance
        /\ held' = held \/ held' = [held EXCEPT ![o] = 2]
    <3>1. CASE Coordinator!TryInvocation(o)
      <4>1. Counted' /\ active' \in Nat
        BY <1>0, <2>1, <3>1, TakeOne DEF Coordinator!TryInvocation
      <4>2. held' = [held EXCEPT ![o] = 2]
        BY <2>1, <3>1 DEF Coordinator!TryInvocation
      <4> QED BY <3>1, <4>1, <4>2 DEF Coordinator!TryInvocation
    <3>2. CASE UNCHANGED <<active, maintenance, held>>
      BY <1>0, <3>2, SameCount DEF Coordinator!TypeOK
    <3> QED BY <1>2, <3>1, <3>2 DEF Coordinator!Step
  <2>3. operationPc' = [operationPc EXCEPT ![o] = "launch"] /\ action' = action
    BY <1>2 DEF Coordinator!Step, Coordinator!Goto
  <2>4. operationPc'[o] = "launch" /\ held'[o] \in {1, 2} /\ action'[o] = "workflow"
    BY <1>0, <2>1, <2>2, <2>3 DEF Coordinator!TypeOK
  <2>5. HoldsAsPlaced(o)' /\ "launch" \in {"idle"} \cup Coordinator!Using
    BY <2>4 DEF HoldsAsPlaced, Coordinator!Using
  <2>6. UNCHANGED <<maintenance, binary, prior, before>> /\ processes' \subseteq Operations
    BY <1>0, <1>2, <2>2 DEF Coordinator!Step, Coordinator!TypeOK
  <2> QED BY <2>2, <2>3, <2>5, <2>6, UsingKeepsCount
<1>3. ASSUME NEW o \in Operations, Coordinator!Launch(o) \/ Coordinator!Terminate(o) PROVE AInv'
  <2>1. Counted' /\ active' \in Nat /\ held' = held /\ action' = action
    BY <1>0, <1>3, SameCount DEF Coordinator!Launch, Coordinator!Terminate, Coordinator!TypeOK
  <2>2. PICK place \in {"use", "release"} : operationPc' = [operationPc EXCEPT ![o] = place]
    BY <1>3 DEF Coordinator!Launch, Coordinator!Terminate, Coordinator!Goto
  <2>3. held[o] \in {1, 2} /\ (held[o] = 2 => action[o] = "workflow")
    BY <1>0, <1>3 DEF Coordinator!Launch, Coordinator!Terminate, Placed, HoldsAsPlaced,
                      Coordinator!Using
  <2>4. operationPc'[o] = place
    BY <1>0, <2>2 DEF Coordinator!TypeOK
  <2>5. HoldsAsPlaced(o)' /\ place \in {"idle"} \cup Coordinator!Using
    BY <2>1, <2>3, <2>4 DEF HoldsAsPlaced, Coordinator!Using
  <2>6. UNCHANGED <<maintenance, binary, prior, before>> /\ processes' \subseteq Operations
    BY <1>0, <1>3 DEF Coordinator!Launch, Coordinator!Terminate, Coordinator!TypeOK
  <2> QED BY <2>1, <2>2, <2>5, <2>6, UsingKeepsCount
<1>5. ASSUME NEW o \in Operations, Coordinator!Release(o) PROVE AInv'
  <2>1. UNCHANGED <<maintenance, binary, prior, before>> /\ processes' \subseteq Operations
    BY <1>0, <1>5 DEF Coordinator!Release, Coordinator!TypeOK
  <2>2. CASE operationPc[o] = "release" /\ action[o] = "workflow"
    <3>1. held[o] \in {1, 2}
      BY <1>0, <2>2 DEF Placed, HoldsAsPlaced, Coordinator!Using
    <3>2. /\ active' = active - (held[o] - 1)
          /\ held' = [held EXCEPT ![o] = 1]
          /\ operationPc' = [operationPc EXCEPT ![o] = "steps"] /\ action' = action
      BY <1>5, <2>2 DEF Coordinator!Release, Coordinator!Goto
    <3>3. Counted' /\ active' \in Nat
      BY <1>0, <3>1, <3>2, GiveTwo
    <3>4. operationPc'[o] = "steps" /\ held'[o] = 1 /\ action'[o] = "workflow"
      BY <1>0, <2>2, <3>2 DEF Coordinator!TypeOK
    <3>5. HoldsAsPlaced(o)' /\ "steps" \in {"idle"} \cup Coordinator!Using
      BY <3>4 DEF HoldsAsPlaced, Coordinator!Using
    <3> QED BY <2>1, <3>2, <3>3, <3>5, UsingKeepsCount
  <2>3. CASE ~(operationPc[o] = "release" /\ action[o] = "workflow")
    <3>1. held[o] = 1
      BY <1>0, <1>5, <2>3 DEF Coordinator!Release, Placed, HoldsAsPlaced, Coordinator!Using
    <3>2. /\ active' = active - 1
          /\ held' = [held EXCEPT ![o] = 0]
          /\ operationPc' = [operationPc EXCEPT ![o] = "idle"]
          /\ action' = [action EXCEPT ![o] = "run"]
      BY <1>5, <2>3, <3>1 DEF Coordinator!Release, Coordinator!Goto
    <3>3. Counted' /\ active' \in Nat
      BY <1>0, <3>1, <3>2, GiveOne
    <3>4. operationPc'[o] = "idle" /\ held'[o] = 0
      BY <1>0, <3>2 DEF Coordinator!TypeOK
    <3>5. HoldsAsPlaced(o)' /\ "run" \in Coordinator!Invocations
      BY <3>4 DEF HoldsAsPlaced, Coordinator!Using, Coordinator!Invocations
    <3> QED BY <2>1, <3>2, <3>3, <3>5, UsingKeepsCount
  <2> QED BY <2>2, <2>3
<1>6. ASSUME NEW o \in Operations, NEW a \in Coordinator!Managements, Coordinator!Manage(o, a)
      PROVE  AInv'
  BY <1>0, <1>6, ManagingKeepsCount DEF Coordinator!Manage, Coordinator!TryMaintenance,
                                        Coordinator!Goto, Coordinator!Maintaining,
                                        Coordinator!TypeOK
<1>7. ASSUME NEW o \in Operations, Coordinator!Fail(o) PROVE AInv'
  <2>1. binary' \in Versions
    BY <1>0, <1>7 DEF Coordinator!Fail, Coordinator!TypeOK
  <2> QED BY <1>0, <1>7, <2>1, ManagingKeepsCount DEF Coordinator!Fail, Coordinator!Goto,
                                                      Coordinator!Maintaining, Coordinator!TypeOK
<1>8. ASSUME NEW o \in Operations, Coordinator!Version(o) PROVE AInv'
  <2>1. prior' \subseteq Versions /\ before' \in [Operations -> SUBSET Versions]
    BY <1>0, <1>8 DEF Coordinator!Version, Coordinator!TypeOK
  <2> QED BY <1>0, <1>8, <2>1, ManagingKeepsCount DEF Coordinator!Version, Coordinator!Goto,
                                                      Coordinator!Maintaining, Coordinator!TypeOK
<1>9. ASSUME NEW o \in Operations, Coordinator!Install(o) PROVE AInv'
  <2>1. binary' \in Versions
    BY <1>0, <1>9 DEF Coordinator!Install, Coordinator!TypeOK
  <2> QED BY <1>0, <1>9, <2>1, ManagingKeepsCount DEF Coordinator!Install, Coordinator!Goto,
                                                      Coordinator!Maintaining, Coordinator!TypeOK
<1>10. ASSUME NEW o \in Operations, NEW passes \in BOOLEAN, Coordinator!Verify(o, passes)
       PROVE  AInv'
  <2>1. PICK place \in {"unlock", "restore"} : operationPc' = [operationPc EXCEPT ![o] = place]
    BY <1>10 DEF Coordinator!Verify, Coordinator!Goto
  <2> QED BY <1>0, <1>10, <2>1, ManagingKeepsCount DEF Coordinator!Verify, Coordinator!Maintaining,
                                                       Coordinator!TypeOK
<1>11. ASSUME NEW o \in Operations, Coordinator!Restore(o) PROVE AInv'
  <2>1. binary' \in Versions
    BY <1>0, <1>11 DEF Coordinator!Restore, Coordinator!TypeOK
  <2> QED BY <1>0, <1>11, <2>1, ManagingKeepsCount DEF Coordinator!Restore, Coordinator!Goto,
                                                       Coordinator!Maintaining, Coordinator!TypeOK
<1>12. ASSUME NEW o \in Operations, NEW passes \in BOOLEAN, Coordinator!Reverify(o, passes)
       PROVE  AInv'
  BY <1>0, <1>12, ManagingKeepsCount DEF Coordinator!Reverify, Coordinator!Goto,
                                         Coordinator!Maintaining, Coordinator!TypeOK
<1>13. ASSUME NEW o \in Operations, Coordinator!Unlock(o) PROVE AInv'
  <2>1. before' \in [Operations -> SUBSET Versions]
    BY <1>0, <1>13 DEF Coordinator!Unlock, Coordinator!TypeOK
  <2> QED BY <1>0, <1>13, <2>1, ManagingKeepsCount DEF Coordinator!Unlock, Coordinator!Goto,
                                                       Coordinator!Maintaining, Coordinator!TypeOK
<1>14. CASE UNCHANGED Coordinator!vars
  BY <1>14 DEF Coordinator!vars, AInv, Coordinator!TypeOK, Counted, Placed, HoldsAsPlaced, One, Two
<1> QED
  BY <1>1, <1>2, <1>3, <1>5, <1>6, <1>7, <1>8, <1>9, <1>10, <1>11, <1>12, <1>13, <1>14
     DEF Coordinator!Next, Coordinator!Operation

-----------------------------------------------------------------------------
(* One operation at a time replaces the executable, while nothing is held.   *)

Alone ==
    /\ maintenance => \A o \in Operations : held[o] = 0
    /\ \A o \in Operations : operationPc[o] \in Coordinator!Maintaining => maintenance
    /\ \A o, p \in Operations :
        operationPc[o] \in Coordinator!Maintaining /\ operationPc[p] \in Coordinator!Maintaining
            => o = p
    /\ processes \subseteq {o \in Operations : operationPc[o] = "use"}

MInv == AInv /\ Alone

\* A call that holds an invocation meets no upgrade.
LEMMA UsingKeepsAlone ==
    ASSUME MInv, NEW o \in Operations, operationPc[o] \in {"idle"} \cup Coordinator!Using,
           NEW place \in {"idle"} \cup Coordinator!Using,
           operationPc' = [operationPc EXCEPT ![o] = place],
           maintenance' = maintenance,
           maintenance => held' = held,
           processes' \subseteq processes \cup {o},
           o \in processes' => place = "use"
    PROVE  Alone'
<1>1. \A p \in Operations : p # o => operationPc'[p] = operationPc[p]
  BY DEF MInv, AInv, Coordinator!TypeOK
<1>2. operationPc'[o] = place
  BY DEF MInv, AInv, Coordinator!TypeOK
<1>3. place \notin Coordinator!Maintaining
  BY DEF Coordinator!Using, Coordinator!Maintaining
<1>4. processes' \subseteq {p \in Operations : operationPc'[p] = "use"}
  BY <1>1, <1>2 DEF MInv, Alone
<1> QED BY <1>1, <1>2, <1>3, <1>4 DEF MInv, Alone

\* An upgrade goes on, or ends.
LEMMA ManagingKeepsAlone ==
    ASSUME MInv, NEW o \in Operations, operationPc[o] \in Coordinator!Maintaining,
           NEW place \in {"idle"} \cup Coordinator!Maintaining,
           operationPc' = [operationPc EXCEPT ![o] = place],
           maintenance' = (place # "idle"), UNCHANGED <<held, processes>>
    PROVE  Alone'
<1>1. \A p \in Operations : p # o =>
          operationPc'[p] = operationPc[p] /\ operationPc[p] \notin Coordinator!Maintaining
  BY DEF MInv, AInv, Coordinator!TypeOK, Alone
<1>2. /\ operationPc'[o] = place /\ "idle" \notin Coordinator!Maintaining
      /\ "use" \notin Coordinator!Maintaining
  BY DEF MInv, AInv, Coordinator!TypeOK, Coordinator!Maintaining
<1>3. maintenance
  BY DEF MInv, Alone
<1>4. processes' \subseteq {p \in Operations : operationPc'[p] = "use"}
  BY <1>1, <1>2 DEF MInv, Alone
<1>5. \A p \in Operations : operationPc'[p] \in Coordinator!Maintaining => p = o /\ place # "idle"
  BY <1>1, <1>2
<1> QED BY <1>3, <1>4, <1>5 DEF MInv, Alone

\* Every step leaves an upgrade alone with the executable.
LEMMA StepKeepsAlone == MInv /\ [Coordinator!Next]_(Coordinator!vars) => MInv'
<1> SUFFICES ASSUME MInv, [Coordinator!Next]_(Coordinator!vars) PROVE MInv'
  OBVIOUS
<1>0. Coordinator!TypeOK /\ Counted /\ Placed /\ Alone
  BY DEF MInv, AInv
<1>a. AInv'
  BY StepKeepsCount DEF MInv
<1> SUFFICES Alone'
  BY <1>a DEF MInv
<1>b. \A o \in Operations : operationPc[o] # "use" => o \notin processes
  BY <1>0 DEF Alone
<1>1. ASSUME NEW o \in Operations, NEW a \in Coordinator!Invocations, Coordinator!Invoke(o, a)
      PROVE  Alone'
  <2>1. PICK place \in {"steps", "launch"} : operationPc' = [operationPc EXCEPT ![o] = place]
    BY <1>1 DEF Coordinator!Invoke, Coordinator!Goto
  <2>2. place \in {"idle"} \cup Coordinator!Using /\ o \notin processes /\ processes' = processes
    BY <1>1, <1>b DEF Coordinator!Using, Coordinator!Invoke
  <2> QED BY <1>1, <2>1, <2>2, UsingKeepsAlone DEF Coordinator!Invoke, Coordinator!TryInvocation
<1>2. ASSUME NEW o \in Operations, Coordinator!Step(o) PROVE Alone'
  <2>1. /\ maintenance' = maintenance /\ (maintenance => held' = held)
        /\ operationPc' = [operationPc EXCEPT ![o] = "launch"]
    BY <1>2 DEF Coordinator!Step, Coordinator!TryInvocation, Coordinator!Goto
  <2>2. o \notin processes /\ processes' = processes
    BY <1>2, <1>b DEF Coordinator!Step
  <2> QED BY <1>2, <2>1, <2>2, UsingKeepsAlone DEF Coordinator!Step, Coordinator!Using
<1>3. ASSUME NEW o \in Operations, Coordinator!Launch(o) PROVE Alone'
  <2>1. PICK place \in {"use", "release"} :
            /\ operationPc' = [operationPc EXCEPT ![o] = place]
            /\ processes' = IF place = "use" THEN processes \cup {o} ELSE processes
    BY <1>3 DEF Coordinator!Launch, Coordinator!Goto
  <2>2. o \notin processes
    BY <1>3, <1>b DEF Coordinator!Launch
  <2> QED BY <1>3, <2>1, <2>2, UsingKeepsAlone DEF Coordinator!Launch, Coordinator!Using
<1>4. ASSUME NEW o \in Operations, Coordinator!Terminate(o) PROVE Alone'
  BY <1>4, UsingKeepsAlone DEF Coordinator!Terminate, Coordinator!Goto, Coordinator!Using
<1>5. ASSUME NEW o \in Operations, Coordinator!Release(o) PROVE Alone'
  <2>1. PICK place \in {"steps", "idle"} : operationPc' = [operationPc EXCEPT ![o] = place]
    BY <1>5 DEF Coordinator!Release, Coordinator!Goto
  <2>2. ~maintenance
    BY <1>0, <1>5 DEF Coordinator!Release, Alone, Placed, HoldsAsPlaced, Coordinator!Using
  <2>3. o \notin processes /\ processes' = processes
    BY <1>5, <1>b DEF Coordinator!Release
  <2> QED BY <1>5, <2>1, <2>2, <2>3, UsingKeepsAlone DEF Coordinator!Release, Coordinator!Using
<1>6. ASSUME NEW o \in Operations, NEW a \in Coordinator!Managements, Coordinator!Manage(o, a)
      PROVE  Alone'
  <2>1. ~maintenance /\ maintenance' = TRUE /\ UNCHANGED <<held, processes>>
    BY <1>6 DEF Coordinator!Manage, Coordinator!TryMaintenance
  <2>2. \A p \in Operations : held[p] = 0 /\ operationPc[p] \notin Coordinator!Maintaining
    BY <1>0, <1>6, <2>1, NoneHeld DEF Coordinator!Manage, Coordinator!TryMaintenance, Alone
  <2>3. \A p \in Operations : p # o => operationPc'[p] = operationPc[p]
    BY <1>0, <1>6 DEF Coordinator!Manage, Coordinator!Goto, Coordinator!TypeOK
  <2>4. processes' \subseteq {p \in Operations : operationPc'[p] = "use"}
    BY <1>0, <1>6, <1>b, <2>1, <2>3 DEF Coordinator!Manage, Alone
  <2> QED BY <2>1, <2>2, <2>3, <2>4 DEF Alone
<1>7. ASSUME NEW o \in Operations,
             Coordinator!Fail(o) \/ Coordinator!Version(o)
                 \/ Coordinator!Install(o) \/ Coordinator!Restore(o)
                 \/ \E passes \in BOOLEAN :
                        Coordinator!Verify(o, passes) \/ Coordinator!Reverify(o, passes)
      PROVE  Alone'
  <2>1. PICK place \in Coordinator!Maintaining : operationPc' = [operationPc EXCEPT ![o] = place]
    BY <1>7 DEF Coordinator!Fail, Coordinator!Version, Coordinator!Install, Coordinator!Restore,
                Coordinator!Verify, Coordinator!Reverify, Coordinator!Goto, Coordinator!Maintaining
  <2>2. operationPc[o] \in Coordinator!Maintaining /\ UNCHANGED <<maintenance, held, processes>>
    BY <1>7 DEF Coordinator!Fail, Coordinator!Version, Coordinator!Install, Coordinator!Restore,
                Coordinator!Verify, Coordinator!Reverify, Coordinator!Maintaining
  <2>3. maintenance = TRUE /\ place # "idle"
    BY <1>0, <2>2 DEF Alone, Coordinator!TypeOK, Coordinator!Maintaining
  <2> QED BY <2>1, <2>2, <2>3, ManagingKeepsAlone
<1>8. ASSUME NEW o \in Operations, Coordinator!Unlock(o) PROVE Alone'
  BY <1>8, ManagingKeepsAlone DEF Coordinator!Unlock, Coordinator!Goto, Coordinator!Maintaining
<1>9. CASE UNCHANGED Coordinator!vars
  BY <1>0, <1>9 DEF Coordinator!vars, Alone
<1> QED
  BY <1>1, <1>2, <1>3, <1>4, <1>5, <1>6, <1>7, <1>8, <1>9 DEF Coordinator!Next,
                                                              Coordinator!Operation

\* The initial states.
LEMMA InitAlone == Coordinator!Init => MInv
<1> SUFFICES ASSUME Coordinator!Init PROVE MInv
  OBVIOUS
<1>1. One = {} /\ Two = {}
  BY DEF Coordinator!Init, One, Two
<1>2. Counted
  BY <1>1, FS_EmptySet DEF Coordinator!Init, Counted
<1>3. Coordinator!TypeOK
  BY DEF Coordinator!Init, Coordinator!TypeOK, Coordinator!Invocations
<1>4. Placed /\ Alone
  BY DEF Coordinator!Init, Placed, HoldsAsPlaced, Alone, Coordinator!Using, Coordinator!Maintaining
<1> QED BY <1>2, <1>3, <1>4 DEF MInv, AInv

\* The variables keep their types: the count of invocations is a number, and
\* it is that of the calls that are invoked.
THEOREM CoordinatorKeepsTypes == Coordinator!Spec => []Coordinator!TypeOK
<1>1. MInv => Coordinator!TypeOK
  BY DEF MInv, AInv
<1> QED BY <1>1, InitAlone, StepKeepsAlone, PTL DEF Coordinator!Spec

\* While the executable may be replaced, one operation replaces it and nobody
\* else is anywhere: not a call, nor a workflow, nor a step of one.
THEOREM UpgradesAreAlone == Coordinator!Spec => []Coordinator!MaintenanceIsAlone
<1>1. MInv => Coordinator!MaintenanceIsAlone
  <2> SUFFICES ASSUME MInv, NEW o \in Operations, operationPc[o] \in Coordinator!Maintaining
               PROVE  /\ maintenance
                      /\ processes = {}
                      /\ \A other \in Operations \ {o} : operationPc[other] = "idle"
    BY DEF Coordinator!MaintenanceIsAlone
  <2>1. maintenance /\ \A p \in Operations : held[p] = 0
    BY DEF MInv, Alone
  <2>2. ASSUME NEW p \in Operations, operationPc[p] \in Coordinator!Using PROVE FALSE
    <3>1. held[p] = 0
      BY <2>1
    <3>2. held[p] \in {1, 2}
      BY <2>2 DEF MInv, AInv, Placed, HoldsAsPlaced
    <3> QED BY <3>1, <3>2
  <2>3. processes = {}
    BY <2>2 DEF MInv, Alone, Coordinator!Using
  <2>4. \A p \in Operations \ {o} : operationPc[p] = "idle"
    BY <2>2 DEF MInv, AInv, Coordinator!TypeOK, Alone
  <2> QED BY <2>1, <2>3, <2>4
<1> QED BY <1>1, InitAlone, StepKeepsAlone, PTL DEF Coordinator!Spec

-----------------------------------------------------------------------------
(* What an upgrade answers. Nobody else moves the executable or the noted    *)
(* version meanwhile, so an upgrade that is rolled back ends where it began. *)

Answers == [verdict : {"none", "failed", "done", "rolled back", "unverified"},
            version : SUBSET Versions]

HonestAt(o) ==
    /\ operationPc[o] \in Coordinator!Maintaining => action[o] \in Coordinator!Managements
    /\ operationPc[o] \in {"install", "verify", "restore", "reverify"} /\ action[o] = "upgrade" =>
           \E v \in Versions : prior = {v} /\ before[o] = {v}
    /\ operationPc[o] \in {"restore", "reverify"} => action[o] = "upgrade"
    /\ operationPc[o] = "reverify" => prior = {binary}
    /\ operationPc[o] = "unlock" =>
           /\ result[o].verdict \in {"done", "rolled back", "unverified"} =>
                  result[o].version = {binary}
           /\ result[o].verdict \in {"rolled back", "unverified"} => {binary} = before[o]

Honest ==
    /\ result \in [Operations -> Answers]
    /\ \A o \in Operations : HonestAt(o)

\* The calls that use the executable change nothing an upgrade answers from.
LEMMA UsingKeepsHonest ==
    ASSUME MInv, Honest, NEW o \in Operations, NEW place \in {"idle"} \cup Coordinator!Using,
           operationPc' = [operationPc EXCEPT ![o] = place],
           \/ action' = action
           \/ \E a \in Coordinator!Invocations : action' = [action EXCEPT ![o] = a],
           UNCHANGED <<binary, prior, before, result>>
    PROVE  Honest'
<1>1. ASSUME NEW p \in Operations, p # o
      PROVE  operationPc'[p] = operationPc[p] /\ action'[p] = action[p]
  BY <1>1 DEF MInv, AInv, Coordinator!TypeOK
<1>2. operationPc'[o] = place /\ place \notin Coordinator!Maintaining
  BY DEF MInv, AInv, Coordinator!TypeOK, Coordinator!Using, Coordinator!Maintaining
<1>3. HonestAt(o)'
  BY <1>2 DEF HonestAt, Coordinator!Maintaining
<1>4. ASSUME NEW p \in Operations, p # o PROVE HonestAt(p)'
  BY <1>1, <1>4 DEF Honest, HonestAt
<1> QED BY <1>3, <1>4 DEF Honest

\* A step of an upgrade concerns itself only.
LEMMA ManagingKeepsHonest ==
    ASSUME MInv', NEW o \in Operations, operationPc'[o] \in Coordinator!Maintaining,
           result' \in [Operations -> Answers], HonestAt(o)'
    PROVE  Honest'
<1>1. ASSUME NEW p \in Operations, p # o PROVE operationPc'[p] \notin Coordinator!Maintaining
  BY <1>1 DEF MInv, Alone
<1>2. ASSUME NEW p \in Operations, p # o PROVE HonestAt(p)'
  BY <1>1, <1>2 DEF HonestAt, Coordinator!Maintaining
<1> QED BY <1>2 DEF Honest

\* Every step keeps what an upgrade answers true.
LEMMA StepKeepsHonest == MInv /\ Honest /\ [Coordinator!Next]_(Coordinator!vars) => Honest'
<1> SUFFICES ASSUME MInv, Honest, [Coordinator!Next]_(Coordinator!vars) PROVE Honest'
  OBVIOUS
<1>0. Coordinator!TypeOK /\ Alone /\ MInv'
  BY StepKeepsAlone DEF MInv, AInv
<1>1. ASSUME NEW o \in Operations, NEW a \in Coordinator!Invocations, Coordinator!Invoke(o, a)
      PROVE  Honest'
  <2>1. PICK place \in {"steps", "launch"} : operationPc' = [operationPc EXCEPT ![o] = place]
    BY <1>1 DEF Coordinator!Invoke, Coordinator!Goto
  <2> QED BY <1>1, <2>1, UsingKeepsHonest DEF Coordinator!Invoke, Coordinator!Using
<1>2. ASSUME NEW o \in Operations,
                 Coordinator!Step(o) \/ Coordinator!Launch(o) \/ Coordinator!Terminate(o)
      PROVE  Honest'
  <2>1. PICK place \in {"launch", "use", "release"} :
            operationPc' = [operationPc EXCEPT ![o] = place]
    BY <1>2 DEF Coordinator!Step, Coordinator!Launch, Coordinator!Terminate, Coordinator!Goto
  <2> QED BY <1>2, <2>1, UsingKeepsHonest DEF Coordinator!Step, Coordinator!Launch,
                                              Coordinator!Terminate, Coordinator!Using
<1>3. ASSUME NEW o \in Operations, Coordinator!Release(o) PROVE Honest'
  <2>1. PICK place \in {"steps", "idle"} : operationPc' = [operationPc EXCEPT ![o] = place]
    BY <1>3 DEF Coordinator!Release, Coordinator!Goto
  <2>2. action' = action \/ action' = [action EXCEPT ![o] = "run"]
    BY <1>3 DEF Coordinator!Release
  <2> QED BY <1>3, <2>1, <2>2, UsingKeepsHonest DEF Coordinator!Release, Coordinator!Using,
                                                    Coordinator!Invocations
<1>4. ASSUME NEW o \in Operations, NEW a \in Coordinator!Managements, Coordinator!Manage(o, a)
      PROVE  Honest'
  <2>1. operationPc'[o] = "version" /\ action'[o] = a /\ result' = result
    BY <1>0, <1>4 DEF Coordinator!Manage, Coordinator!Goto, Coordinator!TypeOK,
                      Coordinator!Managements
  <2>2. HonestAt(o)'
    BY <2>1 DEF HonestAt
  <2> QED BY <1>0, <2>1, <2>2, ManagingKeepsHonest DEF Honest, Coordinator!Maintaining
<1>5. ASSUME NEW o \in Operations, Coordinator!Fail(o) PROVE Honest'
  <2>1. /\ operationPc'[o] = "unlock" /\ action'[o] = action[o]
        /\ operationPc[o] \in Coordinator!Maintaining
    BY <1>0, <1>5 DEF Coordinator!Fail, Coordinator!Goto, Coordinator!TypeOK,
                      Coordinator!Maintaining
  <2>2. result' \in [Operations -> Answers] /\ result'[o].verdict = "failed"
    BY <1>5 DEF Coordinator!Fail, Coordinator!Says, Honest, Answers
  <2>3. HonestAt(o)'
    BY <2>1, <2>2 DEF HonestAt, Honest, Coordinator!Maintaining
  <2> QED BY <1>0, <2>1, <2>2, <2>3, ManagingKeepsHonest DEF Coordinator!Maintaining
<1>6. ASSUME NEW o \in Operations, Coordinator!Version(o) PROVE Honest'
  <2>1. /\ operationPc'[o] = "install" /\ action'[o] = action[o]
        /\ operationPc[o] \in Coordinator!Maintaining
    BY <1>0, <1>6 DEF Coordinator!Version, Coordinator!Goto, Coordinator!TypeOK,
                      Coordinator!Maintaining
  <2>2. before'[o] = {binary} /\ binary \in Versions /\ result' = result
    BY <1>0, <1>6 DEF Coordinator!Version, Coordinator!TypeOK
  <2>3. action[o] = "upgrade" => prior' = {binary}
    BY <1>6 DEF Coordinator!Version
  <2>4. HonestAt(o)'
    BY <2>1, <2>2, <2>3 DEF HonestAt, Honest, Coordinator!Maintaining
  <2> QED BY <1>0, <2>1, <2>2, <2>4, ManagingKeepsHonest DEF Honest, Coordinator!Maintaining
<1>7. ASSUME NEW o \in Operations, Coordinator!Install(o) PROVE Honest'
  <2>1. operationPc'[o] = "verify" /\ operationPc[o] = "install"
    BY <1>0, <1>7 DEF Coordinator!Install, Coordinator!Goto, Coordinator!TypeOK
  <2>2. UNCHANGED <<prior, action, before, result>>
    BY <1>7 DEF Coordinator!Install
  <2>3. HonestAt(o)'
    BY <2>1, <2>2 DEF HonestAt, Honest, Coordinator!Maintaining
  <2> QED BY <1>0, <2>1, <2>2, <2>3, ManagingKeepsHonest DEF Honest, Coordinator!Maintaining
<1>8. ASSUME NEW o \in Operations, NEW passes \in BOOLEAN, Coordinator!Verify(o, passes)
      PROVE  Honest'
  <2>1. UNCHANGED <<binary, prior, action, before>> /\ operationPc[o] = "verify" /\ HonestAt(o)
    BY <1>8 DEF Coordinator!Verify, Honest
  <2>2. CASE passes
    <3>1. /\ operationPc'[o] = "unlock"
          /\ result' = [result EXCEPT ![o] = [verdict |-> "done", version |-> {binary}]]
      BY <1>0, <1>8, <2>2 DEF Coordinator!Verify, Coordinator!Goto, Coordinator!Says,
                              Coordinator!TypeOK
    <3>2. /\ result' \in [Operations -> Answers] /\ result'[o].verdict = "done"
          /\ result'[o].version = {binary}
      BY <1>0, <3>1 DEF Honest, Answers, Coordinator!TypeOK
    <3>3. HonestAt(o)'
      BY <2>1, <3>1, <3>2 DEF HonestAt, Coordinator!Maintaining
    <3> QED BY <1>0, <3>1, <3>2, <3>3, ManagingKeepsHonest DEF Coordinator!Maintaining
  <2>3. CASE ~passes /\ action[o] = "rollback"
    <3>1. /\ operationPc'[o] = "unlock"
          /\ result' = [result EXCEPT ![o] = [verdict |-> "failed", version |-> {}]]
      BY <1>0, <1>8, <2>3 DEF Coordinator!Verify, Coordinator!Goto, Coordinator!Says,
                              Coordinator!TypeOK
    <3>2. result' \in [Operations -> Answers] /\ result'[o].verdict = "failed"
      BY <1>0, <3>1 DEF Honest, Answers
    <3>3. HonestAt(o)'
      BY <2>1, <3>1, <3>2 DEF HonestAt, Coordinator!Maintaining
    <3> QED BY <1>0, <3>1, <3>2, <3>3, ManagingKeepsHonest DEF Coordinator!Maintaining
  <2>4. CASE ~passes /\ action[o] # "rollback"
    <3>1. operationPc'[o] = "restore" /\ result' = result
      BY <1>0, <1>8, <2>4 DEF Coordinator!Verify, Coordinator!Goto, Coordinator!TypeOK
    <3>2. action[o] = "upgrade"
      BY <2>1, <2>4 DEF HonestAt, Coordinator!Maintaining, Coordinator!Managements
    <3>3. HonestAt(o)'
      BY <2>1, <3>1, <3>2 DEF HonestAt, Coordinator!Maintaining
    <3> QED BY <1>0, <3>1, <3>3, ManagingKeepsHonest DEF Honest, Coordinator!Maintaining
  <2> QED BY <2>2, <2>3, <2>4
<1>9. ASSUME NEW o \in Operations, Coordinator!Restore(o) PROVE Honest'
  <2>1. operationPc'[o] = "reverify" /\ operationPc[o] = "restore" /\ HonestAt(o)
    BY <1>0, <1>9 DEF Coordinator!Restore, Coordinator!Goto, Coordinator!TypeOK, Honest
  <2>2. binary' \in prior /\ UNCHANGED <<prior, action, before, result>>
    BY <1>9 DEF Coordinator!Restore
  <2>3. HonestAt(o)'
    BY <2>1, <2>2 DEF HonestAt, Coordinator!Maintaining
  <2> QED BY <1>0, <2>1, <2>2, <2>3, ManagingKeepsHonest DEF Honest, Coordinator!Maintaining
<1>10. ASSUME NEW o \in Operations, NEW passes \in BOOLEAN, Coordinator!Reverify(o, passes)
       PROVE  Honest'
  <2>1. UNCHANGED <<binary, prior, action, before>> /\ operationPc[o] = "reverify" /\ HonestAt(o)
    BY <1>10 DEF Coordinator!Reverify, Honest
  <2>2. PICK answer \in {"rolled back", "unverified"} :
            result' = [result EXCEPT ![o] = [verdict |-> answer, version |-> {binary}]]
    BY <1>10 DEF Coordinator!Reverify, Coordinator!Says
  <2>3. operationPc'[o] = "unlock"
    BY <1>0, <1>10 DEF Coordinator!Reverify, Coordinator!Goto, Coordinator!TypeOK
  <2>4. result' \in [Operations -> Answers] /\ result'[o].version = {binary}
    BY <1>0, <2>2 DEF Honest, Answers, Coordinator!TypeOK
  <2>5. before[o] = {binary} /\ action[o] = "upgrade"
    BY <2>1 DEF HonestAt
  <2>6. HonestAt(o)'
    BY <2>1, <2>3, <2>4, <2>5 DEF HonestAt, Coordinator!Managements
  <2> QED BY <1>0, <2>3, <2>4, <2>6, ManagingKeepsHonest DEF Coordinator!Maintaining
<1>11. ASSUME NEW o \in Operations, Coordinator!Unlock(o) PROVE Honest'
  <2>1. \A p \in Operations : operationPc'[p] \notin Coordinator!Maintaining
    BY <1>0, <1>11 DEF Coordinator!Unlock, Coordinator!Goto, Alone, Coordinator!TypeOK,
                       Coordinator!Maintaining
  <2>2. result' \in [Operations -> Answers]
    BY <1>11 DEF Coordinator!Unlock, Coordinator!Says, Honest, Answers
  <2>3. \A p \in Operations : HonestAt(p)'
    BY <2>1 DEF HonestAt, Coordinator!Maintaining
  <2> QED BY <2>2, <2>3 DEF Honest
<1>12. CASE UNCHANGED Coordinator!vars
  BY <1>12 DEF Coordinator!vars, Honest, HonestAt
<1> QED
  BY <1>1, <1>2, <1>3, <1>4, <1>5, <1>6, <1>7, <1>8, <1>9, <1>10, <1>11, <1>12
     DEF Coordinator!Next, Coordinator!Operation

\* What an upgrade or a rollback answers was so when it answered, whatever
\* failed before and whatever calls went on around it.
THEOREM AnswersAreTrue == Coordinator!Spec => []Coordinator!VerdictIsTrue
<1>1. Coordinator!Init => Honest
  <2> SUFFICES ASSUME Coordinator!Init PROVE Honest
    OBVIOUS
  <2>1. \A o \in Operations : HonestAt(o)
    BY DEF Coordinator!Init, HonestAt, Coordinator!Maintaining
  <2> QED BY <2>1 DEF Coordinator!Init, Honest, Answers
<1>2. Honest => Coordinator!VerdictIsTrue
  BY DEF Honest, HonestAt, Coordinator!VerdictIsTrue
<1> QED BY <1>1, <1>2, InitAlone, StepKeepsAlone, StepKeepsHonest, PTL DEF Coordinator!Spec

-----------------------------------------------------------------------------
(* THE COMPONENTS TOGETHER                                                   *)

\* A step of LastingState is a step of one component and a stutter of the
\* others.
LEMMA LastingIsComponents ==
    LastingSpec => Adk!Spec /\ Listener!Spec /\ Coordinator!Spec /\ Spec
<1>1. LastingInit => Adk!Init /\ Listener!Init /\ Coordinator!Init /\ Init
  BY DEF LastingInit
<1>2. [LastingNext]_lastingVars => /\ [Adk!Next]_(Adk!vars)
                                   /\ [Listener!Next]_(Listener!vars)
                                   /\ [Coordinator!Next]_(Coordinator!vars)
                                   /\ [Next]_vars
  <2>1. /\ UNCHANGED sessionVars => UNCHANGED Adk!vars
        /\ UNCHANGED listenerVars => UNCHANGED Listener!vars
        /\ UNCHANGED coordinatorVars => UNCHANGED Coordinator!vars
    BY DEF sessionVars, Adk!vars, Adk!database, Adk!local, listenerVars, Listener!vars,
           coordinatorVars, Coordinator!vars
  <2> QED
    BY <2>1 DEF LastingNext, SessionStep, ListenerStep, CoordinatorStep, StreamStep,
                ConfirmationStep, lastingVars
<1> QED BY <1>1, <1>2, PTL DEF LastingSpec, Adk!Spec, Listener!Spec, Coordinator!Spec, Spec

\* The variables of every component keep their types.
THEOREM LastingKeepsTypes == LastingSpec => []AllTypesOK
<1>1. Adk!TypeOK /\ Coordinator!TypeOK /\ TypeOK => AllTypesOK
  BY DEF AllTypesOK
<1> QED
  BY <1>1, LastingIsComponents, SessionsTypeCorrect, CoordinatorKeepsTypes, TypeCorrect, PTL

\* A session never holds events of two provider families.
THEOREM LastingFamiliesNeverMix == LastingSpec => []FamiliesNeverMix
<1>1. Adk!FamiliesNeverMix => FamiliesNeverMix
  BY DEF FamiliesNeverMix
<1> QED BY <1>1, LastingIsComponents, SessionsAreOfOneFamily, PTL

\* Sessions are logs that turns append to when they have seen them to the end.
THEOREM LastingIsLogged == LastingSpec => ImplementsLog
BY LastingIsComponents, SessionsAreLogs, PTL DEF ImplementsLog

\* What is meant for the bot is handled once, in one conversation.
THEOREM LastingIsAddressed == LastingSpec => []AddressedIsHandled
<1>1. Listener!AddressedIsKept /\ Listener!HandledOnce /\ Listener!OnePlace
        /\ Listener!DirectMessagesAgree => AddressedIsHandled
  BY DEF AddressedIsHandled
<1> QED BY <1>1, LastingIsComponents, MessagesAreHandled, PTL

\* Nothing runs while the executable is replaced, and what is said of it is so.
THEOREM LastingUpgradesAlone == LastingSpec => []UpgradeIsAlone
<1>1. Coordinator!MaintenanceIsAlone /\ Coordinator!VerdictIsTrue => UpgradeIsAlone
  BY DEF UpgradeIsAlone
<1> QED BY <1>1, LastingIsComponents, UpgradesAreAlone, AnswersAreTrue, PTL
=============================================================================
