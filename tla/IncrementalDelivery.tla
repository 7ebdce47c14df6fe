------------------------- MODULE IncrementalDelivery -------------------------
(* Answers that are streamed into Slack: usecase/bot/streaming.go, the      *)
(* standard_incremental_operations rows of adapter/sqlite/standard_agent.go *)
(* and the messages of adapter/slack/standard_publisher.go.                 *)
(*                                                                          *)
(* A turn prepares a row, creates one message with the first safe part of   *)
(* the text, edits it while the model goes on, and at the end edits the     *)
(* answer into it, whose metadata make it a message of the assistant        *)
(* exchange; or it writes over the part that nothing more will come. A      *)
(* start does that for the rows that are not finished.                      *)
(*                                                                          *)
(* Any statement may fail, any call to Slack may fail with or without its   *)
(* effect, and the process may die at any step. What the exchange does with *)
(* its intents is in AssistantExchange: here it is an intent that is open   *)
(* or recorded.                                                             *)
EXTENDS Naturals, Sequences

CONSTANT Turns

VARIABLES
    row,        \* row[t]: status column, "none" without a row
    ts,         \* ts[t]: message_ts, as an index of shown[t]; 0 is empty
    intent,     \* intent[t]: the assistant exchange, "none", "open", "recorded"
    shown,      \* shown[t]: the messages of the turn in Slack, oldest first
    pc,         \* pc[t]: where handleStreamingTurn stands
    seen,       \* seen[t]: operation.MessageTS in the handler or the start
    phase,      \* "down", "starting" (ReconcileIncremental runs) or "up"
    todo        \* the operations the start has listed and not left yet

rows == <<row, ts, intent>>
process == <<pc, seen, phase, todo>>
vars == <<rows, shown, process>>

Finished == {"finalized", "interrupted"}
Statuses == {"none", "prepared", "message_created", "updating", "unknown"}
                \cup Finished

\* "partial" is text that is still being written; "closed" says that it will
\* not go on; "answer" is the final text, "apology" a message in its place.
Texts == {"partial", "closed", "answer", "apology"}

Live == {"stream", "mark", "created", "updated", "lost", "interrupt", "close",
         "prepare", "finalize", "record", "complete", "giveup", "apologize"}

\* Mutant: the type of the metadata is not compared.
StreamedAny(t) == DOMAIN shown[t]

\* Messages with the metadata of this operation: FinalizeIncremental replaces
\* them by those of the exchange, and other posts do not have any.
Streamed(t) == {m \in DOMAIN shown[t] : shown[t][m] \in {"partial", "closed"}}

Init ==
    /\ row = [t \in Turns |-> "none"]
    /\ ts = [t \in Turns |-> 0]
    /\ intent = [t \in Turns |-> "none"]
    /\ shown = [t \in Turns |-> <<>>]
    /\ pc = [t \in Turns |-> "idle"]
    /\ seen = [t \in Turns |-> 0]
    /\ phase = "down"
    /\ todo = {}

Goto(t, place) ==
    /\ pc' = [pc EXCEPT ![t] = place]
    /\ UNCHANGED <<seen, phase, todo>>

SetRow(t, status) == row' = [row EXCEPT ![t] = status] /\ UNCHANGED <<ts, intent>>

Posted(t, text) == shown' = [shown EXCEPT ![t] = Append(@, text)]
Edited(t, text) == shown' = [shown EXCEPT ![t][seen[t]] = text]

------------------------------------------------------------------------------
(* handleStreamingTurn                                                      *)

\* Without its row there is no stream; the handler returns the error.
PrepareIncremental(t) ==
    /\ phase = "up"
    /\ pc[t] = "idle"
    /\ \/ SetRow(t, "prepared") /\ Goto(t, "stream")
       \/ Goto(t, "done") /\ UNCHANGED rows
    /\ UNCHANGED shown

\* Mutant: the next snapshot tries again.
CreateRetrying(t) ==
    /\ pc[t] = "stream"
    /\ seen[t] = 0
    /\ \/ /\ Posted(t, "partial")
          /\ pc' = [pc EXCEPT ![t] = "mark"]
          /\ seen' = [seen EXCEPT ![t] = Len(shown[t]) + 1]
          /\ UNCHANGED <<phase, todo>>
       \/ /\ Len(shown[t]) < 2
          /\ Posted(t, "partial") \/ UNCHANGED shown
          /\ Goto(t, "stream")
    /\ UNCHANGED rows

\* Mutant: the error of the call is not looked at.
CreateTrusting(t) ==
    /\ pc[t] = "stream"
    /\ seen[t] = 0
    /\ Posted(t, "partial") \/ UNCHANGED shown
    /\ pc' = [pc EXCEPT ![t] = "mark"]
    /\ seen' = [seen EXCEPT ![t] = Len(shown[t]) + 1]
    /\ UNCHANGED <<rows, phase, todo>>

\* The first snapshot: one message is posted. After an error the handler does
\* not know whether it is there.
CreateIncremental(t) ==
    /\ pc[t] = "stream"
    /\ seen[t] = 0
    /\ \/ /\ Posted(t, "partial")
          /\ pc' = [pc EXCEPT ![t] = "mark"]
          /\ seen' = [seen EXCEPT ![t] = Len(shown[t]) + 1]
          /\ UNCHANGED <<phase, todo>>
       \/ /\ Posted(t, "partial") \/ UNCHANGED shown
          /\ Goto(t, "lost")
    /\ UNCHANGED rows

\* The WHERE clause of MarkIncrementalCreated.
Unmarked(t) == row[t] = "prepared" /\ ts[t] = 0

MarkIncrementalCreated(t) ==
    /\ pc[t] = "mark"
    /\ \/ /\ Unmarked(t)
          /\ row' = [row EXCEPT ![t] = "message_created"]
          /\ ts' = [ts EXCEPT ![t] = seen[t]]
          /\ Goto(t, "created")
          /\ UNCHANGED intent
       \/ Goto(t, "lost") /\ UNCHANGED rows
    /\ UNCHANGED shown

\* A later snapshot; the text stays a part of the answer.
UpdateIncremental(t) ==
    /\ pc[t] = "stream"
    /\ seen[t] # 0
    /\ Goto(t, "updated") \/ Goto(t, "lost")
    /\ UNCHANGED <<rows, shown>>

\* The end of deliverIncremental.
AdvanceIncremental(t) ==
    /\ pc[t] \in {"created", "updated"}
    /\ \/ /\ SetRow(t, IF pc[t] = "created" THEN "message_created" ELSE "updating")
          /\ Goto(t, "stream")
       \/ Goto(t, "lost") /\ UNCHANGED rows
    /\ UNCHANGED shown

\* Mutant: a delivery that failed is taken for finished.
LoseForgetting(t) ==
    /\ pc[t] = "lost"
    /\ SetRow(t, "interrupted") \/ UNCHANGED rows
    /\ Goto(t, "done")
    /\ UNCHANGED shown

\* After a failed delivery the outcome is unknown, and so is the row if it can
\* still be written. Nothing replaces the message: it may be there.
Lose(t) ==
    /\ pc[t] = "lost"
    /\ SetRow(t, "unknown") \/ UNCHANGED rows
    /\ Goto(t, "done")
    /\ UNCHANGED shown

\* The terminal event, which the runtime always sends: an error, a confirmation,
\* a text that is empty or not the one that was streamed, or the answer. An
\* error before any text leads to an apology, the others but the answer to an
\* edit of what is there.
EndStream(t) ==
    /\ pc[t] = "stream"
    /\ \/ Goto(t, "interrupt")
       \/ Goto(t, "prepare")
       \/ seen[t] = 0 /\ Goto(t, "apologize")
    /\ UNCHANGED <<rows, shown>>

\* The row is closed first, then the model's error is told.
Apologize(t) ==
    /\ pc[t] = "apologize"
    /\ SetRow(t, "interrupted") \/ UNCHANGED rows
    /\ Posted(t, "apology") \/ UNCHANGED shown
    /\ Goto(t, "done")

------------------------------------------------------------------------------
(* interruptIncremental: the message, if there is one, says that it ends,   *)
(* then the row does; called by the turn and by the start.                  *)

Interrupt(t) ==
    /\ pc[t] = "interrupt"
    /\ \/ /\ seen[t] = 0
          /\ Goto(t, "close")
          /\ UNCHANGED <<rows, shown>>
       \/ /\ seen[t] # 0
          /\ Edited(t, "closed")
          /\ Goto(t, "close")
          /\ UNCHANGED rows
       \/ /\ seen[t] # 0
          /\ Edited(t, "closed") \/ UNCHANGED shown
          /\ Goto(t, "lost")
          /\ UNCHANGED rows

\* A failure of this statement is logged.
Close(t) ==
    /\ pc[t] = "close"
    /\ SetRow(t, "interrupted") \/ UNCHANGED rows
    /\ Goto(t, "done")
    /\ UNCHANGED shown

------------------------------------------------------------------------------
(* finalizeIncrementalTurn, where a message is there, and finalizeTurn,     *)
(* where none is.                                                           *)

PrepareAssistantExchange(t) ==
    /\ pc[t] = "prepare"
    /\ \/ /\ intent' = [intent EXCEPT ![t] = "open"]
          /\ Goto(t, "finalize")
          /\ UNCHANGED <<row, ts>>
       \/ /\ Goto(t, IF seen[t] = 0 THEN "giveup" ELSE "interrupt")
          /\ UNCHANGED rows
    /\ UNCHANGED shown

Answer(t) == IF seen[t] = 0 THEN Posted(t, "answer") ELSE Edited(t, "answer")

FinalizeIncremental(t) ==
    /\ pc[t] = "finalize"
    /\ \/ Answer(t) /\ Goto(t, "record")
       \/ /\ Answer(t) \/ UNCHANGED shown
          /\ Goto(t, IF seen[t] = 0 THEN "giveup" ELSE "lost")
    /\ UNCHANGED rows

\* MarkAssistantExchangePublished and FinalizeAssistantExchange; an intent the
\* reconciliation has consumed counts as recorded.
Recorded(t) ==
    /\ intent' = [intent EXCEPT ![t] = "recorded"]
    /\ UNCHANGED <<row, ts>>

\* Mutant: a failure is only logged.
FinalizeLogging(t) ==
    /\ pc[t] = "record"
    /\ Recorded(t) \/ UNCHANGED rows
    /\ Goto(t, "complete")
    /\ UNCHANGED shown

\* After a failure a streamed answer leaves its row as it is.
FinalizeAssistantExchange(t) ==
    /\ pc[t] = "record"
    /\ \/ Recorded(t) /\ Goto(t, "complete")
       \/ Goto(t, IF seen[t] = 0 THEN "giveup" ELSE "done") /\ UNCHANGED rows
    /\ UNCHANGED shown

Complete(t) ==
    /\ pc[t] = "complete"
    /\ SetRow(t, "finalized") \/ UNCHANGED rows
    /\ Goto(t, "done")
    /\ UNCHANGED shown

\* A turn that never showed a part and whose answer did not come about.
GiveUp(t) ==
    /\ pc[t] = "giveup"
    /\ SetRow(t, "interrupted") \/ UNCHANGED rows
    /\ Goto(t, "done")
    /\ UNCHANGED shown

\* The worker, or the start before it looks at streams, finds an answer by its
\* metadata.  Whether it does is left open: the finder passes over messages
\* that are marked as edited, and Slack may mark what FinalizeIncremental edits.
ReconcileAssistantExchange(t) ==
    /\ phase # "down"
    /\ intent[t] = "open"
    /\ \E m \in DOMAIN shown[t] : shown[t][m] = "answer"
    /\ Recorded(t)
    /\ UNCHANGED <<shown, process>>

------------------------------------------------------------------------------
(* ReconcileIncremental: the start, before events are accepted.             *)

\* The process ends, whether it dies or an error ends Run: handlers are gone.
Stop ==
    /\ phase' = "down"
    /\ pc' = [t \in Turns |-> IF pc[t] = "idle" THEN "idle" ELSE "done"]
    /\ seen' = [t \in Turns |-> 0]
    /\ todo' = {}

Crash == phase # "down" /\ Stop /\ UNCHANGED <<rows, shown>>

ListUnfinishedIncremental ==
    /\ phase = "down"
    /\ phase' = "starting"
    /\ todo' = {t \in Turns : row[t] \notin Finished \cup {"none"}}
    /\ UNCHANGED <<rows, shown, pc, seen>>

Busy == \E t \in Turns : pc[t] \in Live \cup {"remark"}

\* One operation after the other is looked up by its metadata.  Not to find it
\* finishes it; an error, or a second message with its metadata, ends the start.
\* A timestamp that is stored is used in place of the one that is found.
RecoverIncremental(t) ==
    /\ phase = "starting"
    /\ t \in todo
    /\ ~Busy
    /\ \/ /\ Streamed(t) = {}
          /\ SetRow(t, "interrupted")
          /\ todo' = todo \ {t}
          /\ UNCHANGED <<pc, seen, phase>>
       \/ \E m \in Streamed(t) :
              /\ Streamed(t) = {m}
              /\ seen' = [seen EXCEPT ![t] = IF ts[t] = 0 THEN m ELSE ts[t]]
              /\ pc' = [pc EXCEPT ![t] = IF ts[t] = 0 THEN "remark" ELSE "interrupt"]
              /\ todo' = todo \ {t}
              /\ UNCHANGED <<rows, phase>>
       \/ Stop /\ UNCHANGED rows
    /\ UNCHANGED shown

\* MarkIncrementalCreated of the start: no affected row is an error here, since
\* the message_ts that is read back is empty.
RemarkIncremental(t) ==
    /\ pc[t] = "remark"
    /\ \/ /\ Unmarked(t)
          /\ row' = [row EXCEPT ![t] = "message_created"]
          /\ ts' = [ts EXCEPT ![t] = seen[t]]
          /\ Goto(t, "interrupt")
          /\ UNCHANGED intent
       \/ Stop /\ UNCHANGED rows
    /\ UNCHANGED shown

StartListening ==
    /\ phase = "starting"
    /\ todo = {}
    /\ ~Busy
    /\ phase' = "up"
    /\ UNCHANGED <<rows, shown, pc, seen, todo>>

Turn(t) ==
    \/ PrepareIncremental(t) \/ CreateIncremental(t) \/ MarkIncrementalCreated(t)
    \/ UpdateIncremental(t) \/ AdvanceIncremental(t) \/ Lose(t)
    \/ EndStream(t) \/ Apologize(t) \/ Interrupt(t) \/ Close(t)
    \/ PrepareAssistantExchange(t) \/ FinalizeIncremental(t)
    \/ FinalizeAssistantExchange(t) \/ Complete(t) \/ GiveUp(t)

Next ==
    \/ \E t \in Turns : Turn(t) \/ ReconcileAssistantExchange(t)
    \/ \E t \in Turns : RecoverIncremental(t) \/ RemarkIncremental(t)
    \/ ListUnfinishedIncremental \/ StartListening \/ Crash

Spec == Init /\ [][Next]_vars

------------------------------------------------------------------------------
(* Properties                                                               *)

TypeOK ==
    /\ row \in [Turns -> Statuses]
    /\ ts \in [Turns -> Nat] /\ \A t \in Turns : ts[t] \in {0} \cup DOMAIN shown[t]
    /\ intent \in [Turns -> {"none", "open", "recorded"}]
    /\ shown \in [Turns -> Seq(Texts)]
    /\ pc \in [Turns -> Live \cup {"idle", "remark", "done"}]
    /\ seen \in [Turns -> Nat] /\ \A t \in Turns : seen[t] \in {0} \cup DOMAIN shown[t]
    /\ phase \in {"down", "starting", "up"}
    /\ todo \subseteq Turns

\* However a delivery fails, a turn speaks once: no apology and no second answer
\* stands beside a message that may be there.
OneMessage == \A t \in Turns : Len(shown[t]) <= 1

\* An answer that Slack has is not written over, neither by the turn that does
\* not know of it nor by the start that finds its row unfinished.
AnswerStays ==
    [][\A t \in Turns : \A m \in DOMAIN shown[t] :
           shown[t][m] = "answer" => m \in DOMAIN shown'[t] /\ shown'[t][m] = "answer"]_vars

\* Text that nobody writes on any more still has a row that the next start
\* looks at, through every error and crash.
PartIsFound ==
    \A t \in Turns : (\E m \in DOMAIN shown[t] : shown[t][m] = "partial")
        => row[t] \notin Finished \cup {"none"}

\* A row is finalized only when Slack shows the answer and the conversation has
\* recorded it.
FinalizedIsAnswered ==
    \A t \in Turns : row[t] = "finalized" =>
        intent[t] = "recorded" /\ \E m \in DOMAIN shown[t] : shown[t][m] = "answer"

\* A turn speaks once, what it has not finished is found, and what it has is kept.
StreamIsFound == OneMessage /\ PartIsFound /\ FinalizedIsAnswered

\* MarkIncrementalCreated says "standard incremental message conflicts with
\* persisted identity": the start is refused only for a row that has another
\* message.
ConflictIsReal == \A t \in Turns : pc[t] = "remark" => Unmarked(t)
=============================================================================
