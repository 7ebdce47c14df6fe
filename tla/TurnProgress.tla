---------------------------- MODULE TurnProgress ----------------------------
(* The progress message of a question asked in a threaded direct message:   *)
(* beginProgress, updateProgress and ReconcileProgress in                   *)
(* usecase/bot/service.go, the rows of adapter/sqlite/standard_agent.go and *)
(* the messages of adapter/slack/standard_publisher.go. A row and a message *)
(* follow the handler of the question and then that of its confirmation,    *)
(* which looks for the row by its conversation alone. One conversation is   *)
(* modelled; the handlers are cut down to what they do to the progress.     *)
EXTENDS Naturals

CONSTANTS
    Questions,
    Fallible,   \* the questions calls about which may fail
    MaxStarts   \* bound on the starts, but for one after a start that gave up

VARIABLES
    row,            \* the stored state of a question, "none" without a row
    rowTs,          \* questions whose row has the timestamp of its message
    newer,          \* newer[q]: of what waits, what has a later updated_at than q
    shown,          \* the label of the message, "none" without one
    act,            \* the local state of every handler, see Idle
    asked,          \* questions that have been asked
    undecided,      \* questions with a confirmation to decide
    phase,          \* "down", "reconciling" or "serving"
    starts,         \* times the program was started
    shared,         \* questions whose row two handlers have held at once
    trouble         \* questions a call about which failed since the last start

storeVars == <<row, rowTs, newer>>
turnVars == <<asked, undecided>>
processVars == <<phase, starts>>
vars == <<storeVars, shown, act, turnVars, processVars, shared, trouble>>

Terminal == {"cleared", "failed", "interrupted"}
Unfinished == {"working", "waiting_confirmation", "finalizing"}
Actors == {"ask", "resume", "start"} \X Questions

\* A handler: where it stands, the operation it holds, its copy of the state,
\* whether its copy has a timestamp, and where an update returns to.
Idle == [pc |-> "idle", op |-> {}, mine |-> "none", ts |-> FALSE, next |-> "idle"]

Goto(h, label) == IF label = "idle" THEN Idle ELSE [h EXCEPT !.pc = label]

Init ==
    /\ row = [q \in Questions |-> "none"]
    /\ rowTs = {}
    /\ newer = [q \in Questions |-> {}]
    /\ shown = [q \in Questions |-> "none"]
    /\ act = [a \in Actors |-> Idle]
    /\ asked = {}
    /\ undecided = {}
    /\ phase = "serving"
    /\ starts = 1
    /\ shared = {}
    /\ trouble = {}

Set(a, h) == act' = [act EXCEPT ![a] = h]

\* A call about a question fails.
Trouble(q) == q \in Fallible /\ trouble' = trouble \cup {q}

Waits(q) == row[q] = "waiting_confirmation"

\* The row is written with the state, and is the last that was.
Write(q, state) ==
    /\ row' = [row EXCEPT ![q] = state]
    /\ newer' = [o \in Questions |->
                    CASE o = q -> {}
                      [] o # q /\ Waits(o) /\ state = "waiting_confirmation" -> newer[o] \cup {q}
                      [] OTHER -> newer[o] \ {q}]

\* updateProgress: nothing is done without an operation, or once its state is
\* terminal; the copy has the state before Slack is asked.
UpdateProgress(h, state, next) ==
    IF h.op = {} \/ h.mine \in Terminal THEN Goto(h, next)
    ELSE [h EXCEPT !.pc = IF h.ts THEN "slack" ELSE "store", !.mine = state, !.next = next]

\* Mutant: the state is stored whether or not Slack took it.
SlackUpdateUnchecked(a) ==
    /\ act[a].pc = "slack"
    /\ \E q \in act[a].op : \E applied \in BOOLEAN :
          /\ shown' = IF applied THEN [shown EXCEPT ![q] = act[a].mine] ELSE shown
          /\ Set(a, [act[a] EXCEPT !.pc = "store"])
          /\ IF applied THEN UNCHANGED trouble ELSE Trouble(q)
    /\ UNCHANGED <<storeVars, turnVars, processVars, shared>>

\* An update that fails may have been applied; it is not stored then.
SlackUpdate(a) ==
    /\ act[a].pc = "slack"
    /\ \E q \in act[a].op : \E applied \in BOOLEAN, fails \in BOOLEAN :
          /\ applied \/ fails
          /\ shown' = IF applied THEN [shown EXCEPT ![q] = act[a].mine] ELSE shown
          /\ Set(a, IF fails THEN Goto(act[a], act[a].next) ELSE [act[a] EXCEPT !.pc = "store"])
          /\ IF fails THEN Trouble(q) ELSE UNCHANGED trouble
    /\ UNCHANGED <<storeVars, turnVars, processVars, shared>>

SetProgressState(a) ==
    /\ act[a].pc = "store"
    /\ \E q \in act[a].op :
          \/ /\ Write(q, act[a].mine)
             /\ UNCHANGED trouble
          \/ /\ a[1] # "start" \/ act[a].ts
             /\ Trouble(q)
             /\ UNCHANGED <<row, newer>>
    /\ Set(a, Goto(act[a], act[a].next))
    /\ UNCHANGED <<rowTs, shown, turnVars, processVars, shared>>

------------------------------------------------------------------------------
(* The handler of a question                                                *)

Ask(q) == <<"ask", q>>

\* beginProgress. Without a row the question has no progress.
CreateProgress(q) ==
    /\ phase = "serving"
    /\ q \notin asked
    /\ asked' = asked \cup {q}
    /\ \/ /\ Write(q, "working")
          /\ Set(Ask(q), [Idle EXCEPT !.pc = "post", !.op = {q}, !.mine = "working"])
       \/ /\ Set(Ask(q), [Idle EXCEPT !.pc = "model"])
          /\ UNCHANGED <<row, newer>>
    /\ UNCHANGED <<rowTs, shown, undecided, processVars, shared, trouble>>

\* When the post fails, posted or not, the operation is let go.
PublishProgress(q) ==
    /\ act[Ask(q)].pc = "post"
    /\ \E posted \in BOOLEAN, fails \in BOOLEAN :
          /\ posted \/ fails
          /\ shown' = IF posted THEN [shown EXCEPT ![q] = "working"] ELSE shown
          /\ IF fails THEN Trouble(q) ELSE UNCHANGED trouble
          /\ Set(Ask(q), IF fails THEN [Idle EXCEPT !.pc = "model"]
                         ELSE [act[Ask(q)] EXCEPT !.pc = "mark", !.ts = TRUE])
    /\ UNCHANGED <<storeVars, turnVars, processVars, shared>>

MarkProgressPublished(q) ==
    /\ act[Ask(q)].pc = "mark"
    /\ \/ rowTs' = rowTs \cup {q} /\ Write(q, row[q]) /\ UNCHANGED trouble
       \/ Trouble(q) /\ UNCHANGED storeVars
    /\ Set(Ask(q), Goto(act[Ask(q)], "model"))
    /\ UNCHANGED <<shown, turnVars, processVars, shared>>

\* The turn fails, answers or asks; or its stream cannot be prepared.
RunTurn(q) ==
    /\ act[Ask(q)].pc = "model"
    /\ \/ \E u \in {<<"failed", "idle">>, <<"finalizing", "finalize">>, <<"waiting_confirmation", "confirm">>} :
             Set(Ask(q), UpdateProgress(act[Ask(q)], u[1], u[2]))
          /\ UNCHANGED trouble
       \/ Set(Ask(q), Idle) /\ Trouble(q)
    /\ UNCHANGED <<storeVars, shown, turnVars, processVars, shared>>

FinalizeTurn(q) ==
    /\ act[Ask(q)].pc = "finalize"
    /\ \E state \in {"cleared", "failed"} : Set(Ask(q), UpdateProgress(act[Ask(q)], state, "idle"))
    /\ UNCHANGED <<storeVars, shown, turnVars, processVars, shared, trouble>>

\* handlePendingConfirmation: once the prompt is out it can be decided, before
\* it is marked as published too; then, marking it fails.
PublishConfirmation(q) ==
    /\ act[Ask(q)].pc = "confirm"
    /\ \/ undecided' = undecided \cup {q} /\ Set(Ask(q), Goto(act[Ask(q)], "prompted"))
       \/ UNCHANGED undecided /\ Set(Ask(q), UpdateProgress(act[Ask(q)], "failed", "idle"))
    /\ UNCHANGED <<storeVars, shown, asked, processVars, shared, trouble>>

MarkPublished(q) ==
    /\ act[Ask(q)].pc = "prompted"
    /\ \/ q \in undecided /\ Set(Ask(q), Idle)
       \/ Set(Ask(q), UpdateProgress(act[Ask(q)], "failed", "idle"))
    /\ UNCHANGED <<storeVars, shown, turnVars, processVars, shared, trouble>>

------------------------------------------------------------------------------
(* The handler of a decision                                                *)

Resume(q) == <<"resume", q>>

DecideConfirmation(q) ==
    /\ phase = "serving"
    /\ q \in undecided /\ act[Resume(q)] = Idle
    /\ undecided' = undecided \ {q}
    /\ Set(Resume(q), [Idle EXCEPT !.pc = "find"])
    /\ UNCHANGED <<storeVars, shown, asked, processVars, shared, trouble>>

HeldBy(q) == {a \in Actors : act[a].op = {q}}

\* waitingProgress: the latest of the conversation that waits, whosever it is.
FindWaitingProgress(q) ==
    /\ act[Resume(q)].pc = "find"
    /\ \/ \E o \in Questions :
              /\ Waits(o) /\ \A later \in newer[o] : ~Waits(later)
              /\ Set(Resume(q), UpdateProgress(
                     [act[Resume(q)] EXCEPT !.op = {o}, !.mine = row[o], !.ts = o \in rowTs],
                     "working", "resume"))
              /\ shared' = IF HeldBy(o) # {} THEN shared \cup {o} ELSE shared
       \/ /\ Set(Resume(q), Goto(act[Resume(q)], "resume"))
          /\ UNCHANGED shared
    /\ UNCHANGED <<storeVars, shown, turnVars, processVars, trouble>>

ResumeTurn(q) ==
    /\ act[Resume(q)].pc = "resume"
    /\ \E u \in {<<"failed", "idle">>, <<"finalizing", "publish">>} :
          Set(Resume(q), UpdateProgress(act[Resume(q)], u[1], u[2]))
    /\ UNCHANGED <<storeVars, shown, turnVars, processVars, shared, trouble>>

PublishResult(q) ==
    /\ act[Resume(q)].pc = "publish"
    /\ \E state \in {"cleared", "failed"} :
          Set(Resume(q), UpdateProgress(act[Resume(q)], state, "idle"))
    /\ UNCHANGED <<storeVars, shown, turnVars, processVars, shared, trouble>>

------------------------------------------------------------------------------
(* A crash, and ReconcileProgress before the next run serves                *)

Crash ==
    /\ phase # "down" /\ starts < MaxStarts
    /\ act' = [a \in Actors |-> Idle]
    /\ phase' = "down"
    /\ UNCHANGED <<storeVars, shown, turnVars, starts, shared, trouble>>

Start(q) == <<"start", q>>

\* ListRecoverableProgress
StartReconcile ==
    /\ phase = "down"
    /\ phase' = "reconciling"
    /\ starts' = starts + 1
    /\ trouble' = {}
    /\ LET listed == {q \in Questions : row[q] \in Unfinished}
       IN  act' = [a \in Actors |->
                     IF a[1] = "start" /\ a[2] \in listed
                     THEN [Idle EXCEPT !.pc = "listed", !.op = {a[2]}, !.mine = row[a[2]],
                                       !.ts = a[2] \in rowTs]
                     ELSE Idle]
    /\ UNCHANGED <<storeVars, shown, turnVars, shared>>

\* One operation is looked at after the other.
InTurn(q) == \A o \in Questions : o # q => act[Start(o)].pc \in {"idle", "listed"}

\* Mutant: what waits for a confirmation and what does not are left as they are.
SettledStateKept(h) == h.mine

SettledState(h) ==
    IF h.mine = "waiting_confirmation" THEN "waiting_confirmation" ELSE "interrupted"

\* A message no timestamp of which is stored is looked for in the history.
RecoverProgress(q) ==
    LET h == act[Start(q)]
    IN  /\ h.pc = "listed" /\ InTurn(q) /\ ~h.ts
        /\ IF shown[q] = "none"
           THEN /\ Set(Start(q), UpdateProgress(h, SettledState(h), "idle"))
                /\ UNCHANGED storeVars
           ELSE /\ Set(Start(q), [h EXCEPT !.ts = TRUE])
                /\ rowTs' = rowTs \cup {q}
                /\ Write(q, row[q])
        /\ UNCHANGED <<shown, turnVars, processVars, shared, trouble>>

ReconcileOperation(q) ==
    LET h == act[Start(q)]
    IN  /\ h.pc = "listed" /\ InTurn(q) /\ h.ts
        /\ Set(Start(q), UpdateProgress(h, SettledState(h), "idle"))
        /\ UNCHANGED <<storeVars, shown, turnVars, processVars, shared, trouble>>

\* A failure to look for a message, or to store what that gave, ends the start.
AbortStart ==
    /\ phase = "reconciling" /\ starts <= MaxStarts
    /\ \E q \in Questions : act[Start(q)].pc \in {"listed", "store"} /\ ~act[Start(q)].ts /\ InTurn(q)
    /\ act' = [a \in Actors |-> Idle]
    /\ phase' = "down"
    /\ UNCHANGED <<storeVars, shown, turnVars, starts, shared, trouble>>

Serve ==
    /\ phase = "reconciling"
    /\ \A a \in Actors : act[a] = Idle
    /\ phase' = "serving"
    /\ UNCHANGED <<storeVars, shown, act, turnVars, starts, shared, trouble>>

Next ==
    \/ \E q \in Questions :
          \/ CreateProgress(q) \/ PublishProgress(q) \/ MarkProgressPublished(q)
          \/ RunTurn(q) \/ FinalizeTurn(q) \/ PublishConfirmation(q) \/ MarkPublished(q)
          \/ DecideConfirmation(q) \/ FindWaitingProgress(q) \/ ResumeTurn(q) \/ PublishResult(q)
          \/ RecoverProgress(q) \/ ReconcileOperation(q)
    \/ \E a \in Actors : SlackUpdate(a) \/ SetProgressState(a)
    \/ Crash \/ StartReconcile \/ AbortStart \/ Serve

Spec == Init /\ [][Next]_vars

------------------------------------------------------------------------------
(* Properties                                                               *)

\* The variables keep their types.
TypeOK ==
    /\ row \in [Questions -> {"none"} \cup Unfinished \cup Terminal]
    /\ shown \in [Questions -> {"none"} \cup Unfinished \cup Terminal]
    /\ rowTs \cup shared \cup trouble \cup undecided \subseteq Questions
    /\ \A a \in Actors : act[a].mine \in {"none"} \cup Unfinished \cup Terminal

\* As long as a message says that work goes on, its row is one that the next
\* start lists, whatever was refused, lost or cut short by a crash: the store
\* is never ahead of Slack (updateProgress). Not so of a row that two handlers
\* share, or without the timestamp of its message.
StaleIsListed ==
    \A q \in rowTs \ shared : shown[q] \in Unfinished => row[q] \in Unfinished

\* Once the program serves, a message says that work goes on only while a
\* handler is at it, unless a call about it has failed since the start
\* (ReconcileProgress).
NoStaleWork ==
    phase = "serving" =>
        \A q \in Questions \ (shared \cup trouble) :
            shown[q] \in {"working", "finalizing"} => HeldBy(q) # {}
=============================================================================
