--------------------------- MODULE CanvasCreation ---------------------------
(* The confirmed create_canvas tool: its handler in toolfactory.go, the     *)
(* operation in usecase/canvas/service.go, the canvas_operations rows of    *)
(* adapter/sqlite/canvas_store.go and the call of canvas_creator.go.        *)
(*                                                                          *)
(* A call names an operation, the digest of its conversation and of the     *)
(* identifier the model gave the call, so calls may repeat an operation,    *)
(* with the same arguments or others, one after the other or at once. Any   *)
(* statement may fail, the context of a call may be cancelled at any step,  *)
(* Slack may answer late or not at all, and the process may die.            *)
EXTENDS Naturals, Sequences, FiniteSets

CONSTANTS
    Calls,      \* executions of the handler
    Ops,        \* operation identifiers
    Actors,     \* users who may confirm
    Documents,  \* arguments of a call, see PrepareCanvas
    MaxTitleChars, MaxContentChars, MaxCanvasBytes, MaxTableCells

VARIABLES
    status,     \* status[o]: the status column, "none" without a row
    owner,      \* owner[o]: the actor and document of the row
    canvasID,   \* canvasID[o]: the canvas_id column, 0 when empty
    canvases,   \* the canvases in Slack, in the order of their creation
    consents,   \* what users have approved: [op, actor, doc]
    pc,         \* pc[c]: where CreateCanvas stands in a call
    ask,        \* ask[c]: what the call asks for: [op, actor, doc]
    found,      \* found[c]: the canvas the call holds, 0 before
    verdict,    \* verdict[c]: the status the call is about to write
    cancelled   \* the calls whose context is cancelled

rows == <<status, owner, canvasID>>
process == <<pc, ask, found, verdict, cancelled>>
vars == <<rows, canvases, consents, process>>

Asks == [op : Ops, actor : Actors, doc : Documents]

Statuses == {"none", "ready", "creating", "completed", "failed", "unknown"}

------------------------------------------------------------------------------
(* The arguments                                                            *)

\* validateCanvasLinks: mentions of users and channels are not links.
LinksAllowed(links) ==
    links \subseteq {"mention", "http host", "https host", "mailto address"}

\* validateCanvasTables: no table has more cells than MaxTableCells; a table
\* is given by its rows, and a row by its number of cells.
CellsOf(table) ==
    LET Sum[i \in 0..Len(table)] == IF i = 0 THEN 0 ELSE Sum[i - 1] + table[i]
    IN Sum[Len(table)]

TablesAllowed(tables) == \A t \in tables : CellsOf(t) =< MaxTableCells

\* The length of the title in characters, and of the content in both units.
WithinLimits(text) ==
    /\ text.title =< MaxTitleChars
    /\ text.content =< MaxContentChars
    /\ text.bytes =< MaxCanvasBytes

\* Lengths are those after trimming, and those after sanitizing.
PrepareCanvas(doc) ==
    /\ doc.utf8
    /\ doc.title # 0 /\ doc.content # 0
    /\ WithinLimits(doc)
    /\ LinksAllowed(doc.links)
    /\ TablesAllowed(doc.tables)
    /\ WithinLimits(doc.sanitized)

------------------------------------------------------------------------------

Init ==
    /\ status = [o \in Ops |-> "none"]
    /\ owner = [o \in Ops |-> {}]
    /\ canvasID = [o \in Ops |-> 0]
    /\ canvases = <<>>
    /\ consents = {}
    /\ pc = [c \in Calls |-> "idle"]
    /\ ask = [c \in Calls |-> {}]
    /\ found = [c \in Calls |-> 0]
    /\ verdict = [c \in Calls |-> "none"]
    /\ cancelled = {}

Goto(c, place) ==
    /\ pc' = [pc EXCEPT ![c] = place]
    /\ UNCHANGED <<ask, found, verdict, cancelled>>

Holds(c, canvas, place) ==
    /\ found' = [found EXCEPT ![c] = canvas]
    /\ pc' = [pc EXCEPT ![c] = place]
    /\ UNCHANGED <<ask, verdict, cancelled>>

\* A statement runs with the context of its call.
CanRun(c) == c \notin cancelled

Fails(c) == Goto(c, "error") /\ UNCHANGED <<rows, canvases, consents>>

\* UPDATE ... WHERE id = ?
UpdateOperationStatus(o, s, id) ==
    /\ status' = [status EXCEPT ![o] = s]
    /\ canvasID' = [canvasID EXCEPT ![o] = id]
    /\ UNCHANGED owner

\* RequireConfirmationProvider: a call that cannot succeed is not held.
NeedsConfirmation(doc) == PrepareCanvas(doc)

\* The handler refuses a document before it looks for a row.
Accepts(a) == PrepareCanvas(a.doc)

\* The model makes a call: ADK holds it for the user, or runs it at once.
Request(c, a) ==
    /\ pc[c] = "idle"
    /\ ask' = [ask EXCEPT ![c] = IF NeedsConfirmation(a.doc) \/ Accepts(a) THEN a ELSE @]
    /\ pc' = [pc EXCEPT ![c] = IF NeedsConfirmation(a.doc) THEN "held"
                               ELSE IF Accepts(a) THEN "insert" ELSE "error"]
    /\ UNCHANGED <<rows, canvases, consents, found, verdict, cancelled>>

\* The user approves it, and ADK runs the handler.
Approve(c) ==
    /\ pc[c] = "held"
    /\ consents' = consents \cup {ask[c]}
    /\ Goto(c, IF Accepts(ask[c]) THEN "insert" ELSE "error")
    /\ UNCHANGED <<rows, canvases>>

\* INSERT ... ON CONFLICT(id) DO NOTHING; no row affected means it exists.
CreateOperation(c) ==
    LET o == ask[c].op IN
    /\ pc[c] = "insert"
    /\ \/ Fails(c)
       \/ /\ CanRun(c)
          /\ status[o] = "none"
          /\ status' = [status EXCEPT ![o] = "ready"]
          /\ owner' = [owner EXCEPT ![o] = [actor |-> ask[c].actor, doc |-> ask[c].doc]]
          /\ Goto(c, "mark")
          /\ UNCHANGED <<canvasID, canvases, consents>>
       \/ /\ CanRun(c)
          /\ status[o] # "none"
          /\ Goto(c, "exists")
          /\ UNCHANGED <<rows, canvases, consents>>

\* Mutant: the request is not compared with the one of the row.
MatchesAny(c) == TRUE

\* The actor, the title and the digest of the content.
Matches(c) == owner[ask[c].op] = [actor |-> ask[c].actor, doc |-> ask[c].doc]

\* Mutant: what may not have happened is tried again.
RetryExisting(c) ==
    /\ pc[c] = "exists"
    /\ Goto(c, IF status[ask[c].op] = "unknown" THEN "mark" ELSE "error")
    /\ UNCHANGED <<rows, canvases, consents>>

\* GetOperation: the same request gets the canvas it has had, and nothing is
\* tried again.
ExistingOperation(c) ==
    LET o == ask[c].op IN
    /\ pc[c] = "exists"
    /\ \/ Fails(c)
       \/ /\ CanRun(c)
          /\ IF Matches(c) /\ status[o] = "completed" /\ canvasID[o] # 0
             THEN Holds(c, canvasID[o], "answered")
             ELSE Goto(c, "error")
          /\ UNCHANGED <<rows, canvases, consents>>

MarkCreating(c) ==
    /\ pc[c] = "mark"
    /\ \/ Fails(c)
       \/ /\ CanRun(c)
          /\ UpdateOperationStatus(ask[c].op, "creating", 0)
          /\ Goto(c, "create")
          /\ UNCHANGED <<canvases, consents>>

\* isAmbiguous
FailedStatus(ambiguous) == IF ambiguous THEN "unknown" ELSE "failed"

Decide(c, s) ==
    /\ verdict' = [verdict EXCEPT ![c] = s]
    /\ pc' = [pc EXCEPT ![c] = "settle"]
    /\ UNCHANGED <<ask, found, cancelled>>

\* canvases.create: accepted, with an identifier or something else in its
\* place; refused; or an error that does not tell.
CreateCanvas(c) ==
    LET made == Append(canvases, ask[c]) IN
    /\ pc[c] = "create"
    /\ \/ CanRun(c) /\ canvases' = made /\ Holds(c, Len(made), "complete")
       \/ CanRun(c) /\ canvases' = made /\ Decide(c, "unknown")
       \/ CanRun(c) /\ UNCHANGED canvases /\ Decide(c, FailedStatus(FALSE))
       \/ canvases' \in {canvases, made} /\ Decide(c, FailedStatus(TRUE))
    /\ UNCHANGED <<rows, consents>>

\* The error of this statement is logged and no more.
RecordFailure(c) ==
    /\ pc[c] = "settle"
    /\ \/ Fails(c)
       \/ /\ CanRun(c)
          /\ UpdateOperationStatus(ask[c].op, verdict[c], 0)
          /\ Goto(c, "error")
          /\ UNCHANGED <<canvases, consents>>

RecordCompletion(c) ==
    /\ pc[c] = "complete"
    /\ \/ Fails(c)
       \/ /\ CanRun(c)
          /\ UpdateOperationStatus(ask[c].op, "completed", found[c])
          /\ Goto(c, "answered")
          /\ UNCHANGED <<canvases, consents>>

\* Not running: a call on hold waits in the session, which outlives the process.
Ended == {"idle", "held", "answered", "error", "gone"}

\* A deadline, a shutdown or a limit of the turn.
Cancel(c) ==
    /\ pc[c] \notin Ended
    /\ cancelled' = cancelled \cup {c}
    /\ UNCHANGED <<rows, canvases, consents, pc, ask, found, verdict>>

\* The process dies; the rows, the confirmations and the canvases stay.
Crash ==
    /\ \E c \in Calls : pc[c] \notin Ended
    /\ pc' = [c \in Calls |-> IF pc[c] \in Ended THEN pc[c] ELSE "gone"]
    /\ UNCHANGED <<rows, canvases, consents, ask, found, verdict, cancelled>>

Call(c) ==
    \/ CreateOperation(c) \/ ExistingOperation(c) \/ MarkCreating(c)
    \/ CreateCanvas(c) \/ RecordFailure(c) \/ RecordCompletion(c) \/ Cancel(c)

Next ==
    \/ \E c \in Calls, a \in Asks : Request(c, a)
    \/ \E c \in Calls : Approve(c) \/ Call(c)
    \/ Crash

Spec == Init /\ [][Next]_vars

------------------------------------------------------------------------------
(* Properties                                                               *)

\* Rows, calls and identifiers keep their types, and what a row or a call
\* names is a canvas that exists.
TypeOK ==
    /\ status \in [Ops -> Statuses]
    /\ canvasID \in [Ops -> 0..Len(canvases)]
    /\ found \in [Calls -> 0..Len(canvases)]
    /\ \A o \in Ops : status[o] # "none" =>
           owner[o] \in [actor : Actors, doc : Documents]
    /\ \A n \in DOMAIN canvases : canvases[n] \in Asks

Made(o) == {n \in DOMAIN canvases : canvases[n].op = o}

\* What a row says of its canvas.
Says(o) ==
    CASE status[o] \in {"ready", "creating"} -> "open"
      [] status[o] = "completed" -> "done"
      [] status[o] = "failed" -> "undone"
      [] status[o] = "unknown" -> "unclear"
      [] OTHER -> "none"

Effect == INSTANCE ConfirmedEffect WITH
    consented <- {a.op : a \in consents},
    effects <- [o \in Ops |-> Cardinality(Made(o))],
    verdict <- [o \in Ops |-> Says(o)]

\* However a confirmed canvas is repeated, interrupted or cut off, Slack gets
\* it at most once, and its row says completed only of a canvas that is there
\* and failed only of one that never will be (service.go:106, 130).
ImplementsEffect == Effect!Spec

\* A call is answered with a canvas that was made for its own operation, by
\* its own actor and of its own document, and that this actor confirmed, even
\* when a model gives the same identifier to two calls (service.go:113).
AnswerIsOwn ==
    \A c \in Calls : pc[c] = "answered" =>
        /\ found[c] # 0
        /\ canvases[found[c]] = ask[c]
        /\ ask[c] \in consents
=============================================================================
