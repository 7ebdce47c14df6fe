---------------------------- MODULE GeneratedFile ----------------------------
(* The confirmed export tools: their handlers in toolfactory.go, the        *)
(* operation in usecase/generatedfile/service.go, the rows of               *)
(* adapter/sqlite/generated_file_store.go and the three calls of            *)
(* adapter/slack/generated_file_uploader.go that put a file into Slack: a   *)
(* target, its bytes, and the completion that shows it in the conversation. *)
(*                                                                          *)
(* As for a canvas, calls may repeat an operation, anything may fail or be  *)
(* cut off, and the process may die. Statements that record progress do not *)
(* use the context of the call, so a cancelled call still records it.       *)
EXTENDS Naturals, Sequences, FiniteSets

CONSTANTS
    Calls,      \* executions of the handler
    Keys,       \* conversations: [kind, thread], see Destination
    CallIDs,    \* identifiers the model gives to its calls
    Actors,     \* users who may confirm
    Documents,  \* arguments of a call, see Prepare
    MaxFilenameChars, MaxContentBytes

VARIABLES
    status,     \* status[o]: the status column, "none" without a row
    owner,      \* owner[o]: the actor and document of the row
    fileID,     \* fileID[o]: the slack_file_id column, 0 when empty
    files,      \* the files in Slack: [of, stage], in the order of their targets
    consents,   \* what users have approved: [op, actor, doc]
    pc,         \* pc[c]: where Export stands in a call
    ask,        \* ask[c]: what the call asks for: [op, actor, doc]
    target,     \* target[c]: the file the call holds, 0 before
    verdict,    \* verdict[c]: the status the call is about to write
    cancelled   \* the calls whose context is cancelled

rows == <<status, owner, fileID>>
process == <<pc, ask, target, verdict, cancelled>>
vars == <<rows, files, consents, process>>

\* The digest of the conversation key and the identifier of the call.
Ops == [key : Keys, call : CallIDs]
Asks == [op : Ops, actor : Actors, doc : Documents]

Statuses == {"none", "pending_confirmation", "url_requested", "bytes_uploaded",
             "completed", "failed", "unknown"}

------------------------------------------------------------------------------
(* The arguments                                                            *)

FormatDetails == [text |-> ".txt", markdown |-> ".md", csv |-> ".csv", json |-> ".json"]

\* The content of a CSV export is made of headers and rows of the same width.
SerializeCSV(doc) ==
    doc.format = "csv" =>
        doc.headers > 0 /\ \A n \in DOMAIN doc.rows : doc.rows[n] = doc.headers

\* The basename and the extension of the format; the length before and after
\* sanitizing; of JSON exactly one value, encoded again.
Prepare(doc) ==
    /\ SerializeCSV(doc)
    /\ doc.filename \in 1..MaxFilenameChars
    /\ doc.extension = FormatDetails[doc.format]
    /\ doc.utf8
    /\ doc.bytes \in 1..MaxContentBytes
    /\ doc.bytes + doc.extra \in 1..MaxContentBytes
    /\ doc.format = "json" => doc.values = 1

\* A direct message has no thread and a channel conversation has one: the
\* channel to share the file with and the thread to show it in.
HasDestination(key) ==
    \/ key.kind = "dm" /\ key.thread = "none"
    \/ key.kind = "channel" /\ key.thread # "none"

Destination(key) == [channel |-> key.kind, thread |-> key.thread]

------------------------------------------------------------------------------

Init ==
    /\ status = [o \in Ops |-> "none"]
    /\ owner = [o \in Ops |-> {}]
    /\ fileID = [o \in Ops |-> 0]
    /\ files = <<>>
    /\ consents = {}
    /\ pc = [c \in Calls |-> "idle"]
    /\ ask = [c \in Calls |-> {}]
    /\ target = [c \in Calls |-> 0]
    /\ verdict = [c \in Calls |-> "none"]
    /\ cancelled = {}

Goto(c, place) ==
    /\ pc' = [pc EXCEPT ![c] = place]
    /\ UNCHANGED <<ask, target, verdict, cancelled>>

Holds(c, file, place) ==
    /\ target' = [target EXCEPT ![c] = file]
    /\ pc' = [pc EXCEPT ![c] = place]
    /\ UNCHANGED <<ask, verdict, cancelled>>

Decide(c, s, file) ==
    /\ verdict' = [verdict EXCEPT ![c] = s]
    /\ target' = [target EXCEPT ![c] = file]
    /\ pc' = [pc EXCEPT ![c] = "settle"]
    /\ UNCHANGED <<ask, cancelled>>

\* A statement or a call to Slack with the context of its call.
CanRun(c) == c \notin cancelled

Fails(c) == Goto(c, "error") /\ UNCHANGED <<rows, files, consents>>

\* RequireConfirmationProvider: a call that cannot succeed is not held; the
\* conversation is not looked at.
NeedsConfirmation(doc) == Prepare(doc)

\* The handler looks at the conversation and the document before the row.
Accepts(a) == HasDestination(a.op.key) /\ Prepare(a.doc)

\* The model makes a call: ADK holds it for the user, or runs it at once.
Request(c, a) ==
    /\ pc[c] = "idle"
    /\ ask' = [ask EXCEPT ![c] = IF NeedsConfirmation(a.doc) \/ Accepts(a) THEN a ELSE @]
    /\ pc' = [pc EXCEPT ![c] = IF NeedsConfirmation(a.doc) THEN "held"
                               ELSE IF Accepts(a) THEN "insert" ELSE "error"]
    /\ UNCHANGED <<rows, files, consents, target, verdict, cancelled>>

\* The user approves it, and ADK runs the handler.
Approve(c) ==
    /\ pc[c] = "held"
    /\ consents' = consents \cup {ask[c]}
    /\ Goto(c, IF Accepts(ask[c]) THEN "insert" ELSE "error")
    /\ UNCHANGED <<rows, files>>

CreateGeneratedFileOperation(c) ==
    LET o == ask[c].op IN
    /\ pc[c] = "insert"
    /\ \/ Fails(c)
       \/ /\ CanRun(c)
          /\ status[o] = "none"
          /\ status' = [status EXCEPT ![o] = "pending_confirmation"]
          /\ owner' = [owner EXCEPT ![o] = [actor |-> ask[c].actor, doc |-> ask[c].doc]]
          /\ Goto(c, "url")
          /\ UNCHANGED <<fileID, files, consents>>
       \/ /\ CanRun(c)
          /\ status[o] # "none"
          /\ Goto(c, "exists")
          /\ UNCHANGED <<rows, files, consents>>

\* The actor, the filename, the media type, the digest and the size.
Matches(c) == owner[ask[c].op] = [actor |-> ask[c].actor, doc |-> ask[c].doc]

\* Mutant: an upload that has got as far as its bytes is taken up again.
ResumeExisting(c) ==
    LET o == ask[c].op IN
    /\ pc[c] = "exists"
    /\ IF status[o] = "bytes_uploaded"
       THEN Holds(c, fileID[o], "complete")
       ELSE Goto(c, "error")
    /\ UNCHANGED <<rows, files, consents>>

ExistingOperation(c) ==
    LET o == ask[c].op IN
    /\ pc[c] = "exists"
    /\ \/ Fails(c)
       \/ /\ CanRun(c)
          /\ IF Matches(c) /\ status[o] = "completed" /\ fileID[o] # 0
             THEN Holds(c, fileID[o], "answered")
             ELSE Goto(c, "error")
          /\ UNCHANGED <<rows, files, consents>>

\* The errors of a call to Slack: "refused" has had no effect; "ambiguous" is
\* recognised as one that may have had it, a cancelled context among them;
\* "lost" may have had it too, but is not recognised (a closed connection).
Errors(c) == IF CanRun(c) THEN {"refused", "ambiguous", "lost"} ELSE {"ambiguous"}

\* failedStatus and ambiguousUploadError
FailedStatus(error) == IF error = "ambiguous" THEN "unknown" ELSE "failed"

\* Mutant: the error of the call is not looked at, and its answer is used.
RequestUploadURLTrusting(c) ==
    LET made == Append(files, [of |-> ask[c], stage |-> "empty"]) IN
    /\ pc[c] = "url"
    /\ files' \in {files, made}
    /\ Holds(c, Len(made), "mark url")
    /\ UNCHANGED <<rows, consents>>

\* A complete target, one without its identifier or URL, or an error.
RequestUploadURL(c) ==
    LET made == Append(files, [of |-> ask[c], stage |-> "empty"]) IN
    /\ pc[c] = "url"
    /\ \/ CanRun(c) /\ files' = made /\ Holds(c, Len(made), "mark url")
       \/ /\ CanRun(c)
          /\ files' = made
          /\ \E file \in {0, Len(made)} : Decide(c, "unknown", file)
       \/ \E error \in Errors(c) :
              /\ files' = files
              /\ Decide(c, FailedStatus(error), 0)
    /\ UNCHANGED <<rows, consents>>

\* persistStatus: without the cancellation of the call.
PersistStatus(c, s, next) ==
    LET o == ask[c].op IN
    \/ Fails(c)
    \/ /\ status' = [status EXCEPT ![o] = s]
       /\ fileID' = [fileID EXCEPT ![o] = target[c]]
       /\ Goto(c, next)
       /\ UNCHANGED <<owner, files, consents>>

MarkURLRequested(c) == pc[c] = "mark url" /\ PersistStatus(c, "url_requested", "upload")

\* The bytes arrive, or an error leaves open whether they have.
UploadBytes(c) ==
    LET arrived == [files EXCEPT ![target[c]].stage = "bytes"] IN
    /\ pc[c] = "upload"
    /\ \/ CanRun(c) /\ files' = arrived /\ Goto(c, "mark bytes")
       \/ \E error \in Errors(c) :
              /\ files' = files \/ (error # "refused" /\ files' = arrived)
              /\ Decide(c, FailedStatus(error), target[c])
    /\ UNCHANGED <<rows, consents>>

MarkBytesUploaded(c) ==
    pc[c] = "mark bytes" /\ PersistStatus(c, "bytes_uploaded", "complete")

\* The file appears in the conversation.
CompleteUpload(c) ==
    LET shared == [files EXCEPT ![target[c]].stage = "shared"] IN
    /\ pc[c] = "complete"
    /\ \/ CanRun(c) /\ files' = shared /\ Goto(c, "mark completed")
       \/ \E error \in Errors(c) :
              /\ files' = files \/ (error # "refused" /\ files' = shared)
              /\ Decide(c, FailedStatus(error), target[c])
    /\ UNCHANGED <<rows, consents>>

MarkCompleted(c) == pc[c] = "mark completed" /\ PersistStatus(c, "completed", "answered")

\* updateStatus: an error of the statement is logged and no more.
RecordFailure(c) == pc[c] = "settle" /\ PersistStatus(c, verdict[c], "error")

\* Not running: a call on hold waits in the session, which outlives the process.
Ended == {"idle", "held", "answered", "error", "gone"}

Cancel(c) ==
    /\ pc[c] \notin Ended
    /\ cancelled' = cancelled \cup {c}
    /\ UNCHANGED <<rows, files, consents, pc, ask, target, verdict>>

Crash ==
    /\ \E c \in Calls : pc[c] \notin Ended
    /\ pc' = [c \in Calls |-> IF pc[c] \in Ended THEN pc[c] ELSE "gone"]
    /\ UNCHANGED <<rows, files, consents, ask, target, verdict, cancelled>>

Call(c) ==
    \/ CreateGeneratedFileOperation(c) \/ ExistingOperation(c)
    \/ RequestUploadURL(c) \/ MarkURLRequested(c) \/ UploadBytes(c)
    \/ MarkBytesUploaded(c) \/ CompleteUpload(c) \/ MarkCompleted(c)
    \/ RecordFailure(c) \/ Cancel(c)

Next ==
    \/ \E c \in Calls, a \in Asks : Request(c, a)
    \/ \E c \in Calls : Approve(c) \/ Call(c)
    \/ Crash

Spec == Init /\ [][Next]_vars

------------------------------------------------------------------------------
(* Properties                                                               *)

\* Rows, calls and files keep their types, and identifiers name files.
TypeOK ==
    /\ status \in [Ops -> Statuses]
    /\ fileID \in [Ops -> 0..Len(files)]
    /\ target \in [Calls -> 0..Len(files)]
    /\ \A n \in DOMAIN files :
           files[n] \in [of : Asks, stage : {"empty", "bytes", "shared"}]

Shared(o) == {n \in DOMAIN files : files[n].of.op = o /\ files[n].stage = "shared"}

\* What a row says of its export. A lost completion is recorded as failed
\* although the file may be there, so only a failure without a file is taken
\* for its absence.
Says(o) ==
    CASE status[o] \in {"pending_confirmation", "url_requested", "bytes_uploaded"} -> "open"
      [] status[o] = "completed" -> "done"
      [] status[o] = "failed" -> IF Shared(o) = {} THEN "undone" ELSE "unclear"
      [] status[o] = "unknown" -> "unclear"
      [] OTHER -> "none"

Effect == INSTANCE ConfirmedEffect WITH
    consented <- {a.op : a \in consents},
    effects <- [o \in Ops |-> Cardinality(Shared(o))],
    verdict <- [o \in Ops |-> Says(o)]

\* However a confirmed export is repeated, interrupted or cut off, the file is
\* shown at most once; its row says completed only of a file that is shown,
\* and nothing is shown once it says failed (service.go:113-153).
ImplementsEffect == Effect!Spec

\* A call is answered with a file that was made, and is shown, for its own
\* operation, by its own actor and of its own document (service.go:119).
AnswerIsOwn ==
    \A c \in Calls : pc[c] = "answered" =>
        /\ target[c] # 0
        /\ files[target[c]] = [of |-> ask[c], stage |-> "shared"]
        /\ ask[c] \in consents
=============================================================================
