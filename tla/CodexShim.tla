------------------------------ MODULE CodexShim ------------------------------
(* The shim of Codex, Run in adapter/codexshim/shim.go, as the process at   *)
(* the other end of an exchange: it reads one request, runs codex as a      *)
(* child of its own, turns the events of codex (events.go) into activity    *)
(* and exactly one terminal message, and exits. A shim that is killed takes *)
(* codex with it. The exchange is also run with a shim that may do          *)
(* anything.                                                                *)
EXTENDS AgentCLI

CONSTANTS
    MaxEvents,      \* the events of output that are accepted
    Requests        \* what Run can find in a request, see RequestType

VARIABLES
    shim,           \* "codex", or "any"
    request,        \* what there is to the request
    step,           \* where Run stands
    codex,          \* does codex run?
    codexExit,      \* how codex has exited
    eventPipe,      \* events in the pipe from codex
    emitted,        \* every event codex has written
    taken,          \* events read
    candidate,      \* has there been a message with text?
    parsed,         \* a subset of {"completed", "failed", "closed", "error"}
    answer          \* the response to write

shimVars == <<shim, request, step, taken, candidate, parsed, answer>>
codexVars == <<codex, codexExit, eventPipe, emitted>>
vars == <<cliVars, shimVars, codexVars>>

\* A request that Run decodes or does not, the version codex reports, whether
\* the profile names an agent, and whether its model and variant are in the
\* catalog and its directory in a worktree.
RequestType == [valid : BOOLEAN, version : {"supported", "other", "fails"}, agent : BOOLEAN,
                catalog : {"supported", "other", "fails"}, worktree : {"supported", "other", "fails"}]

\* The events of codex; "tool" stands for whatever is not looked into.
Events == {"message", "tool", "turn.completed", "turn.failed", "error", "malformed"}

Init ==
    /\ CliInit
    /\ shim \in {"codex", "any"}
    /\ request \in IF shim = "codex" THEN Requests ELSE {CHOOSE r \in Requests : TRUE}
    /\ step = "read"
    /\ codex = FALSE
    /\ codexExit = "none"
    /\ eventPipe = <<>>
    /\ emitted = <<>>
    /\ taken = 0
    /\ candidate = FALSE
    /\ parsed = {}
    /\ answer = {}

Runs(s) == shim = "codex" /\ alive /\ step = s

At(s) == step' = s /\ UNCHANGED <<shim, request, taken, candidate, parsed, answer>>

\* One response is written at the end.
Answer(l) == step' = "write" /\ answer' = {l} /\ UNCHANGED <<shim, request, taken, candidate, parsed>>

------------------------------------------------------------------------------
(* Run                                                                      *)

\* A request that is not understood makes an error, of an unknown identifier
\* when it has none that can be read.
ReadRequest ==
    /\ Runs("read")
    /\ IF request.valid THEN At(method) ELSE \E l \in {"malformed", "error"} : Answer(l)
    /\ UNCHANGED <<cliVars, codexVars>>

describe ==
    /\ Runs("describe")
    /\ Answer(IF request.version = "supported" THEN "description" ELSE "error")
    /\ UNCHANGED <<cliVars, codexVars>>

validate ==
    /\ Runs("validate")
    /\ Answer(IF ~request.agent /\ request.catalog = "supported" /\ request.worktree = "supported"
              THEN "validated" ELSE "error")
    /\ UNCHANGED <<cliVars, codexVars>>

StartRun ==
    /\ Runs("run")
    /\ \/ codex' = TRUE /\ At("parse")
       \/ UNCHANGED codex /\ Answer("error")
    /\ UNCHANGED <<cliVars, codexExit, eventPipe, emitted>>

\* A turn is closed by its last event; an error may come before it.
Marks(e) ==
    CASE e = "turn.completed" -> {"completed", "closed"}
      [] e = "turn.failed" -> {"failed", "closed"}
      [] e = "error" -> {"failed"}
      [] OTHER -> {}

\* ParseRunEvents: what cannot be, or comes after the end of a turn, ends it.
\* Tool events are reported, when there is room for the report.
ParseEvent ==
    /\ Runs("parse")
    /\ eventPipe # <<>>
    /\ LET e == Head(eventPipe)
           fails == taken + 1 > MaxEvents \/ e = "malformed" \/ "closed" \in parsed
       IN  /\ parsed' = IF fails THEN parsed \cup {"error"} ELSE parsed \cup Marks(e)
           /\ candidate' = (candidate \/ (~fails /\ e = "message"))
           /\ step' = IF fails THEN "terminate" ELSE "parse"
           /\ IF ~fails /\ e = "tool" THEN WriteLine("activity") ELSE UNCHANGED cliVars
    /\ taken' = taken + 1
    /\ eventPipe' = Tail(eventPipe)
    /\ UNCHANGED <<shim, request, answer, codex, codexExit, emitted>>

EndOfEvents ==
    /\ Runs("parse")
    /\ eventPipe = <<>> /\ ~codex
    /\ At("conclude")
    /\ UNCHANGED <<cliVars, codexVars>>

\* Mutant: codex is waited for with its output unread.
TerminateCodexUnkilled ==
    /\ Runs("terminate")
    /\ ~codex
    /\ eventPipe' = <<>>
    /\ At("conclude")
    /\ UNCHANGED <<cliVars, codex, codexExit, emitted>>

\* Codex is killed, and the rest of its output dropped.
TerminateCodex ==
    /\ Runs("terminate")
    /\ codex' = FALSE
    /\ codexExit' = IF codex THEN "killed" ELSE codexExit
    /\ eventPipe' = <<>>
    /\ At("conclude")
    /\ UNCHANGED <<cliVars, emitted>>

\* Mutant: a turn that was completed counts, however codex exits.
OutcomeOfTurn ==
    IF {"error", "failed"} \cap parsed = {} /\ "completed" \in parsed /\ candidate
    THEN "result" ELSE "error"

\* A failed turn and a failed exit come before any text.
Outcome ==
    IF /\ {"error", "failed"} \cap parsed = {}
       /\ codexExit = "zero"
       /\ "completed" \in parsed
       /\ candidate
    THEN "result" ELSE "error"

Conclude ==
    /\ Runs("conclude")
    /\ ~codex
    /\ Answer(Outcome)
    /\ UNCHANGED <<cliVars, codexVars>>

WriteResponse ==
    /\ Runs("write")
    /\ \E l \in answer : WriteLine(l)
    /\ At("exit")
    /\ UNCHANGED codexVars

\* Run returns 2 for a request it did not understand, and 0 whatever it answered.
ExitRun ==
    /\ Runs("exit")
    /\ ExitShim(IF request.valid THEN "zero" ELSE "nonzero")
    /\ UNCHANGED <<shimVars, codexVars>>

Shim ==
    \/ ReadRequest \/ describe \/ validate \/ StartRun \/ ParseEvent \/ EndOfEvents
    \/ TerminateCodex \/ Conclude \/ WriteResponse \/ ExitRun

------------------------------------------------------------------------------
(* Codex                                                                    *)

EmitEvent(e) ==
    /\ codex
    /\ Len(eventPipe) < PipeSize
    /\ Len(emitted) < MaxEvents + 1
    /\ eventPipe' = Append(eventPipe, e)
    /\ emitted' = Append(emitted, e)
    /\ UNCHANGED <<cliVars, shimVars, codex, codexExit>>

ExitCodex(code) ==
    /\ codex
    /\ codex' = FALSE
    /\ codexExit' = code
    /\ UNCHANGED <<cliVars, shimVars, eventPipe, emitted>>

\* Pdeathsig.
DieWithShim ==
    /\ codex /\ ~alive
    /\ ExitCodex("killed")

Codex ==
    \/ \E e \in Events : EmitEvent(e)
    \/ \E code \in {"zero", "nonzero"} : ExitCodex(code)
    \/ DieWithShim

Host(A) == A /\ UNCHANGED <<shimVars, codexVars>>

Next ==
    \/ Host(Exchange) \/ Host(DrainStderr) \/ Host(CancelExchange) \/ Host(KillOnCancel)
    \/ shim = "any" /\ AnyShim /\ UNCHANGED <<shimVars, codexVars>>
    \/ Shim
    \/ Codex

Spec ==
    /\ Init /\ [][Next]_vars
    /\ WF_vars(Host(Exchange))
    /\ WF_vars(Host(DrainStderr))
    /\ WF_vars(Host(KillOnCancel))
    /\ WF_vars(Shim)
    /\ WF_vars(DieWithShim)

------------------------------------------------------------------------------
(* Properties                                                               *)

\* The variables keep their types.
TypeOK ==
    /\ CliTypeOK
    /\ step \in {"read", "describe", "validate", "run", "parse", "terminate", "conclude",
                 "write", "exit"}
    /\ codexExit \in {"none", "zero", "nonzero", "killed"}
    /\ parsed \subseteq {"completed", "failed", "closed", "error"}

\* Through two processes and their four pipes, an answer reaches the model's
\* caller only from a turn that codex completed as its last event, with no
\* failure before it and a message in it, and that codex exited well from; and
\* the shim never breaks the protocol it speaks to the bridge, except over a
\* request it did not understand and by more output than the bridge takes
\* (ParseRunEvents, runModel, exchange).
AnswerIsCompleted ==
    shim = "codex" /\ place = "returned" =>
        /\ verdict = "ok" /\ method = "run" =>
               /\ Last(emitted) = "turn.completed"
               /\ codexExit = "zero"
               /\ {"turn.failed", "error", "malformed"} \cap ToSet(emitted) = {}
               /\ "message" \in ToSet(emitted)
        /\ verdict \in {"process_failed", "no_response"} => ~request.valid
        /\ verdict = "protocol_error" => ~request.valid \/ Len(lines) > MaxLines

\* The exchange has to end, or codex has exited or broken its format.
CodexEnding == Ending \/ place = "returned" \/ codexExit # "none" \/ step = "terminate"

\* The exchange then ends, and codex does not outlive it for good (runModel,
\* process_linux.go).
CodexEnds == CodexEnding ~> place = "returned" /\ ~codex
=============================================================================
