------------------------------ MODULE AgentCLI ------------------------------
(* One exchange of the agent CLI bridge, LLM.exchange in                    *)
(* adapter/agentcli/exchange.go: a shim process is started for one request, *)
(* its output is read as lines of the protocol of cliprotocol, its          *)
(* diagnostics are drained beside, and what it said, how it exited and      *)
(* whether the call was cancelled make one verdict. The shim may write      *)
(* anything.                                                                *)
EXTENDS Naturals, Sequences, FiniteSets, SequencesExt

CONSTANTS
    Methods,        \* a subset of {"describe", "validate", "run"}
    MaxLines,       \* the lines of output that are accepted
    PipeSize        \* lines, or events, a pipe holds

VARIABLES
    method,         \* the method of the request
    place,          \* where exchange stands
    alive, exit,    \* does the shim run, and how it has exited
    stdout,         \* lines in the pipe
    lines,          \* every line the shim has written
    noise,          \* are there diagnostics in the pipe of stderr?
    total,          \* lines read
    terminal,       \* the terminal message read, at most one
    readErr,        \* did reading fail?
    cancelled,      \* is the context of the call done?
    verdict         \* "none", "ok", "shim error" or a code of the bridge

exchangeVars == <<method, place, total, terminal, readErr, verdict>>
pipeVars == <<stdout, lines, noise>>
cliVars == <<exchangeVars, alive, exit, pipeVars, cancelled>>

\* A line: a terminal message, an event, one that is passed over (blank, or of
\* an unknown type), or one that cannot be (over the limit, no JSON, of another
\* protocol, version or identifier, or refused by ValidateResponse).
Success(m) == CASE m = "describe" -> "description" [] m = "validate" -> "validated"
                [] m = "run" -> "result"
Terminals == {"description", "validated", "result", "error"}
Lines == Terminals \cup {"activity", "unknown", "malformed"}

CliInit ==
    /\ method \in Methods
    /\ place = "start"
    /\ alive = FALSE
    /\ exit = "none"
    /\ stdout = <<>>
    /\ lines = <<>>
    /\ noise = FALSE
    /\ total = 0
    /\ terminal = {}
    /\ readErr = FALSE
    /\ cancelled = FALSE
    /\ verdict = "none"

Fits == Len(stdout) < PipeSize

------------------------------------------------------------------------------
(* The shim                                                                 *)

\* The shim can do nothing else while its diagnostics wait.
WriteLine(l) ==
    /\ alive /\ ~noise
    /\ Fits
    /\ stdout' = Append(stdout, l)
    /\ lines' = Append(lines, l)
    /\ UNCHANGED <<exchangeVars, alive, exit, noise, cancelled>>

Diagnose ==
    /\ alive /\ ~noise
    /\ noise' = TRUE
    /\ UNCHANGED <<exchangeVars, alive, exit, stdout, lines, cancelled>>

ExitShim(code) ==
    /\ alive /\ ~noise
    /\ alive' = FALSE
    /\ exit' = code
    /\ UNCHANGED <<exchangeVars, pipeVars, cancelled>>

\* The context of the call ends; the runtime then kills the process group.
CancelExchange ==
    /\ ~cancelled
    /\ place # "returned"
    /\ cancelled' = TRUE
    /\ UNCHANGED <<exchangeVars, alive, exit, pipeVars>>

killProcessGroup ==
    /\ alive' = FALSE
    /\ exit' = IF alive THEN "killed" ELSE exit

KillOnCancel ==
    /\ cancelled /\ alive
    /\ killProcessGroup
    /\ UNCHANGED <<exchangeVars, pipeVars, cancelled>>

------------------------------------------------------------------------------
(* exchange                                                                 *)

StartShim ==
    /\ place = "start"
    /\ \/ /\ ~cancelled
          /\ alive' = TRUE
          /\ place' = "read"
          /\ UNCHANGED verdict
       \/ /\ place' = "returned"
          /\ verdict' = "not started"
          /\ UNCHANGED alive
    /\ UNCHANGED <<method, total, terminal, readErr, exit, pipeVars, cancelled>>

\* All of stderr is read, whatever of it is counted.
DrainStderr ==
    /\ place # "start" /\ noise
    /\ noise' = FALSE
    /\ UNCHANGED <<exchangeVars, alive, exit, stdout, lines, cancelled>>

\* Mutant: a terminal message after the first replaces it.
AcceptsLast(l) == l \in {Success(method), "error", "unknown"} \/ (l = "activity" /\ method = "run")

\* readStdout: does reading go on after the line?
Accepts(l) ==
    \/ l = "unknown"
    \/ l = "activity" /\ method = "run"
    \/ l \in {Success(method), "error"} /\ terminal = {}

\* Reading stops at the first line that is not accepted.
ReadLine ==
    /\ place = "read"
    /\ stdout # <<>>
    /\ LET l == Head(stdout)
           fails == total + 1 > MaxLines \/ ~Accepts(l)
       IN  /\ readErr' = fails
           /\ terminal' = IF ~fails /\ l \in Terminals THEN {l} ELSE terminal
           /\ place' = IF fails THEN "kill" ELSE "read"
    /\ total' = total + 1
    /\ stdout' = Tail(stdout)
    /\ UNCHANGED <<method, verdict, alive, exit, lines, noise, cancelled>>

EndOfStdout ==
    /\ place = "read"
    /\ stdout = <<>> /\ ~alive
    /\ place' = "wait"
    /\ UNCHANGED <<method, total, terminal, readErr, verdict, alive, exit, pipeVars, cancelled>>

\* Mutant: a shim whose output is not read is waited for.
KillReaderless ==
    /\ place = "kill"
    /\ ~alive
    /\ place' = "wait"
    /\ UNCHANGED <<method, total, terminal, readErr, verdict, alive, exit, pipeVars, cancelled>>

\* A shim that goes on writing would wait for ever, and is killed; the rest of
\* its output is read and dropped.
KillReader ==
    /\ place = "kill"
    /\ killProcessGroup
    /\ stdout' = <<>>
    /\ place' = "wait"
    /\ UNCHANGED <<method, total, terminal, readErr, verdict, lines, noise, cancelled>>

Classify ==
    CASE cancelled -> "timeout"
      [] ~cancelled /\ readErr -> "protocol_error"
      [] ~cancelled /\ ~readErr /\ terminal = {} ->
            IF exit = "zero" THEN "no_response" ELSE "process_failed"
      [] ~cancelled /\ ~readErr /\ terminal = {"error"} -> "shim error"
      [] OTHER -> IF exit = "zero" THEN "ok" ELSE "process_failed"

\* The goroutine of the diagnostics and the process are waited for.
WaitShim ==
    /\ place = "wait"
    /\ ~noise /\ ~alive
    /\ verdict' = Classify
    /\ place' = "returned"
    /\ UNCHANGED <<method, total, terminal, readErr, alive, exit, pipeVars, cancelled>>

Exchange == StartShim \/ ReadLine \/ EndOfStdout \/ KillReader \/ WaitShim

AnyShim ==
    \/ \E l \in Lines : Len(lines) < MaxLines + 1 /\ WriteLine(l)
    \/ Diagnose
    \/ \E code \in {"zero", "nonzero"} : ExitShim(code)

CliFairness == WF_cliVars(Exchange) /\ WF_cliVars(DrainStderr) /\ WF_cliVars(KillOnCancel)

------------------------------------------------------------------------------
(* Properties                                                               *)

\* The variables keep their types.
CliTypeOK ==
    /\ place \in {"start", "read", "kill", "wait", "returned"}
    /\ exit \in {"none", "zero", "nonzero", "killed"}
    /\ terminal \subseteq Terminals /\ Cardinality(terminal) <= 1
    /\ Len(stdout) <= PipeSize

\* The verdict, from all that the shim has written and its exit, as if nothing
\* had to be read while it was written: one answer to the method, among lines
\* that may be there, from a shim that exits well. Whatever comes after an
\* answer counts as much as what comes before it (exchange, readStdout).
Deserves(v) ==
    LET known == {"unknown", Success(method), "error"}
                 \cup (IF method = "run" THEN {"activity"} ELSE {})
        answers == {i \in DOMAIN lines : lines[i] \in Terminals}
        given == {lines[i] : i \in answers}
        inOrder == /\ Len(lines) <= MaxLines
                   /\ ToSet(lines) \subseteq known
                   /\ \A i, j \in answers : i = j
    IN  CASE v = "ok" -> inOrder /\ given = {Success(method)} /\ exit = "zero"
          [] v = "shim error" -> inOrder /\ given = {"error"}
          [] v = "no_response" -> inOrder /\ given = {} /\ exit = "zero"
          [] v = "process_failed" -> inOrder /\ exit # "zero" /\ given # {"error"}
          [] v = "protocol_error" -> ~inOrder
          [] v = "timeout" -> cancelled
          [] OTHER -> lines = <<>>

VerdictIsDeserved == place = "returned" => Deserves(verdict)

\* The shim has exited or has broken the protocol, or the call is cancelled.
Ending == exit # "none" \/ place = "kill" \/ cancelled

\* A call then ends, however much the shim goes on writing, to either pipe
\* (exchange, readDiagnostic).
ExchangeEnds == Ending ~> place = "returned"
=============================================================================
