---------------------------- MODULE SandboxAudit ----------------------------
(* A capability of the sandbox and its audit record: Service.Run in         *)
(* usecase/sandbox/service.go over the tool_execution_audit rows of         *)
(* adapter/sqlite/sandbox_audit.go. The record is read, inserted, marked    *)
(* running and settled in statements of their own, so executions of one     *)
(* call may overlap, fail, be cancelled or die between any two of them.     *)
EXTENDS Naturals

CONSTANTS
    Calls,          \* executions of a tool
    CallIDs,        \* identifiers the model gives to its calls
    Capabilities,
    AllowedCapabilities

VARIABLES
    record,     \* record[i]: lifecycle_state, "none" without a row
    ran,        \* ran[i]: how often the executor has run for this identifier
    pc,         \* pc[c]: where Run stands
    ask,        \* ask[c]: [id, capability, valid], valid as of ValidateArgs
    cancelled   \* the executions whose context is cancelled

vars == <<record, ran, pc, ask, cancelled>>

Asks == [id : CallIDs, capability : Capabilities, valid : BOOLEAN]

ToolLifecycleStates ==
    {"none", "authorized", "running", "completed", "failed", "rejected"}

Init ==
    /\ record = [i \in CallIDs |-> "none"]
    /\ ran = [i \in CallIDs |-> 0]
    /\ pc = [c \in Calls |-> "idle"]
    /\ ask = [c \in Calls |-> {}]
    /\ cancelled = {}

Goto(c, place) == pc' = [pc EXCEPT ![c] = place] /\ UNCHANGED <<ask, cancelled>>

CanRun(c) == c \notin cancelled

Fails(c) == Goto(c, "error") /\ UNCHANGED <<record, ran>>

Run(c, a) ==
    /\ pc[c] = "idle"
    /\ ask' = [ask EXCEPT ![c] = a]
    /\ pc' = [pc EXCEPT ![c] = "lookup"]
    /\ UNCHANGED <<record, ran, cancelled>>

\* Whatever state the row is in, an identifier is not used again.
GetAuditByCallID(c) ==
    /\ pc[c] = "lookup"
    /\ \/ Fails(c)
       \/ /\ CanRun(c)
          /\ Goto(c, IF record[ask[c].id] = "none" THEN "authorize" ELSE "error")
          /\ UNCHANGED <<record, ran>>

\* Mutant: the row is replaced when it exists.
InsertAuditReplacing(c, s, next) ==
    \/ Fails(c)
    \/ /\ CanRun(c)
       /\ record' = [record EXCEPT ![ask[c].id] = s]
       /\ Goto(c, next)
       /\ UNCHANGED ran

\* original_call_id is the primary key: a second row is refused.
InsertAudit(c, s, next) ==
    \/ Fails(c)
    \/ /\ CanRun(c)
       /\ record[ask[c].id] = "none"
       /\ record' = [record EXCEPT ![ask[c].id] = s]
       /\ Goto(c, next)
       /\ UNCHANGED ran

Authorized(a) == a.capability \in AllowedCapabilities /\ a.valid

Authorize(c) ==
    /\ pc[c] = "authorize"
    /\ IF Authorized(ask[c])
       THEN InsertAudit(c, "authorized", "mark")
       ELSE InsertAudit(c, "rejected", "error")

UpdateAuditState(c, s, next) ==
    \/ Fails(c)
    \/ /\ CanRun(c)
       /\ record' = [record EXCEPT ![ask[c].id] = s]
       /\ Goto(c, next)
       /\ UNCHANGED ran

MarkRunning(c) == pc[c] = "mark" /\ UpdateAuditState(c, "running", "execute")

\* The executor looks at its context first, and may run out of time.
Execute(c) ==
    /\ pc[c] = "execute"
    /\ \/ /\ ran' = [ran EXCEPT ![ask[c].id] = @ + 1]
          /\ Goto(c, "complete") \/ Goto(c, "fail")
       \/ ~CanRun(c) /\ Goto(c, "fail") /\ UNCHANGED ran
    /\ UNCHANGED record

Complete(c) == pc[c] = "complete" /\ UpdateAuditState(c, "completed", "done")

Fail(c) == pc[c] = "fail" /\ UpdateAuditState(c, "failed", "error")

Ended == {"idle", "done", "error", "gone"}

Cancel(c) ==
    /\ pc[c] \notin Ended
    /\ cancelled' = cancelled \cup {c}
    /\ UNCHANGED <<record, ran, pc, ask>>

Crash ==
    /\ \E c \in Calls : pc[c] \notin Ended
    /\ pc' = [c \in Calls |-> IF pc[c] \in Ended THEN pc[c] ELSE "gone"]
    /\ UNCHANGED <<record, ran, ask, cancelled>>

Next ==
    \/ \E c \in Calls, a \in Asks : Run(c, a)
    \/ \E c \in Calls :
           \/ GetAuditByCallID(c) \/ Authorize(c) \/ MarkRunning(c) \/ Execute(c)
           \/ Complete(c) \/ Fail(c) \/ Cancel(c)
    \/ Crash

Spec == Init /\ [][Next]_vars

------------------------------------------------------------------------------
(* Properties                                                               *)

\* Rows and executions keep their types.
TypeOK ==
    /\ record \in [CallIDs -> ToolLifecycleStates]
    /\ ran \in [CallIDs -> Nat]

Effect == INSTANCE ConfirmedEffect WITH
    Ops <- CallIDs,
    consented <- CallIDs,
    effects <- ran,
    verdict <- [i \in CallIDs |->
        CASE record[i] \in {"authorized", "running"} -> "open"
          [] record[i] = "completed" -> "done"
          [] record[i] = "failed" -> "unclear"
          [] record[i] = "rejected" -> "undone"
          [] OTHER -> "none"]

\* An identifier runs a capability at most once, and only after its record
\* says that it was allowed; the record never goes back, and completed is said
\* only of what has run (service.go:104-193).
ImplementsEffect == Effect!Spec
=============================================================================
