------------------------ MODULE OpenCodeCoordinator ------------------------
(* Invocations of the OpenCode executable against its upgrades: Coordinator *)
(* and the operations of usecase/opencode/service.go, over Manager in       *)
(* adapter/opencodemanager/manager.go. An upgrade replaces the executable   *)
(* that every invocation starts, so the two never run together. The tool    *)
(* runs them for users, with a confirmation before an upgrade or rollback,  *)
(* and a delivery workflow holds an invocation while its steps hold others. *)
EXTENDS Naturals

CONSTANTS
    Operations,     \* calls in flight at the same time
    AllowedIDs,     \* the operations called by an operator
    Versions        \* versions of the executable

VARIABLES
    active, maintenance,    \* Coordinator
    binary,                 \* the version installed
    prior,                  \* Manager.prior: {}, or what an upgrade found
    pc,                     \* pc[o]: where an operation stands
    action,                 \* action[o]: what it was called for
    held,                   \* held[o]: how many invocations it holds
    processes,              \* the operations with a process of OpenCode
    before,                 \* before[o]: the version an upgrade started from
    result                  \* result[o]: what it is about to answer, [verdict, version]

vars == <<active, maintenance, binary, prior, pc, action, held, processes, before, result>>

Invocations == {"run", "workflow", "status", "probe"}
Managements == {"upgrade", "rollback"}

\* Places where an operation has the executable for itself.
Maintaining == {"version", "install", "verify", "restore", "reverify", "unlock"}
Using == {"launch", "use", "release", "steps"}

Init ==
    /\ active = 0
    /\ maintenance = FALSE
    /\ binary \in Versions
    /\ prior = {}
    /\ pc = [o \in Operations |-> "idle"]
    /\ action = [o \in Operations |-> "run"]
    /\ held = [o \in Operations |-> 0]
    /\ processes = {}
    /\ before = [o \in Operations |-> {}]
    /\ result = [o \in Operations |-> [verdict |-> "none", version |-> {}]]

Goto(o, place) == pc' = [pc EXCEPT ![o] = place]

Says(o, verdict, version) ==
    result' = [result EXCEPT ![o] = [verdict |-> verdict, version |-> version]]

------------------------------------------------------------------------------
(* Coordinator                                                              *)

TryInvocation(o) ==
    /\ ~maintenance
    /\ active' = active + 1
    /\ held' = [held EXCEPT ![o] = @ + 1]
    /\ UNCHANGED maintenance

\* Mutant: what uses the executable is not looked at.
TryMaintenanceEager(o) == ~maintenance /\ maintenance' = TRUE /\ UNCHANGED <<active, held>>

TryMaintenance(o) ==
    /\ ~maintenance
    /\ active = 0
    /\ maintenance' = TRUE
    /\ UNCHANGED <<active, held>>

------------------------------------------------------------------------------
(* Invocations                                                              *)

\* Status and Probe, the client's Run, and the delivery workflow's tool.
Invoke(o, a) ==
    /\ pc[o] = "idle"
    /\ a \in Invocations
    /\ action' = [action EXCEPT ![o] = a]
    /\ TryInvocation(o)
    /\ Goto(o, IF a = "workflow" THEN "steps" ELSE "launch")
    /\ UNCHANGED <<binary, prior, processes, before, result>>

\* A step of the workflow, run by the same client, or its preflight probe,
\* which asks for nothing.
Step(o) ==
    /\ pc[o] = "steps"
    /\ \/ TryInvocation(o)
       \/ UNCHANGED <<active, maintenance, held>>
    /\ Goto(o, "launch")
    /\ UNCHANGED <<binary, prior, action, processes, before, result>>

\* The process starts, or it does not and there is nothing to terminate.
Launch(o) ==
    /\ pc[o] = "launch"
    /\ \/ processes' = processes \cup {o} /\ Goto(o, "use")
       \/ UNCHANGED processes /\ Goto(o, "release")
    /\ UNCHANGED <<active, maintenance, binary, prior, action, held, before, result>>

\* The call is over, however it went: terminate waits for the process.
Terminate(o) ==
    /\ pc[o] = "use"
    /\ processes' = processes \ {o}
    /\ Goto(o, "release")
    /\ UNCHANGED <<active, maintenance, binary, prior, action, held, before, result>>

\* What the step holds is given back, and what the call holds last.
Release(o) ==
    /\ pc[o] = "release" \/ pc[o] = "steps"
    /\ IF pc[o] = "release" /\ action[o] = "workflow"
       THEN /\ active' = active - (held[o] - 1)
            /\ held' = [held EXCEPT ![o] = 1]
            /\ Goto(o, "steps")
            /\ UNCHANGED action
       ELSE /\ active' = active - held[o]
            /\ held' = [held EXCEPT ![o] = 0]
            /\ action' = [action EXCEPT ![o] = "run"]
            /\ Goto(o, "idle")
    /\ UNCHANGED <<maintenance, binary, prior, processes, before, result>>

------------------------------------------------------------------------------
(* Upgrades                                                                 *)

\* Refused to others, and while anything runs, which changes nothing.
Manage(o, a) ==
    /\ pc[o] = "idle"
    /\ a \in Managements
    /\ o \in AllowedIDs
    /\ action' = [action EXCEPT ![o] = a]
    /\ TryMaintenance(o)
    /\ Goto(o, "version")
    /\ UNCHANGED <<binary, prior, processes, before, result>>

\* Any command of the manager may fail, an installation halfway.
Fail(o) ==
    /\ pc[o] \in {"version", "install", "restore"}
    /\ binary' \in IF pc[o] = "version" THEN {binary} ELSE Versions
    /\ Says(o, "failed", {})
    /\ Goto(o, "unlock")
    /\ UNCHANGED <<active, maintenance, prior, action, held, processes, before>>

\* Mutant: an upgrade does not remember where it started.
VersionForgotten(o) ==
    /\ pc[o] = "version"
    /\ action[o] = "rollback" => prior # {}
    /\ before' = [before EXCEPT ![o] = {binary}]
    /\ prior' = IF prior = {} THEN {binary} ELSE prior
    /\ Goto(o, "install")
    /\ UNCHANGED <<active, maintenance, binary, action, held, processes, result>>

\* Upgrade notes the version it finds; Rollback fails when none was noted.
Version(o) ==
    /\ pc[o] = "version"
    /\ action[o] = "rollback" => prior # {}
    /\ before' = [before EXCEPT ![o] = {binary}]
    /\ prior' = IF action[o] = "upgrade" THEN {binary} ELSE prior
    /\ Goto(o, "install")
    /\ UNCHANGED <<active, maintenance, binary, action, held, processes, result>>

\* "upgrade", to whatever is current, or "upgrade <prior>", and the version
\* after it.
Install(o) ==
    /\ pc[o] = "install"
    /\ binary' \in IF action[o] = "upgrade" THEN Versions ELSE prior
    /\ Goto(o, "verify")
    /\ UNCHANGED <<active, maintenance, prior, action, held, processes, before, result>>

\* The probe of what was installed: an upgrade that fails it is rolled back.
Verify(o, passes) ==
    /\ pc[o] = "verify"
    /\ CASE passes -> Says(o, "done", {binary}) /\ Goto(o, "unlock")
         [] ~passes /\ action[o] = "rollback" -> Says(o, "failed", {}) /\ Goto(o, "unlock")
         [] OTHER -> Goto(o, "restore") /\ UNCHANGED result
    /\ UNCHANGED <<active, maintenance, binary, prior, action, held, processes, before>>

\* Manager.Rollback: "upgrade <prior>" and the version after it.
Restore(o) ==
    /\ pc[o] = "restore"
    /\ prior # {}
    /\ binary' \in prior
    /\ Goto(o, "reverify")
    /\ UNCHANGED <<active, maintenance, prior, action, held, processes, before, result>>

\* The error of the upgrade says what became of the rollback.
Reverify(o, passes) ==
    /\ pc[o] = "reverify"
    /\ IF passes THEN Says(o, "rolled back", {binary}) ELSE Says(o, "unverified", {binary})
    /\ Goto(o, "unlock")
    /\ UNCHANGED <<active, maintenance, binary, prior, action, held, processes, before>>

Unlock(o) ==
    /\ pc[o] = "unlock"
    /\ maintenance' = FALSE
    /\ action' = [action EXCEPT ![o] = "run"]
    /\ before' = [before EXCEPT ![o] = {}]
    /\ Says(o, "none", {})
    /\ Goto(o, "idle")
    /\ UNCHANGED <<active, binary, prior, held, processes>>

Operation(o) ==
    \/ Step(o) \/ Launch(o) \/ Terminate(o) \/ Release(o)
    \/ Fail(o) \/ Version(o) \/ Install(o) \/ Restore(o) \/ Unlock(o)
    \/ \E passes \in BOOLEAN : Verify(o, passes) \/ Reverify(o, passes)

Next ==
    \E o \in Operations :
        \/ \E a \in Invocations : Invoke(o, a)
        \/ \E a \in Managements : Manage(o, a)
        \/ Operation(o)

Spec == Init /\ [][Next]_vars

------------------------------------------------------------------------------
(* Properties                                                               *)

\* The variables keep their types.
TypeOK ==
    /\ active \in Nat
    /\ maintenance \in BOOLEAN
    /\ binary \in Versions
    /\ prior \subseteq Versions
    /\ pc \in [Operations -> {"idle"} \cup Using \cup Maintaining]
    /\ action \in [Operations -> Invocations \cup Managements]
    /\ held \in [Operations -> Nat]
    /\ processes \subseteq Operations
    /\ before \in [Operations -> SUBSET Versions]

\* While the executable may be replaced, one operation replaces it and no
\* process of it is there, of whatever call, workflow or step of a workflow:
\* nor can a workflow that was let in be refused at a later step (TryInvocation
\* and TryMaintenance share two fields and no queue).
MaintenanceIsAlone ==
    \A o \in Operations : pc[o] \in Maintaining =>
        /\ maintenance
        /\ processes = {}
        /\ \A other \in Operations \ {o} : pc[other] = "idle"

\* What an upgrade or a rollback answers was so when it answered: a version
\* that is reported is installed, and one said to be rolled back to is the one
\* the upgrade had found, after commands of which each can fail halfway
\* (Upgrade, Manager.Rollback).
VerdictIsTrue ==
    \A o \in Operations : pc[o] = "unlock" =>
        /\ result[o].verdict \in {"done", "rolled back", "unverified"} =>
               result[o].version = {binary}
        /\ result[o].verdict \in {"rolled back", "unverified"} => {binary} = before[o]
=============================================================================
