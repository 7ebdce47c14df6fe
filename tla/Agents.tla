------------------------------- MODULE Agents -------------------------------
(* The agents behind a turn: one call of an agent that speaks ACP, one      *)
(* exchange with a shim, the definitions of the agents and workflows with   *)
(* the runs of a workflow, and the files that the tools of an agent reach.  *)
(* They share no state, so a behaviour is one of a single component, which  *)
(* "part" names, while the others stay in their initial states. The         *)
(* definitions without a prefix are those of the ACP client.                *)
EXTENDS AcpClient

CONSTANTS
    Methods, MaxLines, MaxEvents, Requests,         \* see CodexShim
    MaxDepth, MaxNodes, MaxLoopIterations,          \* see WorkflowDefinition
    Setups, Projects, Deliveries,                   \* see RootTools, which calls a setup a configuration
    Root, FileSystems, Paths, Backup, MaxLinks      \* see FileSandbox

VARIABLES
    part,
    cliMethod, place, cliAlive, exit, stdout, lines, noise, total, terminal, readErr, cancelled,
    verdict, shim, request, step, codex, codexExit, eventPipe, emitted, taken, candidate,
    parsed, answer,
    config, stage, tools, toolPc, project, agenda, final, done, delivered,
    probe

shimVars == <<cliMethod, place, cliAlive, exit, stdout, lines, noise, total, terminal, readErr,
              cancelled, verdict, shim, request, step, codex, codexExit, eventPipe, emitted,
              taken, candidate, parsed, answer>>
toolVars == <<config, stage, tools, toolPc, project, agenda, final, done, delivered>>
agentsVars == <<part, vars, shimVars, toolVars, probe>>

Shim == INSTANCE CodexShim WITH method <- cliMethod, alive <- cliAlive
Tools == INSTANCE RootTools WITH Configurations <- Setups, pc <- toolPc
Sandbox == INSTANCE FileSandbox

ASSUME MethodsAssumption == Methods \subseteq {"describe", "validate", "run"}
ASSUME MaxLinesAssumption == MaxLines \in Nat
ASSUME RequestsAssumption == Requests \subseteq Shim!RequestType
ASSUME SetupsAssumption == \A setup \in Setups : Tools!IsConfiguration(setup)
ASSUME WorkflowBoundsAssumption == MaxDepth \in Nat /\ MaxNodes \in Nat
ASSUME RootAssumption == Root \in Seq(STRING)
ASSUME FileSystemsAssumption == \A fs \in FileSystems : Sandbox!IsFileSystem(fs)
ASSUME PathsAssumption == Paths \subseteq Seq(STRING)
ASSUME MaxLinksAssumption == MaxLinks \in Nat

------------------------------------------------------------------------------

AgentsInit ==
    /\ part \in {"acp", "shim", "tools", "sandbox"}
    /\ Init
    /\ Shim!Init
    /\ Tools!Init
    /\ Sandbox!Init

ClientStep(A) == part = "acp" /\ A /\ UNCHANGED <<part, shimVars, toolVars, probe>>
ShimStep(A) == part = "shim" /\ A /\ UNCHANGED <<part, vars, toolVars, probe>>
ToolStep(A) == part = "tools" /\ A /\ UNCHANGED <<part, vars, shimVars, probe>>
SandboxStep(A) == part = "sandbox" /\ A /\ UNCHANGED <<part, vars, shimVars, toolVars>>

AgentsNext ==
    \/ ClientStep(Next)
    \/ ShimStep(Shim!Next)
    \/ ToolStep(Tools!Next)
    \/ SandboxStep(Sandbox!Next)

AgentsSpec == AgentsInit /\ [][AgentsNext]_agentsVars

------------------------------------------------------------------------------
(* Properties                                                               *)

\* An answer is all that the agent said from its last answer before the prompt to
\* its answer to the prompt, one of a shim has been earned, and so has that of a
\* workflow (see AcpClient, AgentCLI, CodexShim and RootTools).
AnswersAreEarned ==
    /\ part = "acp" => AnswerIsWhole
    /\ part = "shim" => Shim!VerdictIsDeserved /\ Shim!AnswerIsCompleted
    /\ part = "tools" => Tools!AnswerIsEarned

\* See AgentDefinitions and RootTools: what startup accepts is read to its last
\* field, and builds.
StartIsSound == part = "tools" => Tools!DefinitionsAreRead /\ Tools!StartedBuilds

\* See WorkflowDefinition: a workflow is read exactly when it is a tree.
OnlyTreesLoad == part = "tools" => Tools!OnlyTreesLoad

\* See FileSandbox: a directory lists what the tools read, and nothing else.
ListedIsReadable == part = "sandbox" => Sandbox!ListedIsReadable
=============================================================================
