------------------------------ MODULE MCAgents ------------------------------
(* Small instances of the agents behind a turn, a component at a time.      *)
EXTENDS Agents, FiniteSets, MCDefinitions

------------------------------------------------------------------------------
(* An exchange with a request that is right, and one for every thing that   *)
(* can be wrong with it                                                     *)

Right == [valid |-> TRUE, version |-> "supported", agent |-> FALSE, catalog |-> "supported",
          worktree |-> "supported"]

EveryRequest ==
    {Right, [Right EXCEPT !.valid = FALSE], [Right EXCEPT !.version = "other"],
     [Right EXCEPT !.agent = TRUE], [Right EXCEPT !.catalog = "other"],
     [Right EXCEPT !.worktree = "fails"]}

------------------------------------------------------------------------------
(* A project with a directory, a restricted directory and file, a backup    *)
(* copy and two links that may point anywhere, beside a directory that is   *)
(* not its.                                                                 *)

Project == <<"p">>
Directories == {Project, <<"p", "d">>, <<"p", ".git">>, <<"out">>}
Links == {<<"p", "d", "l">>, <<"p", "m">>}
Regular == {<<"p", "d", "f">>, <<"p", "f~">>, <<"p", ".env">>, <<"p", ".git", "f">>,
            <<"out", "f">>}
Here == Directories \cup Regular \cup Links

FileTree(l, m) == [
    dirs |-> Directories, files |-> Regular,
    target |-> [path \in Links |-> IF path = <<"p", "m">> THEN m ELSE l]]

Trees == {FileTree(l, m) : l \in Here \cup {<<"gone">>}, m \in Here}

Asked == {<<".">>, <<"d">>, <<"m">>, <<"d", "l">>, <<"m", "l">>, <<"m", "f">>, <<".git">>,
          <<".env">>, <<"f~">>, <<"d", "..">>, <<"d", "l", "f">>}

------------------------------------------------------------------------------

\* What a component may be told at its start is not told apart in the others.
InitAll ==
    /\ AgentsInit
    /\ part # "acp" => call = CHOOSE c \in Calls : TRUE
    /\ part # "shim" => shim = "any" /\ cliMethod = CHOOSE m \in Methods : TRUE

\* The fairness of each component, see there.
SpecAll ==
    /\ InitAll /\ [][AgentsNext]_agentsVars
    /\ WF_agentsVars(ClientStep(Client)) /\ WF_agentsVars(ClientStep(Reader))
    /\ WF_agentsVars(ClientStep(EndContext)) /\ WF_agentsVars(ClientStep(Read))
    /\ WF_agentsVars(ShimStep(Shim!Host(Shim!Exchange)))
    /\ WF_agentsVars(ShimStep(Shim!Host(Shim!DrainStderr)))
    /\ WF_agentsVars(ShimStep(Shim!Host(Shim!KillOnCancel)))
    /\ WF_agentsVars(ShimStep(Shim!Shim)) /\ WF_agentsVars(ShimStep(Shim!DieWithShim))
    /\ WF_agentsVars(ToolStep(Tools!RunStep))

------------------------------------------------------------------------------

\* See AcpClient, AgentCLI, CodexShim and RootTools: every call of a child ends,
\* and leaves nothing behind.
ChildrenEnd ==
    \/ part = "acp"
    \/ part = "shim" /\ Shim!CodexEnding
    \/ part = "tools" /\ toolPc = "running"
    ~>
    \/ part = "acp" /\ Over
    \/ part = "shim" /\ place = "returned" /\ ~codex
    \/ part = "tools" /\ toolPc # "running"
=============================================================================
