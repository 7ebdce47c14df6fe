------------------------------- MODULE RootTools -------------------------------
(* The tools the root agent is given (internal/app/agent_tools.go and          *)
(* workflow_tools.go): what startup accepts, what every turn then builds from  *)
(* it, and one run of a workflow.                                              *)
(*                                                                             *)
(* A configuration is what an operator wrote: the definitions, the directory   *)
(* of each workflow, whether the sandbox, canvases and exports are on, and the *)
(* registered projects. The order in which ADK runs the nodes of a workflow,   *)
(* and what its exit_loop does, is external.                                   *)
EXTENDS AgentDefinitions, WorkflowDefinition

CONSTANTS
    Configurations, \* what may be configured
    Projects,       \* the names a project may be registered under
    Deliveries      \* what an external agent may report as a delivery

VARIABLES
    config,
    stage,          \* "none", "configured", then "serving" or "refused"
    tools,          \* what the last turn built: [ok, names], no name before the first
    pc,             \* the workflow call: "idle", "running", "answered" or "failed"
    project,        \* the project the call names
    agenda,         \* the nodes and loops still to run, the next one first
    final,          \* the document whose text would be the answer
    done,           \* the documents that ran to their end
    delivered       \* the deliveries accepted in this run

runVars == <<pc, project, agenda, final, done, delivered>>
vars == <<config, stage, tools, runVars>>

------------------------------------------------------------------------------
(* What a configuration is made of, as far as the proofs need it: fields    *)
(* there are, lists of names, references with a path.                       *)

IsProvider(provider) ==
    /\ provider.fields \subseteq ProviderFields
    /\ \A q \in DOMAIN provider.profiles : provider.profiles[q].fields \subseteq ProfileFields

IsDirectory(dir) ==
    /\ RootFile \in DOMAIN dir.target
    /\ IsFiniteSet(DOMAIN dir.document)
    /\ \A file \in DOMAIN dir.document :
            LET doc == dir.document[file]
            IN  /\ doc.subs \in Seq(DOMAIN dir.target)
                /\ "tools" \in doc.fields \/ doc.tools = <<>>
                /\ doc.iterations \in Nat

IsConfiguration(setup) ==
    /\ \A provider \in Range(setup.defs.providers) : IsProvider(provider)
    /\ \A agent \in Range(setup.defs.agents) :
            agent.tools \in Seq(STRING) /\ agent.workflows \in Seq(DOMAIN setup.dirs)
    /\ \A id \in DOMAIN setup.dirs : IsDirectory(setup.dirs[id])
    /\ {setup.sandbox, setup.canvas, setup.exports} \subseteq BOOLEAN

------------------------------------------------------------------------------
(* Startup                                                                  *)

\* The files of one state directory, as the process finds them.
Configure ==
    /\ stage = "none"
    /\ config' \in Configurations
    /\ stage' = "configured"
    /\ UNCHANGED <<tools, runVars>>

Loaded == Load(config.defs)

RootDef == Loaded.agents["root_agent"]

Models ==
    LET providers == Loaded.providers
        refs == UNION {{[provider |-> p, profile |-> q] : q \in DOMAIN providers[p].profiles} :
                          p \in DOMAIN providers}
    IN  [ref \in refs |-> providers[ref.provider].type]

Dir(id) == config.dirs[id]
RootName(id) == Dir(id).document[Dir(id).target[RootFile]].name

\* The documents of a workflow.
Blueprint(id) == {Dir(id).document[file] : file \in OrderedDocuments(Dir(id))}

\* Mutant: nothing asks whether the sandbox is there.
ToolsAreEnabledAnyway == TRUE

\* No tool of the sandbox without it.
ToolsAreEnabled ==
    config.sandbox \/ \A id \in Range(RootDef.workflows) : \A doc \in Blueprint(id) :
        {doc.tools[i].name : i \in DOMAIN doc.tools} \subseteq {"exit_loop", "list_messages"}

\* What the children and the workflows of the root are called; there is an agent
\* for every child by then.
ConfiguredNames ==
    RootDef.tools \o [i \in DOMAIN RootDef.workflows |-> RootName(RootDef.workflows[i])]

\* Every name once, and none of them of a read-only tool.
ValidateWorkflowComposition ==
    LET names == ConfiguredNames
    IN  /\ IsInjective(names)
        /\ Range(names) \cap ReadOnlyTools = {}
        /\ ToolsAreEnabled

resolveWorkflowNodeTools(doc, index, validateOnly, looped) ==
    \A i \in DOMAIN doc.tools :
        IF doc.tools[i].name = "exit_loop"
        THEN looped
        ELSE validateOnly \/ doc.tools[i].name \in index

\* A node is built after those it refers to, which must have been read.
buildWorkflowNode(dir, file, index, validateOnly) ==
    LET doc == dir.document[file]
    IN  CASE doc.class = "LlmAgent" ->
                /\ doc.model \in DOMAIN Models
                /\ resolveWorkflowNodeTools(doc, index, validateOnly, file \in buildLoopAncestorMap(dir))
          [] doc.class = "AcpAgent" ->
                /\ doc.model \in DOMAIN Models
                /\ doc.project = "{target_project}"
                /\ doc.directories \subseteq {"{worktree_root}"}
          [] OTHER -> Targets(dir, file) \subseteq DOMAIN dir.document

buildWorkflowAgent(id, index, validateOnly) ==
    \A file \in OrderedDocuments(Dir(id)) : buildWorkflowNode(Dir(id), file, index, validateOnly)

prepareRootAgentTools ==
    \A name \in Range(RootDef.tools) :
        /\ name \in DOMAIN Loaded.agents
        /\ Resolves(Loaded.providers, Loaded.agents[name].ref)

prepareRootWorkflowTools ==
    RootDef.workflows # <<>> =>
        /\ \A id \in Range(RootDef.workflows) : LoadWorkflow(Dir(id), Models)
        /\ ValidateWorkflowComposition
        /\ \A id \in Range(RootDef.workflows) : buildWorkflowAgent(id, {}, TRUE)

Accepted ==
    /\ Loaded.ok
    /\ "root_agent" \in DOMAIN Loaded.agents
    /\ prepareRootAgentTools
    /\ prepareRootWorkflowTools

\* A model that is selected may not be built: its key is missing, or its CLI does
\* not answer the handshake.
Start ==
    /\ stage = "configured"
    /\ \/ Accepted /\ stage' = "serving"
       \/ stage' = "refused"
    /\ UNCHANGED <<config, tools, runVars>>

------------------------------------------------------------------------------
(* A turn                                                                   *)

ExportTools == <<"export_text", "export_markdown", "export_csv", "export_json">>

BaseTools ==
    <<"list_messages">>
        \o (IF config.sandbox
            THEN <<"list_repos", "list_directory", "read_file", "list_worktrees">> ELSE <<>>)
        \o (IF config.canvas THEN <<"create_canvas">> ELSE <<>>)
        \o (IF config.exports THEN ExportTools ELSE <<>>)

ChildIndex == Range(BaseTools) \ {"create_canvas"}

newAcpAgentTool(name) ==
    Loaded.agents[name].class = "AcpAgent" => config.projects # {}

buildAgentTool(id) ==
    IF id = "trd_generator"
    THEN config.projects # {}
    ELSE buildWorkflowAgent(id, ChildIndex, FALSE)

\* The children first, then the workflows, then the direct tools; if one does
\* not build, the turn has none.
ToolsForInvocation ==
    IF /\ \A name \in Range(RootDef.tools) : newAcpAgentTool(name)
       /\ \A id \in Range(RootDef.workflows) : buildAgentTool(id)
    THEN [ok |-> TRUE,
          names |-> ConfiguredNames \o BaseTools]
    ELSE [ok |-> FALSE, names |-> <<>>]

Turn ==
    /\ stage = "serving"
    /\ tools' = ToolsForInvocation
    /\ UNCHANGED <<config, stage, runVars>>

------------------------------------------------------------------------------
(* A call of a workflow, which its user has confirmed                       *)

Workflow == RootDef.workflows[1]

HasACPNode(id) == \E doc \in Blueprint(id) : doc.class = "AcpAgent"

Begin(p) ==
    /\ pc' = "running"
    /\ project' = p
    /\ agenda' = <<[file |-> Dir(Workflow).target[RootFile], left |-> 0]>>
    /\ final' = ""
    /\ done' = {}
    /\ delivered' = {}

EndRun(outcome) ==
    /\ pc' = outcome
    /\ project' = ""
    /\ agenda' = <<>>
    /\ final' = ""
    /\ done' = {}
    /\ delivered' = {}

\* The pull-request workflow names a project, takes an invocation of the
\* external agent, makes its worktree root and probes the agent; each may fail.
\* The others are started with a request only.
Call(p) ==
    /\ stage = "serving" /\ pc = "idle" /\ tools.names # <<>>
    /\ RootDef.workflows # <<>>
    /\ \/ /\ Workflow = "trd_generator"
          /\ \/ p \in config.projects /\ HasACPNode(Workflow) /\ Begin(p)
             \/ EndRun("failed")
       \/ /\ Workflow # "trd_generator"
          /\ Begin("")
    /\ UNCHANGED <<config, stage, tools>>

\* The next node, what it runs, and the agenda once it is through.
Current == Head(agenda)
Doc(frame) == Dir(Workflow).document[frame.file]
Children(frame) ==
    LET subs == SubAgents(Doc(frame))
    IN  [i \in DOMAIN subs |-> [file |-> Dir(Workflow).target[subs[i]], left |-> 0]]

\* exit_loop drops what is left of a loop around it, the innermost or one further
\* out.
AfterExit(frames) ==
    {SubSeq(frames, i + 1, Len(frames)) : i \in {j \in DOMAIN frames : frames[j].left > 0}}

Running(class) == pc = "running" /\ agenda # <<>> /\ Doc(Current).class = class

Through(rest) ==
    /\ agenda' = rest
    /\ done' = done \cup {Current.file}
    /\ UNCHANGED <<config, stage, tools, pc, project>>

Sequential ==
    /\ Running("SequentialAgent")
    /\ Through(Children(Current) \o Tail(agenda))
    /\ UNCHANGED <<final, delivered>>

\* Mutant: the rounds of a loop are not counted.
RoundsKept(left) == left
RoundsAfter(left) == left - 1

\* A loop stays on the agenda, below its children, with the rounds it has left.
Loop ==
    /\ Running("LoopAgent")
    /\ LET left == IF Current.left = 0 THEN Doc(Current).iterations + 1 ELSE Current.left
       IN  IF left = 1
           THEN Through(Tail(agenda))
           ELSE Through(Children(Current) \o <<[Current EXCEPT !.left = RoundsAfter(left)]>> \o Tail(agenda))
    /\ UNCHANGED <<final, delivered>>

FailRun == EndRun("failed") /\ UNCHANGED <<config, stage, tools>>

Model ==
    /\ Running("LlmAgent")
    /\ \/ /\ final' \in {final, Current.file}
          /\ \/ Through(Tail(agenda))
             \/ MayExit(Doc(Current)) /\ \E rest \in AfterExit(agenda) : Through(rest)
          /\ UNCHANGED delivered
       \/ FailRun

\* Mutant: the worktree of a delivery is not looked at.
OfRunAnywhere(delivery, p) == delivery.repository = p

\* What a delivery must say of the project and the worktree of the run.
OfRun(delivery, p) == delivery.repository = p /\ delivery.worktree \in {"", "own"}

Validate(delivery, p) ==
    /\ delivery.wellFormed
    /\ delivery.status \in {"success", "blocked", "failed"}
    /\ OfRun(delivery, p)
    /\ IF delivery.status = "success"
       THEN delivery.url = "http" /\ delivery.complete /\ delivery.path = "relative"
       ELSE delivery.url = ""

\* A node of an external agent. The project and the worktree root are in the
\* state of the pull-request workflow only; a delivery is parsed, any other
\* output is taken as it is.
External ==
    /\ Running("AcpAgent")
    /\ \/ /\ project \in config.projects
          /\ \/ /\ Doc(Current).schema = ""
                /\ final' \in {final, Current.file}
                /\ UNCHANGED delivered
             \/ /\ Doc(Current).schema = "git_delivery_result"
                /\ \E delivery \in Deliveries :
                        /\ Validate(delivery, project)
                        /\ delivered' = delivered \cup {delivery}
                /\ final' = Current.file
          /\ Through(Tail(agenda))
       \/ FailRun

\* No text at all is a failure.
Finish ==
    /\ pc = "running" /\ agenda = <<>>
    /\ IF final = ""
       THEN FailRun
       ELSE /\ pc' = "answered"
            /\ UNCHANGED <<config, stage, tools, project, agenda, final, done, delivered>>

Return ==
    /\ pc \in {"answered", "failed"}
    /\ EndRun("idle")
    /\ UNCHANGED <<config, stage, tools>>

RunStep == Sequential \/ Loop \/ Model \/ External \/ Finish

------------------------------------------------------------------------------

Init ==
    /\ config = <<>>
    /\ stage = "none"
    /\ tools = [ok |-> TRUE, names |-> <<>>]
    /\ pc = "idle"
    /\ project = ""
    /\ agenda = <<>>
    /\ final = ""
    /\ done = {}
    /\ delivered = {}

Next ==
    \/ Configure
    \/ Start
    \/ Turn
    \/ \E p \in Projects : Call(p)
    \/ RunStep
    \/ Return

Fairness == WF_vars(RunStep)
Spec == Init /\ [][Next]_vars /\ Fairness

------------------------------------------------------------------------------
(* Properties                                                               *)

\* Tools that need a registered project.
NeedsProjects ==
    \/ "trd_generator" \in Range(RootDef.workflows)
    \/ \E name \in Range(RootDef.tools) : Loaded.agents[name].class = "AcpAgent"

\* What startup accepted, every turn can build: no turn of a serving process
\* is without its tools. Two things are not looked at when the process starts:
\* that there is a project for the tools that need one, and a child or a
\* workflow with the name of a tool that is not read-only.
StartedBuilds == (tools.names # <<>> \/ ~tools.ok) =>
    /\ (NeedsProjects => config.projects # {}) => tools.ok
    /\ \/ RootDef.workflows = <<>>
       \/ Range(ConfiguredNames) \cap (Range(ExportTools) \cup {"create_canvas"}) # {}
       \/ IsInjective(tools.names)

\* Every workflow directory is read exactly when it is a tree.
OnlyTreesLoad ==
    stage = "configured" /\ Loaded.ok =>
        \A id \in DOMAIN config.dirs : LoadsTrees(Dir(id), Models)

\* Nothing of the definitions in use is left unread.
DefinitionsAreRead == stage = "configured" => NothingIgnored(config.defs)

\* A run that answers left no node outside a loop undone, and what it delivered
\* is of the project it was asked for, in the worktree root it was given.
AnswerIsEarned ==
    pc = "answered" =>
        /\ OrderedDocuments(Dir(Workflow)) \subseteq done \cup buildLoopAncestorMap(Dir(Workflow))
        /\ \A delivery \in delivered : delivery.repository = project /\ delivery.worktree # "other"

\* A run ends, whatever its loops and its models do.
RunEnds == pc = "running" ~> pc # "running"
=============================================================================
