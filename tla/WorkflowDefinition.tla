-------------------------- MODULE WorkflowDefinition --------------------------
(* Loading a workflow: a root document that refers to others by path, links   *)
(* followed, read depth first (internal/agentdef/workflow_loader.go).         *)
(*                                                                            *)
(* A directory is [target, document]: what each path leads to once its links  *)
(* are resolved, and the documents there are. A path that leads to a missing  *)
(* file, out of the workflow's directory, to a directory or to a file that is *)
(* not YAML leads to no document. Of a document, "fields" are those it states *)
(* besides agent_class, name and description; the fields nothing here tells   *)
(* apart are in "sound".                                                      *)
EXTENDS Naturals, Sequences, FiniteSets, SequencesExt

CONSTANTS
    MaxDepth,           \* maxWorkflowDepth
    MaxNodes,           \* maxWorkflowNodes
    MaxLoopIterations   \* maxLoopIterations

RootFile == "root_agent.yaml"

ClassFields == [
    LlmAgent |-> {"model", "instruction", "include_contents", "output_key", "tools",
                  "disallow_transfer_to_parent", "disallow_transfer_to_peers"},
    AcpAgent |-> {"runtime", "instruction", "output_key", "output_schema", "project",
                  "additional_directories"},
    SequentialAgent |-> {"sub_agents"},
    LoopAgent |-> {"sub_agents", "max_iterations"}]

\* What reading one document accepts, whatever the others say.
decodeWorkflowDocument(doc) ==
    /\ doc.sound
    /\ doc.class \in DOMAIN ClassFields
    /\ doc.fields \subseteq ClassFields[doc.class]
    /\ doc.class = "LoopAgent" => doc.iterations > 0

Refused == [ok |-> FALSE, documents |-> {}]

\* The documents a document refers to; of an accepted one, only a sequence and a
\* loop state any.
SubAgents(doc) == IF doc.class \in {"SequentialAgent", "LoopAgent"} THEN doc.subs ELSE <<>>

\* Mutant: a document that is being read is the only one that is not read again.
UnreadAbove(file, documents, active) == file \notin active

Unread(file, documents, active) == file \notin active \cup documents

\* The calls that read one path, after the documents read before it and below
\* those being read.
Visits(dir) == [path : DOMAIN dir.target,
                documents : SUBSET DOMAIN dir.document, active : SUBSET DOMAIN dir.document]

\* What reading the references of a document gives, one after the other, when
\* "load" is what a visit gives one level below it.
LoadInOrder(load, refs, documents, active) ==
    LET upTo[n \in 0..Len(refs)] ==
            IF n = 0 THEN [ok |-> TRUE, documents |-> documents]
            ELSE IF upTo[n - 1].ok
                 THEN load[[path |-> refs[n], documents |-> upTo[n - 1].documents, active |-> active]]
            ELSE Refused
    IN  upTo[Len(refs)]

loadWorkflowDocument(dir, load) ==
    [visit \in Visits(dir) |->
        LET file == dir.target[visit.path]
            doc == dir.document[file]
            below == LoadInOrder(load, SubAgents(doc), visit.documents, visit.active \cup {file})
        IN  IF /\ file \in DOMAIN dir.document
               /\ Unread(file, visit.documents, visit.active)
               /\ Cardinality(visit.documents) + Cardinality(visit.active) < MaxNodes
               /\ decodeWorkflowDocument(doc)
               /\ below.ok
            THEN [ok |-> TRUE, documents |-> below.documents \cup {file}]
            ELSE Refused]

\* The same, when a number of levels is left before maxWorkflowDepth is exceeded.
Loading(dir) ==
    LET load[left \in 0..MaxDepth] ==
            IF left = 0 THEN [visit \in Visits(dir) |-> Refused]
            ELSE loadWorkflowDocument(dir, load[left - 1])
    IN  load

\* Reading a workflow, from its root.
Read(dir) == Loading(dir)[MaxDepth][[path |-> RootFile, documents |-> {}, active |-> {}]]

------------------------------------------------------------------------------
(* The documents a walk meets. It goes on from each to those it refers to,   *)
(* so what it meets is in every set that holds where it starts and that no   *)
(* reference leads out of.                                                   *)

\* Where the references of a document lead.
Targets(dir, file) ==
    LET subs == SubAgents(dir.document[file]) IN {dir.target[subs[i]] : i \in DOMAIN subs}

Closed(dir, files) == \A file \in files : Targets(dir, file) \cap DOMAIN dir.document \subseteq files

Below(dir, file) ==
    {f \in DOMAIN dir.document :
        \A files \in SUBSET DOMAIN dir.document :
            {file} \cap DOMAIN dir.document \subseteq files /\ Closed(dir, files) => f \in files}

OrderedDocuments(dir) == Below(dir, dir.target[RootFile])

\* The documents that are a loop or have one above them.
buildLoopAncestorMap(dir) ==
    UNION {Below(dir, file) : file \in {f \in OrderedDocuments(dir) : dir.document[f].class = "LoopAgent"}}

------------------------------------------------------------------------------

ReadOnlyTools == {"list_messages", "list_repos", "list_directory", "read_file", "list_worktrees"}

\* Mutant: exit_loop is accepted outside a loop.
validateWorkflowToolAnywhere(tool, looped) ==
    /\ ~tool.args
    /\ tool.name \in ReadOnlyTools \cup {"exit_loop"}

validateWorkflowTool(tool, looped) ==
    /\ ~tool.args
    /\ \/ tool.name = "exit_loop" /\ looped
       \/ tool.name \in ReadOnlyTools

\* "models" gives the provider type of every reference that resolves.
validateWorkflowNode(doc, models, looped) ==
    \/ /\ doc.class = "LlmAgent"
       /\ doc.model \in DOMAIN models
       /\ models[doc.model] # "acp"
       /\ models[doc.model] = "agent_cli" => doc.contents = "none" /\ doc.tools = <<>>
       /\ doc.instruction
       /\ doc.contents \in {"", "default", "none"}
       /\ IsInjective([i \in DOMAIN doc.tools |-> doc.tools[i].name])
       /\ \A i \in DOMAIN doc.tools : validateWorkflowTool(doc.tools[i], looped)
    \/ /\ doc.class = "AcpAgent"
       /\ doc.model \in DOMAIN models
       /\ models[doc.model] = "acp"
       /\ doc.instruction
       /\ doc.project = "{target_project}"
       /\ doc.directories \subseteq {"{worktree_root}"}
       /\ doc.schema \in {"", "git_delivery_result"}
       /\ doc.schema # "" => doc.key # ""
    \/ doc.class = "SequentialAgent" /\ doc.subs # <<>>
    \/ doc.class = "LoopAgent" /\ doc.subs # <<>> /\ doc.iterations \in 1..MaxLoopIterations

LoadWorkflow(dir, models) ==
    /\ Read(dir).ok
    /\ \A file, other \in OrderedDocuments(dir) :
            file # other => dir.document[file].name # dir.document[other].name
    /\ dir.document[dir.target[RootFile]].description
    /\ \A file \in OrderedDocuments(dir) :
            validateWorkflowNode(dir.document[file], models, file \in buildLoopAncestorMap(dir))

------------------------------------------------------------------------------
(* What a workflow is, said of its documents instead: a tree, each of them  *)
(* referred to from one place.                                              *)

\* The documents from which every walk ends within so many, and meets nothing else.
Levels(dir) ==
    LET level[n \in 0..MaxDepth] ==
            IF n = 0 THEN {}
            ELSE {file \in DOMAIN dir.document : Targets(dir, file) \subseteq level[n - 1]}
    IN  level

\* Nothing below a document refers to it, and no two references lead to the same.
ReferredOnce(dir, file) ==
    LET subs(f) == SubAgents(dir.document[f])
    IN  \A f, other \in Below(dir, file) : \A i \in DOMAIN subs(f), j \in DOMAIN subs(other) :
            /\ dir.target[subs(f)[i]] # file
            /\ dir.target[subs(f)[i]] = dir.target[subs(other)[j]] => f = other /\ i = j

IsTree(dir) ==
    /\ dir.target[RootFile] \in Levels(dir)[MaxDepth]
    /\ ReferredOnce(dir, dir.target[RootFile])
    /\ \A file \in OrderedDocuments(dir) : decodeWorkflowDocument(dir.document[file])
    /\ Cardinality(OrderedDocuments(dir)) <= MaxNodes

MayExit(doc) == \E i \in DOMAIN doc.tools : doc.tools[i].name = "exit_loop"

\* Reading accepts exactly the trees within the limits, and reads all of each: no
\* document is reached in two ways, or from itself, however the references are
\* spelled. Of what is then accepted, only what is below a loop may leave one.
LoadsTrees(dir, models) ==
    /\ Read(dir).ok <=> IsTree(dir)
    /\ Read(dir).ok => Read(dir).documents = OrderedDocuments(dir)
    /\ LoadWorkflow(dir, models) =>
            \A file \in OrderedDocuments(dir) :
                MayExit(dir.document[file]) => file \in buildLoopAncestorMap(dir)
=============================================================================
