---------------------------- MODULE MCDefinitions ----------------------------
(* The directories of definitions that RootTools starts from: some that are *)
(* right, and for every field, reference and bound one that is not.         *)
EXTENDS Naturals, Sequences, FiniteSets, TLC

\* Definitions: one provider of each type, a root and a child of each class.
Profile(fields) == [q |-> [fields |-> fields, bad |-> {}]]
API == [name |-> "api", type |-> "openai_compatible", fields |-> {"base_url", "api_key_env"}, bad |-> {},
        profiles |-> Profile({"model"})]
CLI == [name |-> "cli", type |-> "agent_cli", fields |-> {"shim"}, bad |-> {},
        profiles |-> Profile({"model", "approval"})]
ACP == [name |-> "acp", type |-> "acp", fields |-> {"command", "args"}, bad |-> {},
        profiles |-> Profile({"config_options"})]
Ref(p) == [provider |-> p, profile |-> "q"]

RootAgent == [name |-> "root_agent", class |-> "LlmAgent", bad |-> {}, ref |-> Ref("api"),
              fields |-> {"instruction", "model", "global_instruction"}, tools |-> <<>>, workflows |-> <<>>]
Child == [name |-> "child", class |-> "LlmAgent", bad |-> {}, ref |-> Ref("api"),
          fields |-> {"instruction", "model", "description", "tool_scope"}, tools |-> <<>>, workflows |-> <<>>]
CLIChild == [Child EXCEPT !.ref = Ref("cli"), !.fields = @ \ {"tool_scope"}]
ACPChild == [Child EXCEPT !.ref = Ref("acp"), !.class = "AcpAgent",
                          !.fields = {"instruction", "description", "runtime", "confirmation"}]

With(root, child) == [providers |-> <<API, CLI, ACP>>, agents |-> <<root, child>>]
Offering == [RootAgent EXCEPT !.tools = <<"child">>, !.fields = @ \cup {"agent_tools"}]

\* One field more or less, in every place.
ProviderFields == {"base_url", "api_key_env", "headers", "shim", "command", "args"}
ProfileFields == {"model", "reasoning_effort", "extra_body", "generate_content_config", "agent",
                  "approval", "variant", "config_options", "permission_option_kind"}
AgentFields == {"description", "model", "runtime", "instruction", "global_instruction",
                "include_contents", "mode", "durable_session", "tool_scope", "timeout_seconds",
                "role", "confirmation"}
Toggle(set, x) == IF x \in set THEN set \ {x} ELSE set \cup {x}

Children == {Child, CLIChild, ACPChild}
Good == {With(Offering, c) : c \in Children}
Definitions ==
    Good
    \cup UNION {{[With(Offering, c) EXCEPT !.providers[i].fields = Toggle(@, f)] :
                    c \in Children, i \in 1..3} : f \in ProviderFields}
    \cup UNION {{[With(Offering, c) EXCEPT !.providers[i].profiles["q"].fields = Toggle(@, f)] :
                    c \in Children, i \in 1..3} : f \in ProfileFields}
    \cup UNION {{[With(Offering, c) EXCEPT !.agents[i].fields = Toggle(@, f)] :
                    c \in Children, i \in 1..2} : f \in AgentFields}
    \cup UNION {{[d EXCEPT !.providers[i].bad = {"command"}], [d EXCEPT !.providers[i].type = "other"],
                 [d EXCEPT !.providers[i].profiles["q"].bad = {"approval"}],
                 [d EXCEPT !.providers[i].name = "other"]} : d \in Good, i \in 1..3}
    \cup UNION {{[d EXCEPT !.agents[2].ref = Ref(p)], [d EXCEPT !.agents[1].ref = Ref(p)]} :
                    d \in Good, p \in {"cli", "acp", "none"}}
    \cup UNION {{[d EXCEPT !.agents[1].tools = t] : t \in {<<"root_agent">>, <<"child", "child">>, <<"none">>}} : d \in Good}
    \cup UNION {{[d EXCEPT !.agents[2].name = n] : n \in {"root_agent", "other"}} : d \in Good}
    \cup {[d EXCEPT !.agents[2].tools = <<"child">>, !.agents[2].fields = @ \cup {"agent_tools"}] : d \in Good}

\* Workflows.
Leaf == [class |-> "LlmAgent", name |-> "leaf", description |-> TRUE, sound |-> TRUE,
         fields |-> {"model", "instruction"}, subs |-> <<>>, iterations |-> 0, model |-> Ref("api"),
         instruction |-> TRUE, contents |-> "", tools |-> <<>>, project |-> "", directories |-> {},
         schema |-> "", key |-> ""]
Tool(n) == [name |-> n, args |-> FALSE]
Using(t) == [Leaf EXCEPT !.tools = <<Tool(t)>>, !.fields = @ \cup {"tools"}]
Above(class, subs) ==
    [Leaf EXCEPT !.class = class, !.subs = subs, !.model = Ref("none"), !.instruction = FALSE,
                 !.iterations = IF class = "LoopAgent" THEN 2 ELSE 0,
                 !.fields = {"sub_agents"} \cup IF class = "LoopAgent" THEN {"max_iterations"} ELSE {}]
Named(doc, n) == [doc EXCEPT !.name = n]
Git == [Leaf EXCEPT !.class = "AcpAgent", !.model = Ref("acp"), !.fields = {"runtime", "instruction", "project"},
                    !.project = "{target_project}", !.directories = {"{worktree_root}"},
                    !.schema = "git_delivery_result", !.key = "git"]

WorkflowPaths == {"root_agent.yaml", "a", "b", "c", "l"}
Target(l) == [p \in WorkflowPaths |-> IF p = "l" THEN l ELSE p]
Structures ==
    {[target |-> Target(l), document |->
        ("root_agent.yaml" :> Named(Above(rc, rs), "root") @@ "a" :> Named(IF as = <<>> THEN Leaf ELSE Above(ac, as), "a")
          @@ "b" :> Named(IF bs = <<>> THEN Using(t) ELSE Above("SequentialAgent", bs), "b") @@ "c" :> Named(Using(t), cn))] :
       l \in {"a", "c", "outside"}, rc \in {"SequentialAgent"}, ac \in {"LoopAgent"},
       rs \in {<<"a">>, <<"b">>, <<"a", "b">>, <<"b", "a">>, <<"a", "l">>, <<"l", "b">>},
       as \in {<<>>, <<"root_agent.yaml">>, <<"b">>, <<"c">>, <<"l">>, <<"b", "c">>, <<"c", "b">>, <<"c", "l">>, <<"b", "b">>},
       bs \in {<<>>, <<"a">>, <<"c">>, <<"l">>}, t \in {"exit_loop", "read_file"}, cn \in {"c", "b"}}

\* A pull-request workflow with its refinement loop, with and without the delivery.
Trd(last, n, leaf) == [target |-> [p \in {"root_agent.yaml", "a", "b", "c", "l", "g", "x"} |-> p],
    document |-> ("x" :> Named(Leaf, "extra") @@ "root_agent.yaml" :> Named(Above("SequentialAgent", <<"a", "l", last>>), n)
                   @@ "a" :> Named(leaf, "writer") @@ "b" :> Named(Leaf, "refiner")
                   @@ "c" :> Named(Using("exit_loop"), "critic")
                   @@ "l" :> Named(Above("LoopAgent", <<"c", "b">>), "refinement")
                   @@ "g" :> Named(Git, "git"))]
Plain == Trd("g", "pipeline", Leaf)

\* One thing wrong, or right, with one document.
Writers == {Leaf, Using("read_file"), Using("list_messages"), Using("exit_loop"), Using("create_canvas"),
            [Using("read_file") EXCEPT !.tools[1].args = TRUE],
            [Using("read_file") EXCEPT !.tools = <<@[1], @[1]>>],
            [Leaf EXCEPT !.model = Ref("cli")],
            [Leaf EXCEPT !.model = Ref("cli"), !.contents = "none"],
            [Using("read_file") EXCEPT !.model = Ref("cli"), !.contents = "none"],
            [Leaf EXCEPT !.model = Ref("acp")], [Leaf EXCEPT !.model = Ref("none")],
            [Leaf EXCEPT !.instruction = FALSE], [Leaf EXCEPT !.contents = "all"],
            [Leaf EXCEPT !.sound = FALSE], [Leaf EXCEPT !.class = "ParallelAgent"],
            [Leaf EXCEPT !.fields = @ \cup {"sub_agents"}], Git}
            \cup {[Git EXCEPT !.model = Ref("api")], [Git EXCEPT !.project = "/"], [Git EXCEPT !.directories = {"/"}],
                  [Git EXCEPT !.schema = "other"], [Git EXCEPT !.key = ""], [Git EXCEPT !.schema = ""]}
            \cup {Above("SequentialAgent", <<"x">>), Above("SequentialAgent", <<"g">>)}
            \cup {[Above("LoopAgent", <<"x">>) EXCEPT !.subs = <<>>], [Above("SequentialAgent", <<"x">>) EXCEPT !.subs = <<>>]}

Configuration == [defs |-> With(RootAgent, Child), dirs |-> "w" :> Plain, sandbox |-> TRUE, canvas |-> TRUE,
                  exports |-> TRUE, projects |-> {"p", "q"}]
Running(c, id, dir) ==
    [c EXCEPT !.dirs = id :> dir,
              !.defs.agents[1].workflows = <<id>>, !.defs.agents[1].fields = @ \cup {"workflow_tools"}]

EverySetup ==
    {[Configuration EXCEPT !.defs = d] : d \in Definitions}
    \cup {Running([Configuration EXCEPT !.projects = {}], "w", dir) : dir \in Structures}
    \cup {Running([Configuration EXCEPT !.sandbox = sb], id, Trd("g", "pipeline", w)) :
             w \in Writers, id \in {"w", "trd_generator"}, sb \in {TRUE, FALSE}}
    \cup {Running([Configuration EXCEPT !.defs = With(Offering, Named(c, n)), !.defs.agents[1].tools = <<n>>, !.sandbox = sb,
                       !.canvas = cv, !.exports = cv, !.projects = IF sb THEN {"p"} ELSE pr],
                  id, Trd(last, m, w)) :
             c \in Children, n \in {"child", "read_file", "create_canvas", "pipeline"}, m \in {"pipeline", "list_repos", "create_canvas"},
             sb \in BOOLEAN, cv \in BOOLEAN, pr \in {{}, {"p"}}, id \in {"w", "trd_generator"},
             last \in {"g", "c"}, w \in {Leaf, Using("read_file")}}

Delivery == [wellFormed |-> TRUE, status |-> "success", repository |-> "p", worktree |-> "own", url |-> "http",
             complete |-> TRUE, path |-> "relative"]
Reports == {[d EXCEPT !.status = s, !.url = IF s = "success" THEN @ ELSE "", !.worktree = w, !.repository = r] :
               d \in {Delivery}, s \in {"success", "failed"}, w \in {"", "own", "other"}, r \in {"p", "q"}}
           \cup {[Delivery EXCEPT !.wellFormed = FALSE], [Delivery EXCEPT !.status = "other"],
                 [Delivery EXCEPT !.url = ""], [Delivery EXCEPT !.complete = FALSE],
                 [Delivery EXCEPT !.path = "absolute"], [Delivery EXCEPT !.status = "failed"]}
==============================================================================
