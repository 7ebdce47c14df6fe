--------------------------- MODULE AgentDefinitions ---------------------------
(* The provider and agent files an operator writes, what loading accepts of   *)
(* them (internal/agentdef/loader.go), and what resolving a model reference   *)
(* reads of them afterwards (resolver.go).                                    *)
(*                                                                            *)
(* A file is the set of fields it states. A field whose value loading refuses *)
(* (empty where a value is needed, malformed, out of its enumeration) is also *)
(* in "bad"; other values are left out. A model reference is a provider and a *)
(* profile.                                                                   *)
EXTENDS Naturals, Sequences, FiniteSets, Functions

ProviderTypes == {"openai_compatible", "agent_cli", "acp"}

\* What a field may not be stated for, by the type of the provider.
ForbiddenToProvider == [
    openai_compatible |-> {"shim", "command", "args"},
    agent_cli |-> {"base_url", "api_key_env", "headers", "command", "args"},
    acp |-> {"base_url", "api_key_env", "headers", "shim"}]

\* Mutant: a profile of a model may say what is for a command line.
ForbiddenToProfileOfModel == [
    openai_compatible |-> {}, agent_cli |-> {}, acp |-> {"model"}]

ForbiddenToProfile == [
    openai_compatible |-> {"agent", "approval", "variant", "config_options", "permission_option_kind"},
    agent_cli |-> {"reasoning_effort", "extra_body", "generate_content_config", "config_options",
                   "permission_option_kind"},
    acp |-> {"model", "agent", "approval", "variant", "reasoning_effort", "extra_body",
             "generate_content_config"}]

RequiredOfProvider == [
    openai_compatible |-> {"base_url", "api_key_env"},
    agent_cli |-> {"shim"},
    acp |-> {"command"}]

RequiredOfProfile == [
    openai_compatible |-> {"model"},
    agent_cli |-> {"model"},
    acp |-> {"config_options"}]

validateProfile(type, profile) ==
    /\ profile.bad = {}
    /\ RequiredOfProfile[type] \subseteq profile.fields
    /\ profile.fields \cap ForbiddenToProfile[type] = {}

validateProvider(provider) ==
    /\ provider.bad = {}
    /\ provider.type \in ProviderTypes
    /\ RequiredOfProvider[provider.type] \subseteq provider.fields
    /\ provider.fields \cap ForbiddenToProvider[provider.type] = {}
    /\ DOMAIN provider.profiles # {}
    /\ \A name \in DOMAIN provider.profiles :
            validateProfile(provider.type, provider.profiles[name])

\* The fields there are: reading refuses any other.
ProviderFields == {"shim", "command", "args", "base_url", "api_key_env", "headers"}
ProfileFields == {"model", "agent", "approval", "variant", "reasoning_effort", "extra_body",
                  "generate_content_config", "config_options", "permission_option_kind"}

------------------------------------------------------------------------------
(* Agents. "ref" is the model, or the runtime of an ACP agent.              *)

Resolves(providers, ref) ==
    /\ ref.provider \in DOMAIN providers
    /\ ref.profile \in DOMAIN providers[ref.provider].profiles

TypeOfReference(providers, ref) == providers[ref.provider].type

OnlyOfModels == {"model", "include_contents", "mode", "durable_session", "tool_scope",
                 "agent_tools", "workflow_tools", "timeout_seconds", "role", "global_instruction"}

validateAcpAgent(agent, providers) ==
    /\ {"runtime", "confirmation"} \subseteq agent.fields
    /\ agent.fields \cap OnlyOfModels = {}
    /\ Resolves(providers, agent.ref)
    /\ TypeOfReference(providers, agent.ref) = "acp"

validateModelAgent(agent, providers) ==
    /\ "model" \in agent.fields
    /\ agent.fields \cap {"runtime", "confirmation"} = {}
    /\ Resolves(providers, agent.ref)
    /\ TypeOfReference(providers, agent.ref) # "acp"
    /\ (agent.name = "root_agent") <=> ("global_instruction" \in agent.fields)

validateAgent(agent, providers) ==
    /\ agent.bad = {}
    /\ "instruction" \in agent.fields
    /\ \/ agent.class = "AcpAgent" /\ validateAcpAgent(agent, providers)
       \/ agent.class = "LlmAgent" /\ validateModelAgent(agent, providers)

\* What an agent must be to be offered to the root as a tool.
ToolTarget(agent, providers) ==
    /\ "description" \in agent.fields
    /\ agent.fields \cap {"agent_tools", "durable_session", "role"} = {}
    /\ agent.ref.provider \in DOMAIN providers =>
            CASE TypeOfReference(providers, agent.ref) = "agent_cli" -> "tool_scope" \notin agent.fields
              [] TypeOfReference(providers, agent.ref) = "openai_compatible" -> "tool_scope" \in agent.fields
              [] TypeOfReference(providers, agent.ref) = "acp" -> agent.class = "AcpAgent"
              [] OTHER -> FALSE

validateAgentTools(agents, providers) ==
    \A owner \in Range(agents) : owner.tools # <<>> =>
        /\ owner.name = "root_agent"
        /\ owner.ref.provider \in DOMAIN providers =>
                TypeOfReference(providers, owner.ref) = "openai_compatible"
        /\ IsInjective(owner.tools)
        /\ \A name \in Range(owner.tools) :
                /\ name \in DOMAIN agents \ {owner.name}
                /\ ToolTarget(agents[name], providers)

validateWorkflowTools(agents, providers) ==
    \A owner \in Range(agents) : owner.workflows # <<>> =>
        /\ owner.name = "root_agent"
        /\ owner.ref.provider \in DOMAIN providers
        /\ TypeOfReference(providers, owner.ref) = "openai_compatible"
        /\ IsInjective(owner.workflows)

\* The files of the two directories, which are keyed by the names they state:
\* a name stated twice is refused while they are read.
Load(defs) ==
    LET providers == [name \in {p.name : p \in Range(defs.providers)} |->
                        CHOOSE p \in Range(defs.providers) : p.name = name]
        agents == [name \in {a.name : a \in Range(defs.agents)} |->
                        CHOOSE a \in Range(defs.agents) : a.name = name]
        names(files) == [i \in DOMAIN files |-> files[i].name]
    IN  [ok |-> /\ IsInjective(names(defs.providers))
                /\ IsInjective(names(defs.agents))
                /\ defs.providers # <<>>
                /\ \A p \in Range(providers) : validateProvider(p)
                /\ defs.agents # <<>>
                /\ \A a \in Range(agents) : validateAgent(a, providers)
                /\ validateAgentTools(agents, providers)
                /\ validateWorkflowTools(agents, providers),
         providers |-> providers,
         agents |-> agents]

------------------------------------------------------------------------------
(* What is read of a provider and of its profile when a reference resolves. *)

ResolveModel(providers, ref) ==
    LET type == TypeOfReference(providers, ref)
    IN  CASE type = "acp" ->
                [provider |-> {"command", "args"},
                 profile |-> {"config_options", "permission_option_kind"}]
          [] type = "agent_cli" ->
                [provider |-> {"shim"},
                 profile |-> {"model", "agent", "approval", "variant"}]
          [] OTHER ->
                [provider |-> {"base_url", "api_key_env", "headers"},
                 profile |-> {"model", "reasoning_effort", "extra_body", "generate_content_config"}]

\* What may be left out without refusing to start.
Optional == {"args", "headers", "permission_option_kind", "agent", "approval", "variant",
             "reasoning_effort", "extra_body", "generate_content_config"}

\* The reference of an agent of accepted definitions resolves to a model whose
\* every needed field was stated, and nothing an operator stated about a
\* provider or profile in use is left unread.
NothingIgnored(defs) ==
    LET loaded == Load(defs)
    IN  loaded.ok =>
            \A agent \in Range(loaded.agents) :
                /\ Resolves(loaded.providers, agent.ref)
                /\ LET provider == loaded.providers[agent.ref.provider]
                       profile == provider.profiles[agent.ref.profile]
                       read == ResolveModel(loaded.providers, agent.ref)
                   IN  /\ provider.fields \subseteq read.provider
                       /\ profile.fields \subseteq read.profile
                       /\ read.provider \ Optional \subseteq provider.fields
                       /\ read.profile \ Optional \subseteq profile.fields
=============================================================================
