-------------------------------- MODULE Wiring --------------------------------
(***************************************************************************)
(* agent_runtime/wiring.py: which valid documents the component library    *)
(* builds, which of them contradict their own egress rules, and which      *)
(* component modules a document selects.  Components are named by their    *)
(* modules (COMPONENT_REGISTRY).                                           *)
(***************************************************************************)
EXTENDS SpecModels

CONSTANT LocalTools  \* local_tools.REGISTRY: the in-process tools there are

ChannelModules ==
  [type \in {"dev-http", "webex", "slack"} |->
     CASE type = "dev-http" -> "dev_http"
       [] type = "webex"    -> "webex_channel"
       [] type = "slack"    -> "slack_channel"]

QueueModules ==
  [queue \in {"in-process", "redis"} |->
     IF queue = "redis" THEN "redis_queue" ELSE "memory_queue"]

ProviderModules ==
  [provider \in {"static", "anthropic", "ollama", "openai"} |->
     CASE provider = "static"    -> "static_provider"
       [] provider = "anthropic" -> "anthropic_provider"
       [] provider = "ollama"    -> "ollama_provider"
       [] provider = "openai"    -> "openai_provider"]

Registry ==
  Range(ChannelModules) \cup Range(QueueModules) \cup Range(ProviderModules) \cup
  {"single_session", "prompt_assembler", "model_router", "jsonl_audit", "local_tools",
   "mcp_manager", "postgres_persistence", "sqlite_persistence", "pgvector_memory",
   "facts_memory", "event_intake", "retrieval_history", "schedule_trigger"}

Activations(spec, kind) ==
  IF spec.triggers = None THEN {} ELSE {a \in Range(spec.triggers) : a.kind = kind}

ToolExecutionRequired(spec) == spec.tools # <<>>

Attached(spec, kinds) == {server \in Range(spec.tools) : server.kind \in kinds}

----------------------------------------------------------------------------
(* unimplemented_selections *)

ChannelBuilt(channel) ==
  /\ channel.type \in DOMAIN ChannelModules
  /\ channel.type \in {"webex", "slack"} => channel.verification.method = "signature"
  /\ channel.type = "slack" => channel.transport = "webhook"

GatewayBuilt(gateway) ==
  /\ gateway.queue \in DOMAIN QueueModules
  /\ gateway.concurrency = "serial"
  /\ gateway.allowlist # None => gateway.allowlist.policy \in {"owner-only", "tiered"}
  /\ gateway.identityUnification = "separate"

\* The retrieval index lives on the postgres tier.
SessionsBuilt(sessions, tier) ==
  /\ sessions.definition \in {None, "per-channel", "per-user"}
  /\ sessions.history # None =>
       \/ sessions.history.strategy = "sliding-window"
       \/ sessions.history.strategy = "retrieval" /\ tier = "postgres"

MemoryBuilt(memory) ==
  memory # None =>
    \/ memory.kind = "facts" /\ memory.writePolicy = "user-command"
    \/ /\ memory.kind = "vectors" /\ memory.store = "pgvector"
       /\ memory.corpus = "agent-summaries"
       /\ memory.writePolicy \in {"agent-autonomous", "off"}

ToolsBuilt(spec) ==
  \A server \in Attached(spec, {"local"}) :
    \A grant \in Range(server.allow) : grant.name \in LocalTools

Implemented(spec) ==
  /\ \A channel \in Range(spec.channels) : ChannelBuilt(channel)
  /\ GatewayBuilt(spec.gateway)
  /\ SessionsBuilt(spec.sessions, spec.persistence)
  /\ spec.persona.source = "static"
  /\ MemoryBuilt(spec.memory)
  /\ spec.skills = <<>>
  /\ ToolsBuilt(spec)
  /\ spec.approval.policy = "allowlist-confirm-rest"
  /\ spec.sandbox.profile = "container"
  /\ \A path \in Range(Paths(spec.models)) : path.provider \in DOMAIN ProviderModules
  /\ spec.health \in {None, "/healthz"}
  /\ spec.persistence \in {"sqlite", "postgres"}

----------------------------------------------------------------------------
(* egress_violations *)

\* Mutant of EntryAllows: a wildcard covers its apex too.
ApexAllows(entry, host, port) ==
  /\ entry.port \in {None, port}
  /\ IF Head(entry.host) = "*" THEN SubdomainOrApex(host, entry.host) ELSE host = entry.host

\* _egress_entry_allows: this module's own matcher, next to keep_spec's.
EntryAllows(entry, host, port) ==
  /\ entry.port \in {None, port}
  /\ IF Head(entry.host) = "*" THEN SubdomainOf(host, entry.host) ELSE host = entry.host

Target(host, port) == [host |-> host, port |-> port]

\* A URL without a port has its scheme's, and so has one with port 0, which `or`
\* takes for none.
McpPort(server) ==
  IF server.port \in {None, 0}
  THEN IF server.scheme = "https" THEN 443 ELSE 80
  ELSE server.port

McpTargets(spec) ==
  {Target(server.host, McpPort(server)) : server \in Attached(spec, {"http"})}

\* urlsplit raises ValueError where a port is out of range: nobody catches it.
McpUrlsReadable(spec) ==
  \A server \in Attached(spec, {"http"}) : server.port \in {None} \cup 0 .. 65535

ChannelTargets(spec) ==
  LET types == {channel.type : channel \in Range(spec.channels)}
  IN  (IF "webex" \in types THEN {Target(<<"webexapis", "com">>, 443)} ELSE {}) \cup
      (IF "slack" \in types THEN {Target(<<"slack", "com">>, 443)} ELSE {})

PathsOf(spec, provider) == {path \in Range(Paths(spec.models)) : path.provider = provider}

AnthropicTargets(spec) ==
  {Target(<<"api", "anthropic", "com">>, 443) : path \in PathsOf(spec, "anthropic")}

\* A base host without a port gets this module's default port.
BaseTarget(path, default) ==
  LET base == Config(path).baseHost
  IN  Target(base.host, IF base.port = None THEN default ELSE base.port)

OllamaDefaultPort == 11434
OllamaTargets(spec) ==
  {BaseTarget(path, OllamaDefaultPort) : path \in PathsOf(spec, "ollama")}

OpenaiDefaultPort == 443
OpenaiTargets(spec) ==
  {BaseTarget(path, OpenaiDefaultPort) : path \in PathsOf(spec, "openai")}

EgressConsistent(spec) ==
  \A target \in McpTargets(spec) \cup ChannelTargets(spec) \cup AnthropicTargets(spec)
                  \cup OllamaTargets(spec) \cup OpenaiTargets(spec) :
    \E entry \in Range(spec.sandbox.egress) : EntryAllows(entry, target.host, target.port)

\* ensure_buildable raises nothing.
Buildable(spec) == Implemented(spec) /\ McpUrlsReadable(spec) /\ EgressConsistent(spec)

----------------------------------------------------------------------------
(* select_components *)

If(condition, module) == IF condition THEN {module} ELSE {}

SelectComponents(spec) ==
  {"prompt_assembler", "jsonl_audit", QueueModules[spec.gateway.queue]} \cup
  {ChannelModules[channel.type] : channel \in Range(spec.channels)} \cup
  {ProviderModules[path.provider] : path \in Range(Paths(spec.models))} \cup
  {IF spec.persistence = "postgres" THEN "postgres_persistence" ELSE "sqlite_persistence"} \cup
  If(spec.sessions.history # None /\ spec.sessions.history.strategy = "retrieval",
     "retrieval_history") \cup
  If(spec.memory # None /\ spec.memory.kind = "facts", "facts_memory") \cup
  If(spec.memory # None /\ spec.memory.kind # "facts", "pgvector_memory") \cup
  If(spec.models.tiers # <<>> \/ spec.models.budgets # None, "model_router") \cup
  If(Activations(spec, "event-subscription") # {}, "event_intake") \cup
  If(Activations(spec, "schedule") # {}, "schedule_trigger") \cup
  If(Attached(spec, {"local"}) # {}, "local_tools") \cup
  If(Attached(spec, {"stdio", "http"}) # {}, "mcp_manager")

=============================================================================
