----------------------------- MODULE BuildAndBoot -----------------------------
(***************************************************************************)
(* From a spec file to a serving agent: keep_build (cli.py, composer.py)   *)
(* writes a build context and has docker build it; the image boots         *)
(* (runner.py) under the environment it is deployed with.                  *)
(*                                                                         *)
(* The spec file can be edited at any moment, the context directory is     *)
(* kept between builds, and a build can be killed between two writes.      *)
(* Modules are named without their paths; "httpx" stands for the one       *)
(* library that only some components need.                                 *)
(***************************************************************************)
EXTENDS Wiring

CONSTANTS
  Specs,         \* documents the spec file may hold at first
  Edited,        \* documents it may be edited to
  Library,       \* the component modules this repository has
  NameOrder,     \* every component module, sorted
  Environments,  \* what the process may be started with
  Normal,        \* gateway._normalize_roster_id
  MaxEdits,      \* bound: edits in one behaviour
  MaxBuilds      \* bound: builds in one behaviour

Documents == Specs \cup Edited

\* What a document's parser gives: channels, cron items and egress entries, in
\* lists.
ASSUME DocumentAssumption ==
  \A spec \in Documents :
    /\ spec # None
    /\ spec.channels \in Seq(Range(spec.channels))
    /\ spec.sandbox.egress \in Seq(EgressEntries)
    /\ \A a \in Activations(spec, "schedule") : a.cron \in Seq(Seq(CronItems))

VARIABLES
  file,    \* the spec file's document
  ctx,     \* the context directory: what its owned paths hold
  build,   \* the running build: its stage and the spec it loaded
  image,   \* the last image built, or None
  agent,   \* the last boot's outcome, or None
  edits, builds

vars == <<file, ctx, build, image, agent, edits, builds>>

----------------------------------------------------------------------------
(* composer.py *)

CoreModules ==
  {"messages", "audit", "provider", "queues", "sessions", "facts", "lifecycle",
   "http_receiver", "channel_lifecycle", "core", "wiring", "runner"}

\* COMPONENT_MODULE_DEPENDENCIES: modules a component imports that are none.
ModuleDependencies(module) == IF module = "local_tools" THEN {"worker_analyzer"} ELSE {}

\* COMPONENT_DEPENDENCIES: what pip installs for a component.
PipDependencies(module) ==
  IF module \in {"anthropic_provider", "ollama_provider", "openai_provider"}
  THEN {"httpx"} ELSE {}

\* Mutant of ExpectedModules: the components alone.
SelectedOnly(spec) == SelectComponents(spec)

ExpectedModules(spec) ==
  SelectComponents(spec) \cup UNION {ModuleDependencies(m) : m \in SelectComponents(spec)}

\* dockerfile_for's pins.
Pins(spec) == UNION {PipDependencies(m) : m \in SelectComponents(spec)}

\* What an emission of the spec leaves under agent_runtime/.
Composed(spec) ==
  CoreModules \cup ExpectedModules(spec) \cup
  If(ToolExecutionRequired(spec), "executor") \cup If(spec.gateway.allowlist # None, "gateway")

EmptyContext == [pins |-> None, spec |-> None, modules |-> {}]

Init ==
  /\ file \in Specs
  /\ ctx = EmptyContext
  /\ build = [stage |-> "idle", spec |-> None]
  /\ image = None
  /\ agent = None
  /\ edits = 0
  /\ builds = 0

At(stage) == build.stage = stage
Go(stage) == build' = [build EXCEPT !.stage = stage]

\* An editor, or a checkout, at any moment.
Edit ==
  /\ edits < MaxEdits /\ edits' = edits + 1
  /\ file' \in Edited \ {file}
  /\ UNCHANGED <<ctx, build, image, agent, builds>>

\* keep-build build: load_spec, which refuses an invalid document.  A build with
\* --context-only has ended once its context is emitted.
LoadSpec ==
  /\ build.stage \in {"idle", "emitted", "built", "refused", "failed"}
  /\ builds < MaxBuilds /\ builds' = builds + 1
  /\ build' = IF Valid(file) THEN [stage |-> "loaded", spec |-> file]
                             ELSE [stage |-> "refused", spec |-> None]
  /\ UNCHANGED <<file, ctx, image, agent, edits>>

\* emit_build_context refuses before it touches the directory.
Guard ==
  /\ At("loaded")
  /\ Go(IF Buildable(build.spec) THEN "guarded" ELSE "refused")
  /\ UNCHANGED <<file, ctx, image, agent, edits, builds>>

\* Mutant of Owned: the modules of an earlier emission stay.
OwnedButRuntime == [EmptyContext EXCEPT !.modules = ctx.modules]

\* OWNED_CONTEXT_PATHS, removed.
Owned == EmptyContext

Clean ==
  /\ At("guarded")
  /\ ctx' = Owned
  /\ Go("clean")
  /\ UNCHANGED <<file, image, agent, edits, builds>>

\* The Dockerfile can be written for a dev-http channel alone.
WriteDockerfile ==
  /\ At("clean")
  /\ IF build.spec.channels[1].type = "dev-http"
     THEN ctx' = [ctx EXCEPT !.pins = Pins(build.spec)] /\ Go("described")
     ELSE Go("refused") /\ UNCHANGED ctx
  /\ UNCHANGED <<file, image, agent, edits, builds>>

\* spec.yaml is copied from the path, which is read a second time.
CopySpec ==
  /\ At("described")
  /\ ctx' = [ctx EXCEPT !.spec = file]
  /\ Go("copied")
  /\ UNCHANGED <<file, image, agent, edits, builds>>

\* The modules are copied in name order up to the first the library lacks.
Copied(wanted) ==
  {NameOrder[i] : i \in {i \in DOMAIN NameOrder :
                          {NameOrder[j] : j \in 1 .. i} \cap wanted \subseteq Library}} \cap wanted

CopyModules ==
  /\ At("copied")
  /\ LET wanted == ExpectedModules(build.spec)
     IN  /\ ctx' = [ctx EXCEPT !.modules = @ \cup
                      IF wanted \subseteq Library THEN Composed(build.spec)
                      ELSE Composed(build.spec) \ (wanted \ Copied(wanted))]
         /\ Go(IF wanted \subseteq Library THEN "emitted" ELSE "failed")
  /\ UNCHANGED <<file, image, agent, edits, builds>>

\* The build is killed, or a write fails.
Interrupt ==
  /\ build.stage \in {"guarded", "clean", "described", "copied", "emitted"}
  /\ Go("failed")
  /\ UNCHANGED <<file, ctx, image, agent, edits, builds>>

\* docker build takes the context as it stands; `from` is a history variable.
DockerBuild ==
  /\ At("emitted")
  /\ image' = [spec |-> ctx.spec, modules |-> ctx.modules \cup ctx.pins, from |-> build.spec]
  /\ Go("built")
  /\ UNCHANGED <<file, ctx, agent, edits, builds>>

----------------------------------------------------------------------------
(* runner.py *)

Imports(module) ==
  CASE module = "runner" -> {"audit", "core", "provider", "queues", "wiring"}
    [] module = "core" -> {"audit", "messages", "provider", "queues", "sessions"}
    [] module \in {"queues", "sessions"} -> {"messages"}
    [] module = "lifecycle" -> {"audit"}
    [] module = "executor" -> {"audit", "provider", "wiring"}
    [] module = "gateway" -> {"audit", "messages"}
    [] module = "dev_http" -> {"http_receiver", "messages", "queues"}
    [] module = "channel_lifecycle" -> {"messages", "queues"}
    [] module = "memory_queue" -> {"queues"}
    [] module = "sqlite_persistence" -> {"facts", "messages", "sessions"}
    [] module = "single_session" -> {"messages", "sessions"}
    [] module = "prompt_assembler" -> {"provider", "sessions"}
    [] module = "static_provider" -> {"provider"}
    [] module \in {"anthropic_provider", "ollama_provider", "openai_provider"} ->
         {"httpx", "provider"}
    [] module = "model_router" -> {"audit", "provider"}
    [] module = "jsonl_audit" -> {"audit"}
    [] module = "local_tools" -> {"worker_analyzer"}
    [] module = "worker_analyzer" -> {"audit", "prompt_assembler"}
    [] OTHER -> {}

\* No chain of imports is longer than four.
WithImports(modules) == modules \cup UNION {Imports(m) : m \in modules}
Closure(modules) == WithImports(WithImports(WithImports(WithImports(modules))))

\* TOOLS_ENABLED: unset means on where the spec grants tools.
ToolsEnabled(spec, env) == spec.tools # <<>> /\ env.tools # "off"

\* build_app from the memory on: the modules a step loads.
SurfaceLoads(spec, env, step) ==
  CASE step = "memory"    -> IF spec.memory = None THEN {}
                             ELSE {IF spec.memory.kind = "facts" THEN "facts_memory"
                                   ELSE "pgvector_memory"}
    [] step = "gate"      -> If(spec.gateway.allowlist # None, "gateway")
    [] step = "executor"  -> IF ToolsEnabled(spec, env)
                             THEN {"executor"} \cup If(Attached(spec, {"local"}) # {}, "local_tools")
                                  \cup If(Attached(spec, {"stdio", "http"}) # {}, "mcp_manager")
                             ELSE {}
    [] step = "channel"   -> {ChannelModules[spec.channels[1].type]}
    [] step = "events"    -> If(Activations(spec, "event-subscription") # {}, "event_intake")
    [] step = "schedules" -> If(Activations(spec, "schedule") # {}, "schedule_trigger")
    [] OTHER              -> {}

\* The modules each step of build_app loads.
Loads(spec, env, step) ==
  CASE step = "start"     -> {"runner"}
    [] step = "guard"     -> If(Attached(spec, {"local"}) # {}, "local_tools")
    [] step = "queue"     -> {QueueModules[spec.gateway.queue]}
    [] step = "sessions"  -> {IF spec.persistence = "postgres" THEN "postgres_persistence"
                              ELSE "sqlite_persistence"}
    [] step = "history"   -> If(spec.sessions.history # None
                                /\ spec.sessions.history.strategy = "retrieval",
                                "retrieval_history")
    [] step = "assembler" -> {"prompt_assembler"}
    [] step = "providers" -> {ProviderModules[path.provider] : path \in Range(Paths(spec.models))}
    [] step = "router"    -> If(spec.models.tiers # <<>> \/ spec.models.budgets # None,
                                "model_router")
    [] step = "audit"     -> {"jsonl_audit"}
    [] OTHER              -> SurfaceLoads(spec, env, step)

BootSteps ==
  << "start", "load", "guard", "digest", "queue", "sessions", "history", "assembler",
     "providers", "router", "audit", "memory", "gate", "executor", "channel", "events",
     "schedules" >>

\* Neither an egress entry nor a step of the boot is the absent value.
ASSUME AbsenceAssumption == None \notin EgressEntries \cup Range(BootSteps)

\* Mutant of GuardHolds: the boot trusts the build.
GuardTrusted(spec) == TRUE

\* ensure_buildable once more, in the image.
GuardHolds(spec) == Buildable(spec)

NeedsKey(spec) ==
  \E path \in Range(Paths(spec.models)) : path.provider \in {"anthropic", "openai"}

\* What else a step asks for.
StepHolds(spec, env, step) ==
  CASE step = "load"      -> Valid(spec)
    [] step = "guard"     -> GuardHolds(spec)
    [] step = "digest"    -> env.digest
    [] step = "sessions"  -> spec.persistence = "sqlite" => env.sqlitePath
    [] step = "providers" -> NeedsKey(spec) => env.apiKeys
    [] step = "gate"      -> spec.gateway.allowlist # None =>
                               IsInjective([i \in DOMAIN spec.gateway.allowlist.roster |->
                                              Normal[spec.gateway.allowlist.roster[i]]])
    [] OTHER              -> TRUE

StepFails(env, i) ==
  LET step == BootSteps[i]
  IN  \/ ~StepHolds(image.spec, env, step)
      \/ ~(Closure(Loads(image.spec, env, step)) \subseteq image.modules)

Refusal(env) ==
  LET first(i) == StepFails(env, i) /\ \A j \in 1 .. i - 1 : ~StepFails(env, j)
  IN  IF \E i \in DOMAIN BootSteps : StepFails(env, i)
      THEN BootSteps[CHOOSE i \in DOMAIN BootSteps : first(i)] ELSE None

\* _path_price: the config a path's price is read from.
PriceRead(path) ==
  IF path.provider \in {"ollama", "openai"} THEN path.provider ELSE "anthropic"

PathPrice(path) ==
  IF PriceRead(path) \in DOMAIN path.configs THEN path.configs[PriceRead(path)].pricing
  ELSE None

\* The container starts with its baked spec and the given environment.
Boot(env) ==
  /\ image # None
  /\ agent' =
       LET refused == Refusal(env)
       IN  [spec    |-> image.spec,
            from    |-> image.from,
            env     |-> env,
            refused |-> refused,
            loaded  |-> IF refused # None THEN {}
                        ELSE UNION {Closure(Loads(image.spec, env, step)) : step \in Range(BootSteps)},
            prices  |-> IF refused # None THEN <<>>
                        ELSE [i \in DOMAIN Paths(image.spec.models) |->
                                PathPrice(Paths(image.spec.models)[i])]]
  /\ UNCHANGED <<file, ctx, build, image, edits, builds>>

\* _build_provider's base_url and the providers' own: what a served agent dials.
\* A URL without a port has its scheme's.
DialTargets(spec) ==
  McpTargets(spec) \cup AnthropicTargets(spec) \cup OpenaiTargets(spec) \cup
  {BaseTarget(path, 80) : path \in PathsOf(spec, "ollama")}

----------------------------------------------------------------------------
Next ==
  \/ Edit
  \/ LoadSpec \/ Guard \/ Clean \/ WriteDockerfile \/ CopySpec \/ CopyModules
  \/ Interrupt \/ DockerBuild
  \/ \E env \in Environments : Boot(env)

Spec == Init /\ [][Next]_vars

----------------------------------------------------------------------------
(* Properties *)

Served == agent # None /\ agent.refused = None

\* Over a kept context directory, after interrupted and refused builds too, an
\* image has the modules and the libraries of the one spec it was composed for,
\* and no other ("a reused --context-dir represents EXACTLY one spec",
\* composer.py).
ImageIsOneSpec ==
  image # None => image.modules = Composed(image.from) \cup Pins(image.from)

\* An image with the spec it was composed for misses no module at boot: it is
\* refused for its environment, or for a roster whose names collide once
\* normalized (composer's selection against what build_app imports).
BootFailsByEnvironmentOnly ==
  agent # None /\ agent.spec = agent.from =>
    \/ agent.refused \in {None, "gate"}
    \/ agent.refused = "digest" /\ ~agent.env.digest
    \/ agent.refused = "sessions" /\ ~agent.env.sqlitePath
    \/ agent.refused = "providers" /\ ~agent.env.apiKeys

\* Even where the spec file was edited while it was built, a serving agent's
\* spec passed both guards, its components are those that spec selects, and with
\* its tools switched off it has no tool layer (build_app, tools_enabled).
ServesItsSpec ==
  Served =>
    /\ Valid(agent.spec) /\ Buildable(agent.spec)
    /\ agent.loaded \subseteq Composed(agent.spec) \cup Pins(agent.spec)
    /\ agent.env.tools = "off" => agent.loaded \cap {"executor", "mcp_manager"} = {}

\* A USD ceiling is enforced against a price on every path the router can take
\* ("a USD budget over an unpriced model is decorative", models.py).
BudgetIsEnforceable ==
  Served /\ agent.spec.models.budgets # None /\ agent.spec.models.budgets.usd # None =>
    \A i \in DOMAIN agent.prices : agent.prices[i] # None

\* What the egress proxy, given the agent's spec, would deny of what it dials.
Denied(spec) ==
  {t \in DialTargets(spec) : MatchAllowlist(spec.sandbox.egress, t.host, t.port) = None}

\* The two matchers and the two readings of a base URL agree: a serving agent
\* can reach its models and tool servers through the proxy, except an ollama
\* server written without a port (egress_violations against match_allowlist).
OnlyPortlessOllamaIsDenied ==
  Served =>
    \A t \in Denied(agent.spec) :
      \E path \in PathsOf(agent.spec, "ollama") :
        Config(path).baseHost.port = None /\ t = Target(Config(path).baseHost.host, 80)

\* A document that passed the build guards blocks none of its own components by
\* its egress rules (wiring.egress_violations).
ServedReachesItsModels == Served => Denied(agent.spec) = {}

\* The days of the month are the schedule's only days, and no month it names has
\* one of them.
Dateless(fields) ==
  /\ ~fields.dow_restricted
  /\ \A month \in fields.months, day \in fields.days_of_month : day > DaysIn[month]

\* A loaded schedule that can never fire is one whose dates do not exist, such as
\* the 31st of February: "a spec that validates is a spec whose schedule can
\* actually run" (ScheduleTrigger) holds of all others, whatever their steps,
\* ranges, lists and weekdays.
OnlyDatelessSchedulesNeverFire ==
  build.spec # None =>
    \A a \in Activations(build.spec, "schedule") :
      LET fields == ParseCron(a.cron) IN CanFire(fields) <=> ~Dateless(fields)

=============================================================================
