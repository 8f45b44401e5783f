--------------------------- MODULE MCBuildAndBoot ---------------------------
(* The spec files of a small team: a base document and its variants.  Each  *)
(* of MCSpecs combines a choice of models with a choice elsewhere.          *)
EXTENDS BuildAndBoot, TLC

CONSTANTS tobi, TOBI  \* two roster names of one principal, and see MCNormal

Api == [host |-> <<"api", "anthropic", "com">>, port |-> None]
At443 == [Api EXCEPT !.port = 443]
Wild == [host |-> <<"*", "example", "com">>, port |-> None]
Apex == [host |-> <<"example", "com">>, port |-> None]
Gpu == [host |-> <<"gpu", "example", "com">>, port |-> 11434]

Rates == [in |-> 1, out |-> 2]
Script == "static" :> [pricing |-> None]
Claude(p) == "anthropic" :> [pricing |-> p]
Llama(base, p) == "ollama" :> [baseHost |-> base, pricing |-> p]
Gpt(base, p) == "openai" :> [baseHost |-> base, pricing |-> p]

Usd == [tokens |-> None, usd |-> 1]
Tokens == [tokens |-> 100, usd |-> None]

Models(provider, configs, tiers, budgets) ==
  [provider |-> provider, configs |-> configs, tiers |-> tiers, budgets |-> budgets]
Tier(name, provider, configs) == [name |-> name, provider |-> provider, configs |-> configs]
Sandbox(egress) == [profile |-> "container", egress |-> egress]

With(models, egress) == [models |-> models, sandbox |-> Sandbox(egress)]

\* Models and egress: each provider, tiers, prices, budgets, ports, wildcards.
ModelChoices ==
  { With(Models("static", Script, <<>>, None), <<>>),
    With(Models("static", Script, <<>>, Usd), <<>>),
    With(Models("static", Script @@ Claude(None), <<>>, None), <<Api>>),
    With(Models("anthropic", Claude(Rates), <<>>, Usd), <<At443>>),
    With(Models("anthropic", Claude(Rates), <<>>, Usd), <<>>),
    With(Models("anthropic", Claude([in |-> 1, out |-> None]), <<>>, None), <<Api>>),
    With(Models("anthropic", Claude(Rates), <<Tier("triage", "ollama", Llama(Gpu, Rates))>>, Usd), <<Wild, Api>>),
    With(Models("anthropic", Claude(Rates), <<Tier("triage", "ollama", Llama(Gpu, None))>>, Usd), <<Wild, Api>>),
    With(Models("anthropic", Claude(Rates), <<Tier("triage", "static", Script), Tier("triage", "static", Script)>>, None), <<Api>>),
    With(Models("ollama", Llama(Gpu, None), <<>>, Tokens), <<Gpu>>),
    With(Models("ollama", Llama([Gpu EXCEPT !.port = None], None), <<>>, None), <<Gpu>>),
    With(Models("ollama", Llama([Gpu EXCEPT !.port = 0], None), <<>>, None), <<Wild>>),
    With(Models("openai", Gpt(Apex, Rates), <<>>, Usd), <<Apex>>),
    With(Models("openai", Gpt(Apex, None), <<>>, None), <<Wild>>) }

Channel(type, transport, method, secretEnv) ==
  [type |-> type, transport |-> transport,
   verification |-> [method |-> method, secretEnv |-> secretEnv]]
DevHttp == [type |-> "dev-http", transport |-> "webhook", verification |-> None]

Gateway(queue, allowlist) ==
  [queue |-> queue, concurrency |-> "serial", allowlist |-> allowlist,
   identityUnification |-> "separate"]
Allow(policy, roster) == [policy |-> policy, roster |-> roster]

Server(kind, grant) ==
  [name |-> "tools", kind |-> kind, host |-> Apex.host, port |-> None, scheme |-> "https",
   userinfo |-> FALSE, allow |-> <<[name |-> grant, scope |-> "read-only"]>>]
Approval(policy, entries) == [policy |-> policy, autoApprove |-> entries]

On(n) == [span |-> <<n>>, step |-> None]
From(first, last) == [span |-> <<first, last>>, step |-> None]
EveryNth(n) == [span |-> <<>>, step |-> n]
Schedule(minute, day, month, weekday) ==
  [kind |-> "schedule", cron |-> <<minute, <<Star>>, day, month, weekday>>]

\* A quarter of an hour on working days, the last minute of a leap day and of
\* Sundays, no day of two short months, and that day or a weekday.
Timetable ==
  << Schedule(<<EveryNth(15)>>, <<Star>>, <<Star>>, <<From(1, 5)>>),
     Schedule(<<On(59)>>, <<From(29, 30)>>, <<On(2)>>, <<Star>>),
     Schedule(<<On(59)>>, <<Star>>, <<Star>>, <<On(7)>>),
     Schedule(<<On(0)>>, <<On(31)>>, <<On(2), On(4)>>, <<Star>>),
     Schedule(<<On(0)>>, <<On(31)>>, <<On(2)>>, <<EveryNth(2), On(3)>>) >>

Base ==
  [persona |-> [source |-> "static", precedence |-> None], triggers |-> None,
   channels |-> <<DevHttp>>, gateway |-> Gateway("in-process", None),
   sessions |-> [definition |-> None, history |-> None], memory |-> None, skills |-> <<>>,
   tools |-> <<>>, approval |-> Approval("allowlist-confirm-rest", {}), health |-> None,
   persistence |-> "sqlite"]

\* Everything else, one section at a time: what is refused when it is loaded, by
\* the guard, while it is emitted, at boot, or not at all.
OtherChoices ==
  { <<>>,
    "persona" :> [source |-> "both", precedence |-> None],
    "persona" :> [source |-> "learned", precedence |-> None],
    "triggers" :> Timetable,
    "triggers" :> <<Schedule(<<On(60)>>, <<Star>>, <<Star>>, <<Star>>)>>,
    "triggers" :> <<[kind |-> "message"], [kind |-> "event-subscription"]>>,
    "channels" :> <<Channel("slack", "webhook", "signature", TRUE)>>,
    "channels" :> <<DevHttp, Channel("webex", "webhook", "token", TRUE)>>,
    "channels" :> <<Channel("discord", "websocket", "token", FALSE)>>,
    "gateway" :> Gateway("redis", None),
    "gateway" :> Gateway("in-process", Allow("tiered", <<tobi>>)),
    "gateway" :> Gateway("in-process", Allow("owner-only", <<tobi, TOBI>>)),
    "gateway" :> Gateway("in-process", Allow("pairing", <<tobi, tobi>>)),
    "sessions" :> [definition |-> "per-user", history |-> [strategy |-> "sliding-window", turns |-> 2]],
    "sessions" :> [definition |-> "hybrid", history |-> [strategy |-> "retrieval", turns |-> 0]],
    "memory" :> [kind |-> "facts", store |-> "none", corpus |-> None, writePolicy |-> "user-command"],
    "memory" :> [kind |-> "vectors", store |-> "sqlite-vec", corpus |-> None, writePolicy |-> "off"],
    "skills" :> <<[selection |-> "keyword", keywords |-> TRUE]>>,
    "tools" :> <<Server("local", "clock.now")>>,
    "tools" :> <<Server("local", "shell.run")>>,
    "tools" :> <<Server("http", "page")>>,
    "tools" :> <<[Server("http", "page") EXCEPT !.port = 0]>>,
    "tools" :> <<[Server("http", "page") EXCEPT !.port = 65536]>>,
    "approval" :> Approval("allowlist-confirm-rest", {<<"tools", "clock.now">>}),
    "approval" :> Approval("autonomous", {}),
    "health" :> "/ready",
    "persistence" :> "postgres" }

MCSpecs == {other @@ choice @@ Base : other \in OtherChoices, choice \in ModelChoices}

\* The file is edited to a document with tools, and to one no guard lets pass.
MCEdited ==
  LET scripted == With(Models("static", Script, <<>>, None), <<>>)
  IN  { ("tools" :> <<Server("local", "clock.now")>>) @@ scripted @@ Base,
        ("approval" :> Approval("autonomous", {})) @@ scripted @@ Base }

MCLocalTools == {"clock.now", "echo.repeat"}

MCLibrary ==
  {"anthropic_provider", "dev_http", "jsonl_audit", "local_tools", "memory_queue",
   "model_router", "ollama_provider", "openai_provider", "prompt_assembler",
   "single_session", "sqlite_persistence", "static_provider", "worker_analyzer"}

MCNameOrder ==
  << "anthropic_provider", "dev_http", "event_intake", "facts_memory", "jsonl_audit",
     "local_tools", "mcp_manager", "memory_queue", "model_router", "ollama_provider",
     "openai_provider", "pgvector_memory", "postgres_persistence", "prompt_assembler",
     "redis_queue", "retrieval_history", "schedule_trigger", "single_session",
     "slack_channel", "sqlite_persistence", "static_provider", "webex_channel",
     "worker_analyzer" >>

MCNormal == (tobi :> tobi) @@ (TOBI :> tobi)

\* Everything is set, or one thing is missing; the tool switch is tried too.
MCEnvironments ==
  LET full == [digest |-> TRUE, apiKeys |-> TRUE, sqlitePath |-> TRUE, tools |-> "unset"]
  IN  {full, [full EXCEPT !.tools = "off"], [full EXCEPT !.digest = FALSE],
       [full EXCEPT !.apiKeys = FALSE], [full EXCEPT !.sqlitePath = FALSE]}

=============================================================================
