------------------------------ MODULE SpecModels ------------------------------
(***************************************************************************)
(* keep_spec: the AgentSpec document (models.py), the cron fields of its   *)
(* schedules (cron.py) and the egress matcher (egress.py).                 *)
(*                                                                         *)
(* A document is a record of its sections; None stands for an absent one.  *)
(* Names, prompts and descriptions are left out.  A host is the sequence   *)
(* of its lower-case labels, a wildcard host begins with "*", and port     *)
(* None stands for an entry without one.  Each section is what the schema  *)
(* can parse; what its validators then refuse is stated here.              *)
(***************************************************************************)
EXTENDS Integers, Sequences, Functions

CONSTANT None  \* absent

----------------------------------------------------------------------------
(* Cron *)

\* The bounds of the five fields, in their order: day-of-week is 0 to 7.
FieldBounds ==
  << [low |-> 0, high |-> 59], [low |-> 0, high |-> 23], [low |-> 1, high |-> 31],
     [low |-> 1, high |-> 12], [low |-> 0, high |-> 7] >>

\* An item of a field's list is [span, step]: span is <<>> for *, <<n>>, or
\* <<first, last>>; step is None without a slash.
CronItems == [span : {s \in Seq(Nat) : Len(s) <= 2}, step : Nat \cup {None}]

ItemOK(item, field) ==
  /\ item.step # None => item.step >= 1 /\ Len(item.span) # 1
  /\ \A i \in DOMAIN item.span :
       FieldBounds[field].low <= item.span[i] /\ item.span[i] <= FieldBounds[field].high
  /\ Len(item.span) = 2 => item.span[1] <= item.span[2]

First(item, field) == IF item.span = <<>> THEN FieldBounds[field].low ELSE item.span[1]
Last(item, field)  ==
  IF item.span = <<>> THEN FieldBounds[field].high ELSE item.span[Len(item.span)]
Step(item) == IF item.step = None THEN 1 ELSE item.step

\* Mutant of ItemValues: the range stops one short.
ItemValuesShort(item, field) ==
  {v \in First(item, field) .. Last(item, field) - 1 :
     (v - First(item, field)) % Step(item) = 0}

ItemValues(item, field) ==
  {v \in First(item, field) .. Last(item, field) :
     (v - First(item, field)) % Step(item) = 0}

ParseField(items, field) == UNION {ItemValues(items[i], field) : i \in DOMAIN items}

CronOK(cron) ==
  /\ Len(cron) = Len(FieldBounds)
  /\ \A f \in DOMAIN cron :
       cron[f] # <<>> /\ \A i \in DOMAIN cron[f] : ItemOK(cron[f][i], f)

Star == [span |-> <<>>, step |-> None]

\* A day field is restricted unless its source is a bare *.  Seven is Sunday, as
\* zero is.
ParseCron(cron) ==
  [minutes        |-> ParseField(cron[1], 1),
   hours          |-> ParseField(cron[2], 2),
   days_of_month  |-> ParseField(cron[3], 3),
   months         |-> ParseField(cron[4], 4),
   days_of_week   |-> {v % 7 : v \in ParseField(cron[5], 5)},
   dom_restricted |-> cron[3] # <<Star>>,
   dow_restricted |-> cron[5] # <<Star>>]

\* The calendar: a date of any month falls on each weekday in some year.
DaysIn == [month \in 1 .. 12 |->
             IF month = 2 THEN 29 ELSE IF month \in {4, 6, 9, 11} THEN 30 ELSE 31]

Dates == {date \in [month : 1 .. 12, day : 1 .. 31, weekday : 0 .. 6] :
            date.day <= DaysIn[date.month]}

\* The rule the two flags are for: either of two restricted day fields is enough,
\* and a restricted one governs alone.
DayMatches(fields, date) ==
  \/ fields.dom_restricted /\ date.day \in fields.days_of_month
  \/ fields.dow_restricted /\ date.weekday \in fields.days_of_week
  \/ ~fields.dom_restricted /\ ~fields.dow_restricted

\* There is a minute at which a schedule of these fields fires.
CanFire(fields) ==
  /\ fields.minutes \cap (0 .. 59) # {}
  /\ fields.hours \cap (0 .. 23) # {}
  /\ \E date \in Dates : date.month \in fields.months /\ DayMatches(fields, date)

----------------------------------------------------------------------------
(* Egress *)

EgressEntries == [host : Seq(STRING), port : Nat \cup {None}]

\* Mutant of SubdomainOf: the wildcard covers its apex too.
SubdomainOrApex(host, wildcard) ==
  \E n \in 1 .. Len(host) : SubSeq(host, n, Len(host)) = Tail(wildcard)

\* host.endswith(entry_host[1:]): a proper subdomain.
SubdomainOf(host, wildcard) ==
  \E n \in 2 .. Len(host) : SubSeq(host, n, Len(host)) = Tail(wildcard)

EgressEntryAllows(entry, host, port) ==
  /\ entry.port \in {None, port}
  /\ IF Head(entry.host) = "*" THEN SubdomainOf(host, entry.host) ELSE host = entry.host

\* match_allowlist: the first entry that covers the target, or None.
MatchAllowlist(allowlist, host, port) ==
  LET covers == {i \in DOMAIN allowlist : EgressEntryAllows(allowlist[i], host, port)}
  IN  IF covers = {} THEN None
      ELSE allowlist[CHOOSE i \in covers : \A j \in covers : i <= j]

\* The host[:port] grammar: a port, if any, is a real one.
HostOK(entry) == entry.host # <<>> /\ (entry.port # None => entry.port \in 1 .. 65535)

----------------------------------------------------------------------------
(* Sections *)

PersonaOK(persona) == (persona.source = "both") <=> (persona.precedence # None)

ActivationOK(activation) == activation.kind = "schedule" => CronOK(activation.cron)

TriggersOK(triggers) ==
  triggers # None =>
    /\ triggers # <<>>
    /\ \A i \in DOMAIN triggers : ActivationOK(triggers[i])

\* dev-http has no verification; a verified channel names its secret.
VerificationOK(verification) ==
  verification # None => ((verification.method # "none") <=> verification.secretEnv)

Transports ==
  [type \in {"dev-http", "discord", "slack", "webex", "sms"} |->
     CASE type = "dev-http"        -> {"webhook"}
       [] type = "discord"         -> {"websocket", "polling"}
       [] type = "slack"           -> {"webhook", "websocket", "polling"}
       [] type \in {"webex", "sms"} -> {"webhook", "polling"}]

ChannelOK(channel) ==
  /\ channel.transport \in Transports[channel.type]
  /\ VerificationOK(channel.verification)

\* The roster is refused when it names a principal twice, as written.
AllowlistOK(allowlist) == allowlist # None => IsInjective(allowlist.roster)

HistoryOK(history) == history # None => history.turns >= 1

\* Only a keyword pack has keywords.
SkillOK(skill) == (skill.selection = "keyword") <=> skill.keywords

ServerOK(server) ==
  /\ server.kind = "http" => ~server.userinfo
  /\ server.allow # <<>>
  /\ IsInjective([i \in DOMAIN server.allow |-> server.allow[i].name])

Declared(tools) ==
  UNION {{<<server.name, grant.name>> : grant \in Range(server.allow)} : server \in Range(tools)}

ToolsOK(tools, approval) ==
  /\ \A server \in Range(tools) : ServerOK(server)
  /\ IsInjective([i \in DOMAIN tools |-> tools[i].name])
  /\ approval.policy # "allowlist-confirm-rest" => approval.autoApprove = {}
  /\ approval.autoApprove \subseteq Declared(tools)

SandboxOK(sandbox) == \A entry \in Range(sandbox.egress) : HostOK(entry)

----------------------------------------------------------------------------
(* Models *)

\* A path is the default provider or a tier: a provider and its configs.
Paths(models) == <<models>> \o models.tiers

Config(path) == path.configs[path.provider]

\* A configured price names both rates.
PricingOK(config) ==
  config.pricing # None => config.pricing.in # None /\ config.pricing.out # None

ProviderConfigOK(path) ==
  /\ DOMAIN path.configs = {path.provider}
  /\ path.provider # "static" => PricingOK(Config(path))
  /\ path.provider \in {"ollama", "openai"} => HostOK(Config(path).baseHost)

PathIsPriced(path) == path.provider # "static" /\ Config(path).pricing # None

\* Mutant of UsdBudgetIsPriced: only the default path is looked at.
DefaultIsPriced(models) ==
  models.budgets # None /\ models.budgets.usd # None => PathIsPriced(models)

UsdBudgetIsPriced(models) ==
  models.budgets # None /\ models.budgets.usd # None =>
    \A path \in Range(Paths(models)) : PathIsPriced(path)

ModelsOK(models) ==
  /\ \A path \in Range(Paths(models)) : ProviderConfigOK(path)
  /\ IsInjective([i \in DOMAIN models.tiers |-> models.tiers[i].name])
  /\ UsdBudgetIsPriced(models)

----------------------------------------------------------------------------
\* load_spec: the document is a valid AgentSpec.
Valid(spec) ==
  /\ PersonaOK(spec.persona)
  /\ TriggersOK(spec.triggers)
  /\ spec.channels # <<>> /\ \A channel \in Range(spec.channels) : ChannelOK(channel)
  /\ AllowlistOK(spec.gateway.allowlist)
  /\ HistoryOK(spec.sessions.history)
  /\ \A skill \in Range(spec.skills) : SkillOK(skill)
  /\ ToolsOK(spec.tools, spec.approval)
  /\ SandboxOK(spec.sandbox)
  /\ ModelsOK(spec.models)

=============================================================================
