------------------------- MODULE BuildAndBoot_proofs -------------------------
(***************************************************************************)
(* BuildAndBoot for any documents, component library and environments, and *)
(* any number of edits and builds.                                         *)
(***************************************************************************)
EXTENDS BuildAndBoot, TLAPS, SequenceTheorems, WellFoundedInduction

(***************************************************************************)
(* Operators                                                               *)
(***************************************************************************)

\* A set of positions has a first one.
LEMMA FirstPosition ==
  ASSUME NEW S, S \subseteq Nat, S # {}
  PROVE  \E i \in S : \A j \in S : i <= j
<1>1. PICK i \in S : \A j \in S : ~(<<j, i>> \in OpToRel(<, Nat))
  BY NatLessThanWellFounded, WFMin
<1>2. \A j \in S : ~(j < i)
  BY <1>1 DEF OpToRel
<1> QED
  BY <1>2

\* An entry that covers a target is found, and what is found is no None.
LEMMA CoveredIsMatched ==
  ASSUME NEW allowlist \in Seq(EgressEntries), NEW host, NEW port,
         NEW i \in DOMAIN allowlist, EgressEntryAllows(allowlist[i], host, port)
  PROVE  MatchAllowlist(allowlist, host, port) # None
<1> DEFINE covers == {j \in DOMAIN allowlist : EgressEntryAllows(allowlist[j], host, port)}
           first  == CHOOSE j \in covers : \A k \in covers : j <= k
<1>1. i \in covers /\ covers \subseteq Nat
  OBVIOUS
<1>2. \E j \in covers : \A k \in covers : j <= k
  BY <1>1, FirstPosition
<1>3. first \in covers
  BY <1>2
<1>4. allowlist[first] \in EgressEntries
  BY <1>3
<1>5. MatchAllowlist(allowlist, host, port) = allowlist[first]
  BY <1>1 DEF MatchAllowlist
<1> QED
  BY <1>4, <1>5, AbsenceAssumption

\* A field's item admits its first value, and no value outside the field.
LEMMA ItemHasValues ==
  ASSUME NEW f \in 1 .. 5, NEW item \in CronItems, ItemOK(item, f)
  PROVE  /\ ItemValues(item, f) # {}
         /\ ItemValues(item, f) \subseteq FieldBounds[f].low .. FieldBounds[f].high
<1> DEFINE low == FieldBounds[f].low  high == FieldBounds[f].high
<1>1. low \in Nat /\ high \in Nat /\ low <= high
  BY DEF FieldBounds
<1>2. item.span \in Seq(Nat) /\ Len(item.span) <= 2 /\ item.step \in Nat \cup {None}
  BY DEF CronItems
<1>3. \A i \in DOMAIN item.span : low <= item.span[i] /\ item.span[i] <= high
  BY DEF ItemOK
<1>4. Len(item.span) = 2 => item.span[1] <= item.span[2]
  BY DEF ItemOK
<1> HIDE DEF low, high
<1>5. /\ First(item, f) \in low .. high /\ Last(item, f) \in low .. high
      /\ First(item, f) <= Last(item, f)
  <2>1. CASE item.span = <<>>
    BY <2>1, <1>1 DEF First, Last, low, high
  <2>2. CASE item.span # <<>>
    <3>1. Len(item.span) \in {1, 2}
      <4>1. Len(item.span) \in Nat /\ Len(item.span) <= 2
        BY <1>2
      <4>2. Len(item.span) # 0
        BY <2>2, <1>2, EmptySeq
      <4>3. \A n \in Nat : n <= 2 /\ n # 0 => n \in {1, 2}
        OBVIOUS
      <4> QED
        BY <4>1, <4>2, <4>3
    <3>2. 1 \in DOMAIN item.span /\ Len(item.span) \in DOMAIN item.span
      BY <3>1, <1>2
    <3>3. First(item, f) = item.span[1] /\ Last(item, f) = item.span[Len(item.span)]
      BY <2>2 DEF First, Last
    <3>4. item.span[1] \in Nat /\ item.span[Len(item.span)] \in Nat
      BY <3>2, <1>2
    <3> QED
      BY <3>1, <3>2, <3>3, <3>4, <1>1, <1>3, <1>4
  <2> QED
    BY <2>1, <2>2
<1>6. Step(item) \in Nat /\ Step(item) >= 1
  BY <1>2 DEF Step, ItemOK
<1>7. (First(item, f) - First(item, f)) % Step(item) = 0
  <2>1. First(item, f) - First(item, f) = 0
    BY <1>5, <1>1
  <2>2. \A n \in Nat : n >= 1 => 0 % n = 0
    OBVIOUS
  <2> QED
    BY <2>1, <2>2, <1>6
<1>8. First(item, f) \in ItemValues(item, f)
  BY <1>5, <1>7, <1>1 DEF ItemValues
<1>9. ItemValues(item, f) \subseteq low .. high
  BY <1>5, <1>1 DEF ItemValues
<1> QED
  BY <1>8, <1>9 DEF low, high

\* A field of an accepted cron expression admits values of a clock.
LEMMA FieldHasValues ==
  ASSUME NEW cron \in Seq(Seq(CronItems)), CronOK(cron), NEW f \in 1 .. 5
  PROVE  /\ f \in DOMAIN cron
         /\ ParseField(cron[f], f) # {}
         /\ ParseField(cron[f], f) \subseteq FieldBounds[f].low .. FieldBounds[f].high
<1>1. Len(FieldBounds) = 5
  BY DEF FieldBounds
<1>2. f \in DOMAIN cron /\ cron[f] \in Seq(CronItems) /\ cron[f] # <<>>
  <2>1. Len(cron) = 5
    BY <1>1 DEF CronOK
  <2>2. f \in DOMAIN cron
    BY <2>1
  <2> QED
    BY <2>2 DEF CronOK
<1>3. \A i \in DOMAIN cron[f] : cron[f][i] \in CronItems /\ ItemOK(cron[f][i], f)
  BY <1>2 DEF CronOK
<1>4. 1 \in DOMAIN cron[f]
  BY <1>2, EmptySeq
<1>5. \A i \in DOMAIN cron[f] :
        /\ ItemValues(cron[f][i], f) # {}
        /\ ItemValues(cron[f][i], f) \subseteq FieldBounds[f].low .. FieldBounds[f].high
  BY <1>3, ItemHasValues
<1> QED
  BY <1>2, <1>4, <1>5 DEF ParseField

\* The fields of a record of schedule fields hold values of a clock.
OnTheClock(fields) ==
  /\ fields.minutes # {} /\ fields.minutes \subseteq 0 .. 59
  /\ fields.hours # {} /\ fields.hours \subseteq 0 .. 23
  /\ fields.days_of_month # {} /\ fields.days_of_month \subseteq 1 .. 31
  /\ fields.months # {} /\ fields.months \subseteq 1 .. 12
  /\ fields.days_of_week # {} /\ fields.days_of_week \subseteq 0 .. 6

\* Seven is Sunday, as zero is.
LEMMA Weekdays ==
  ASSUME NEW days, days # {}, days \subseteq 0 .. 7
  PROVE  {v % 7 : v \in days} # {} /\ {v % 7 : v \in days} \subseteq 0 .. 6
<1>1. \A v \in 0 .. 7 : v % 7 \in 0 .. 6
  OBVIOUS
<1> QED
  BY <1>1

\* What an accepted expression is parsed to: some values of a clock in each field.
LEMMA FieldsAreOnTheClock ==
  ASSUME NEW cron \in Seq(Seq(CronItems)), CronOK(cron)
  PROVE  OnTheClock(ParseCron(cron))
<1> DEFINE values(f) == ParseField(cron[f], f)
<1>1. \A f \in 1 .. 5 :
        values(f) # {} /\ values(f) \subseteq FieldBounds[f].low .. FieldBounds[f].high
  BY FieldHasValues
<1>2. /\ FieldBounds[1] = [low |-> 0, high |-> 59]
      /\ FieldBounds[2] = [low |-> 0, high |-> 23]
      /\ FieldBounds[3] = [low |-> 1, high |-> 31]
      /\ FieldBounds[4] = [low |-> 1, high |-> 12]
      /\ FieldBounds[5] = [low |-> 0, high |-> 7]
  BY DEF FieldBounds
<1>3. /\ ParseCron(cron).minutes = values(1)
      /\ ParseCron(cron).hours = values(2)
      /\ ParseCron(cron).days_of_month = values(3)
      /\ ParseCron(cron).months = values(4)
      /\ ParseCron(cron).days_of_week = {v % 7 : v \in values(5)}
  BY DEF ParseCron
<1> HIDE DEF values
<1>4. values(1) # {} /\ values(1) \subseteq 0 .. 59
  <2>1. FieldBounds[1].low = 0 /\ FieldBounds[1].high = 59
    BY <1>2
  <2> QED
    BY <1>1, <2>1, 1 \in 1 .. 5, Zenon
<1>5. values(2) # {} /\ values(2) \subseteq 0 .. 23
  <2>1. FieldBounds[2].low = 0 /\ FieldBounds[2].high = 23
    BY <1>2
  <2> QED
    BY <1>1, <2>1, 2 \in 1 .. 5, Zenon
<1>6. values(3) # {} /\ values(3) \subseteq 1 .. 31
  <2>1. FieldBounds[3].low = 1 /\ FieldBounds[3].high = 31
    BY <1>2
  <2> QED
    BY <1>1, <2>1, 3 \in 1 .. 5, Zenon
<1>7. values(4) # {} /\ values(4) \subseteq 1 .. 12
  <2>1. FieldBounds[4].low = 1 /\ FieldBounds[4].high = 12
    BY <1>2
  <2> QED
    BY <1>1, <2>1, 4 \in 1 .. 5, Zenon
<1>8. values(5) # {} /\ values(5) \subseteq 0 .. 7
  <2>1. FieldBounds[5].low = 0 /\ FieldBounds[5].high = 7
    BY <1>2
  <2> QED
    BY <1>1, <2>1, 5 \in 1 .. 5, Zenon
<1>9. {v % 7 : v \in values(5)} # {} /\ {v % 7 : v \in values(5)} \subseteq 0 .. 6
  BY <1>8, Weekdays
<1> QED
  BY <1>3, <1>4, <1>5, <1>6, <1>7, <1>9 DEF OnTheClock

\* A date of the calendar, with any weekday.
LEMMA DatesAreDates ==
  ASSUME NEW m \in 1 .. 12, NEW d \in 1 .. 31, d <= DaysIn[m], NEW w \in 0 .. 6
  PROVE  \E date \in Dates : date.month = m /\ date.day = d /\ date.weekday = w
<1> DEFINE date == [month |-> m, day |-> d, weekday |-> w]
<1>1. date \in Dates /\ date.month = m /\ date.day = d /\ date.weekday = w
  BY DEF Dates
<1> QED
  BY <1>1

\* Fields of a clock, whose days of the month are all or restricted, fire unless
\* their dates do not exist.
LEMMA ClockCanFire ==
  ASSUME NEW fields, OnTheClock(fields),
         fields.dom_restricted \in BOOLEAN, fields.dow_restricted \in BOOLEAN,
         ~fields.dom_restricted => 1 \in fields.days_of_month
  PROVE  CanFire(fields) <=> ~Dateless(fields)
<1>1. \A m \in 1 .. 12 : DaysIn[m] \in Int /\ 29 <= DaysIn[m]
  BY DEF DaysIn
<1>2. \A m \in fields.months : m \in 1 .. 12
  BY DEF OnTheClock
<1>3. \A d \in fields.days_of_month : d \in 1 .. 31
  BY DEF OnTheClock
<1>4. CanFire(fields) <=>
        \E date \in Dates : date.month \in fields.months /\ DayMatches(fields, date)
  BY DEF CanFire, OnTheClock
<1>5. ASSUME fields.dow_restricted PROVE CanFire(fields)
  <2>1. PICK m \in fields.months, w \in fields.days_of_week : TRUE
    BY DEF OnTheClock
  <2>2. m \in 1 .. 12 /\ w \in 0 .. 6
    BY <1>2 DEF OnTheClock
  <2>3. 1 \in 1 .. 31 /\ 1 <= DaysIn[m]
    BY <1>1, <2>2
  <2>4. PICK date \in Dates : date.month = m /\ date.day = 1 /\ date.weekday = w
    BY <2>2, <2>3, DatesAreDates
  <2> QED
    BY <1>4, <1>5, <2>4 DEF DayMatches
<1>6. ASSUME NEW m \in fields.months, NEW d \in fields.days_of_month, d <= DaysIn[m],
             ~fields.dow_restricted
      PROVE  CanFire(fields)
  <2> DEFINE date == [month |-> m, day |-> d, weekday |-> 0]
  <2>1. m \in 1 .. 12 /\ d \in 1 .. 31 /\ d <= DaysIn[m]
    BY <1>2, <1>3, <1>6
  <2>2. date \in Dates /\ date.month = m /\ date.day = d
    BY <2>1 DEF Dates
  <2> QED
    BY <1>4, <1>6, <2>2 DEF DayMatches
<1>7. ASSUME CanFire(fields), ~fields.dow_restricted
      PROVE  \E m \in fields.months, d \in fields.days_of_month : d <= DaysIn[m]
  <2>1. PICK date \in Dates : date.month \in fields.months /\ DayMatches(fields, date)
    BY <1>4, <1>7
  <2>2. date.month \in 1 .. 12 /\ date.day <= DaysIn[date.month]
    BY DEF Dates
  <2>3. CASE fields.dom_restricted
    BY <1>7, <2>1, <2>2, <2>3 DEF DayMatches
  <2>4. CASE ~fields.dom_restricted
    <3>1. 1 \in fields.days_of_month
      BY <2>4
    <3>2. 1 <= DaysIn[date.month]
      BY <1>1, <2>2
    <3> QED
      BY <2>1, <3>1, <3>2
  <2> QED
    BY <2>3, <2>4
<1>8. \A m \in fields.months, d \in fields.days_of_month : d <= DaysIn[m] <=> ~(d > DaysIn[m])
  <2> TAKE m \in fields.months, d \in fields.days_of_month
  <2>1. d \in Int /\ DaysIn[m] \in Int
    BY <1>1, <1>2, <1>3
  <2> QED
    BY <2>1
<1> QED
  BY <1>5, <1>6, <1>7, <1>8 DEF Dateless

\* An accepted expression fires, but for one whose dates do not exist.
LEMMA CronCanFire ==
  ASSUME NEW cron \in Seq(Seq(CronItems)), CronOK(cron)
  PROVE  CanFire(ParseCron(cron)) <=> ~Dateless(ParseCron(cron))
<1>1. OnTheClock(ParseCron(cron))
  BY FieldsAreOnTheClock
<1>2. ASSUME ~ParseCron(cron).dom_restricted PROVE 1 \in ParseCron(cron).days_of_month
  <2>1. cron[3] = <<Star>>
    BY <1>2 DEF ParseCron
  <2>2. 1 \in ItemValues(Star, 3)
    BY DEF ItemValues, First, Last, Step, Star, FieldBounds
  <2>3. 1 \in ParseField(cron[3], 3)
    BY <2>1, <2>2 DEF ParseField
  <2> QED
    BY <2>3 DEF ParseCron
<1>3. /\ ParseCron(cron).dom_restricted \in BOOLEAN
      /\ ParseCron(cron).dow_restricted \in BOOLEAN
  BY DEF ParseCron
<1> QED
  BY <1>1, <1>2, <1>3, ClockCanFire

\* A boot that refuses nothing fails at none of its steps.
LEMMA NoRefusal ==
  ASSUME NEW env, Refusal(env) = None, NEW i \in DOMAIN BootSteps
  PROVE  ~StepFails(env, i)
<1> DEFINE failing  == {j \in DOMAIN BootSteps : StepFails(env, j)}
           first(j) == StepFails(env, j) /\ \A k \in 1 .. j - 1 : ~StepFails(env, k)
           refusing == CHOOSE j \in DOMAIN BootSteps : first(j)
<1>1. DOMAIN BootSteps = 1 .. 17
  BY DEF BootSteps
<1>2. SUFFICES ASSUME StepFails(env, i) PROVE FALSE
  OBVIOUS
<1>3. PICK j \in failing : \A k \in failing : j <= k
  <2>1. i \in failing /\ failing \subseteq Nat
    BY <1>1, <1>2
  <2> QED
    BY <2>1, FirstPosition
<1>4. first(j)
  <2>1. SUFFICES ASSUME NEW k \in 1 .. j - 1, StepFails(env, k) PROVE FALSE
    BY <1>3
  <2>2. k \in failing
    BY <1>1, <1>3, <2>1
  <2> QED
    BY <1>1, <1>3, <2>1, <2>2
<1>5. refusing \in DOMAIN BootSteps
  BY <1>3, <1>4
<1>6. Refusal(env) = BootSteps[refusing]
  BY <1>2 DEF Refusal
<1> QED
  BY <1>5, <1>6, AbsenceAssumption DEF Range

\* A boot that is refused fails at the step it names.
LEMMA RefusalIsAFailure ==
  ASSUME NEW env, Refusal(env) # None
  PROVE  \E i \in DOMAIN BootSteps : StepFails(env, i) /\ Refusal(env) = BootSteps[i]
<1> DEFINE failing  == {j \in DOMAIN BootSteps : StepFails(env, j)}
           first(j) == StepFails(env, j) /\ \A k \in 1 .. j - 1 : ~StepFails(env, k)
           refusing == CHOOSE j \in DOMAIN BootSteps : first(j)
<1>1. DOMAIN BootSteps = 1 .. 17
  BY DEF BootSteps
<1>2. failing # {} /\ Refusal(env) = BootSteps[refusing]
  BY DEF Refusal
<1>3. PICK j \in failing : \A k \in failing : j <= k
  <2>1. failing \subseteq Nat
    BY <1>1
  <2> QED
    BY <1>2, <2>1, FirstPosition
<1>4. first(j)
  <2>1. SUFFICES ASSUME NEW k \in 1 .. j - 1, StepFails(env, k) PROVE FALSE
    BY <1>3
  <2>2. k \in failing
    BY <1>1, <1>3, <2>1
  <2> QED
    BY <1>1, <1>3, <2>1, <2>2
<1>5. refusing \in DOMAIN BootSteps /\ StepFails(env, refusing)
  BY <1>3, <1>4
<1> QED
  BY <1>2, <1>5

\* A boot that refuses nothing has passed the validator and the build guard once
\* more.
LEMMA BootPassesGuards ==
  ASSUME NEW env, Refusal(env) = None
  PROVE  Valid(image.spec) /\ Buildable(image.spec)
<1>1. /\ 2 \in DOMAIN BootSteps /\ BootSteps[2] = "load"
      /\ 3 \in DOMAIN BootSteps /\ BootSteps[3] = "guard"
  BY DEF BootSteps
<1>2. StepHolds(image.spec, env, "load") /\ StepHolds(image.spec, env, "guard")
  BY <1>1, NoRefusal DEF StepFails
<1> QED
  BY <1>2 DEF StepHolds, GuardHolds

(***************************************************************************)
(* Modules: what the boot loads against what the composer put there        *)
(***************************************************************************)

\* What imports nothing outside a set of modules is closed in it.
LEMMA ClosureStaysWithin ==
  ASSUME NEW all, \A m \in all : Imports(m) \subseteq all,
         NEW modules, modules \subseteq all
  PROVE  Closure(modules) \subseteq all
<1>1. \A some \in SUBSET all : WithImports(some) \subseteq all
  BY DEF WithImports
<1> QED
  BY <1>1 DEF Closure

\* Whatever a composed module imports is composed or pinned
\* (COMPONENT_MODULE_DEPENDENCIES and COMPONENT_DEPENDENCIES are complete).
LEMMA ImportsAreComposed ==
  ASSUME NEW spec, NEW m \in Composed(spec) \cup Pins(spec)
  PROVE  Imports(m) \subseteq Composed(spec) \cup Pins(spec)
<1> DEFINE all == Composed(spec) \cup Pins(spec)
<1>1. CoreModules \subseteq all
  BY DEF Composed
<1>2. "prompt_assembler" \in all
  BY DEF Composed, ExpectedModules, SelectComponents
<1>3. m \in SelectComponents(spec) \/ m \in CoreModules
        \/ m \in {"worker_analyzer", "executor", "gateway", "httpx"}
  BY DEF Composed, ExpectedModules, ModuleDependencies, Pins, PipDependencies, If
<1>4. m = "local_tools" => "worker_analyzer" \in all
  BY <1>3 DEF Composed, ExpectedModules, ModuleDependencies, CoreModules
<1>5. m \in {"anthropic_provider", "ollama_provider", "openai_provider"} => "httpx" \in all
  BY <1>3 DEF Pins, PipDependencies, CoreModules
<1> HIDE DEF all
<1>6. Imports(m) \subseteq all
  BY <1>1, <1>2, <1>4, <1>5 DEF Imports, CoreModules
<1> QED
  BY <1>6 DEF all

\* Whatever a step of the boot loads was selected by the composer, from the same
\* document (build_app against select_components).
LEMMA LoadsAreComposed ==
  ASSUME NEW spec \in Documents, Valid(spec), NEW env, NEW step
  PROVE  Loads(spec, env, step) \subseteq Composed(spec)
<1>1. spec.channels[1] \in Range(spec.channels)
  <2>1. spec.channels \in Seq(Range(spec.channels)) /\ spec.channels # <<>>
    BY DocumentAssumption DEF Valid
  <2>2. 1 \in DOMAIN spec.channels
    BY <2>1, EmptySeq
  <2> QED
    BY <2>2 DEF Range
<1>2. SelectComponents(spec) \subseteq Composed(spec)
  BY DEF Composed, ExpectedModules
<1>3. "runner" \in Composed(spec)
  BY DEF Composed, CoreModules
<1>4. If(spec.gateway.allowlist # None, "gateway") \subseteq Composed(spec)
  BY DEF Composed
<1>5. ToolsEnabled(spec, env) => "executor" \in Composed(spec)
  BY DEF Composed, ToolsEnabled, ToolExecutionRequired, If
<1>6. SurfaceLoads(spec, env, step) \subseteq Composed(spec)
  BY <1>1, <1>2, <1>4, <1>5 DEF SurfaceLoads, SelectComponents, If
<1> QED
  BY <1>2, <1>3, <1>6 DEF Loads, SelectComponents, If

\* With its imports, then, everything a step needs is in an image that was
\* composed for its spec.
LEMMA StepFindsItsModules ==
  ASSUME NEW spec \in Documents, Valid(spec), NEW env, NEW step
  PROVE  Closure(Loads(spec, env, step)) \subseteq Composed(spec) \cup Pins(spec)
BY LoadsAreComposed, ImportsAreComposed, ClosureStaysWithin

\* A process with its tools switched off loads no tool layer at any step
\* (tools_enabled).
LEMMA NoToolLayer ==
  ASSUME NEW spec \in Documents, Valid(spec), Buildable(spec),
         NEW env, env.tools = "off", NEW step
  PROVE  Closure(Loads(spec, env, step)) \cap {"executor", "mcp_manager"} = {}
<1> DEFINE layer == {"executor", "mcp_manager"}
           rest  == (Composed(spec) \cup Pins(spec)) \ layer
<1>1. \A m : Imports(m) \cap layer = {}
  BY DEF Imports
<1>2. \A m \in rest : Imports(m) \subseteq rest
  BY <1>1, ImportsAreComposed
<1>3. QueueModules[spec.gateway.queue] \notin layer
  BY DEF Buildable, Implemented, GatewayBuilt, QueueModules
<1>4. ChannelModules[spec.channels[1].type] \notin layer
  <2>1. spec.channels \in Seq(Range(spec.channels)) /\ spec.channels # <<>>
    BY DocumentAssumption DEF Valid
  <2>2. spec.channels[1] \in Range(spec.channels)
    BY <2>1, EmptySeq DEF Range
  <2>3. spec.channels[1].type \in DOMAIN ChannelModules
    BY <2>2 DEF Buildable, Implemented, ChannelBuilt
  <2> QED
    BY <2>3 DEF ChannelModules
<1>5. \A path \in Range(Paths(spec.models)) : ProviderModules[path.provider] \notin layer
  <2> TAKE path \in Range(Paths(spec.models))
  <2>1. path.provider \in DOMAIN ProviderModules
    BY DEF Buildable, Implemented
  <2> QED
    BY <2>1 DEF ProviderModules
<1>6. ~ToolsEnabled(spec, env)
  BY DEF ToolsEnabled
<1>7. SurfaceLoads(spec, env, step) \cap layer = {}
  BY <1>4, <1>6 DEF SurfaceLoads, If
<1>8. Loads(spec, env, step) \cap layer = {}
  BY <1>3, <1>5, <1>7 DEF Loads, If
<1>9. Loads(spec, env, step) \subseteq rest
  BY <1>8, LoadsAreComposed
<1>10. Closure(Loads(spec, env, step)) \subseteq rest
  BY <1>2, <1>9, ClosureStaysWithin
<1> QED
  BY <1>10

(***************************************************************************)
(* The inductive invariant                                                 *)
(***************************************************************************)

Shape ==
  /\ file \in Documents
  /\ DOMAIN ctx = {"pins", "spec", "modules"}
  /\ DOMAIN build = {"stage", "spec"}

\* What a build has loaded is a valid document, at whatever stage it is.
LoadedInv ==
  /\ build.spec # None => build.spec \in Documents /\ Valid(build.spec)
  /\ build.stage \in {"loaded", "guarded", "clean", "described", "copied", "emitted"} =>
       build.spec # None
  /\ build.stage \in {"guarded", "clean", "described", "copied", "emitted"} =>
       Buildable(build.spec)

\* The context directory holds, at each stage, what this build wrote so far and
\* nothing an earlier one left.
ContextInv ==
  /\ build.stage \in {"clean", "described", "copied"} => ctx.modules = {}
  /\ build.stage \in {"described", "copied", "emitted"} => ctx.pins = Pins(build.spec)
  /\ build.stage \in {"copied", "emitted"} => ctx.spec \in Documents
  /\ build.stage = "emitted" => ctx.modules = Composed(build.spec)

ImageInv ==
  image # None =>
    /\ image.spec \in Documents
    /\ image.modules = Composed(image.from) \cup Pins(image.from)
    /\ Valid(image.from) /\ Buildable(image.from)

\* The agent outlives its image: what it was booted with is kept as it was.
AgentInv ==
  /\ BootFailsByEnvironmentOnly
  /\ ServesItsSpec
  /\ Served =>
       /\ agent.spec \in Documents
       /\ agent.prices = [i \in DOMAIN Paths(agent.spec.models) |->
                             PathPrice(Paths(agent.spec.models)[i])]

\* The agent's facts are read from the agent alone.
LEMMA AgentStays == AgentInv /\ UNCHANGED agent => AgentInv'
BY DEF AgentInv, BootFailsByEnvironmentOnly, ServesItsSpec, Served

IInv == Shape /\ LoadedInv /\ ContextInv /\ ImageInv /\ AgentInv

LEMMA InitInv == Init => IInv
<1> SUFFICES ASSUME Init PROVE IInv
  OBVIOUS
<1>1. Shape
  BY DEF Init, Shape, EmptyContext, Documents
<1>2. LoadedInv /\ ContextInv /\ ImageInv /\ AgentInv
  BY DEF Init, LoadedInv, ContextInv, ImageInv, AgentInv, Served,
         BootFailsByEnvironmentOnly, ServesItsSpec
<1> QED
  BY <1>1, <1>2 DEF IInv

LEMMA EditInv == IInv /\ Edit => IInv'
BY AgentStays DEF IInv, Edit, Documents, Shape, LoadedInv, ContextInv, ImageInv

LEMMA LoadInv == IInv /\ LoadSpec => IInv'
<1> SUFFICES ASSUME IInv, LoadSpec PROVE IInv'
  OBVIOUS
<1> USE DEF IInv, LoadSpec
<1>1. DOMAIN build' = {"stage", "spec"} /\ build'.stage \in {"loaded", "refused"}
  OBVIOUS
<1>2. build'.stage = "loaded" => build'.spec = file /\ Valid(file)
  OBVIOUS
<1>3. build'.stage = "refused" => build'.spec = None
  OBVIOUS
<1>4. file \in Documents /\ file # None
  BY DocumentAssumption DEF Shape
<1>5. Shape' /\ LoadedInv'
  BY <1>1, <1>2, <1>3, <1>4 DEF Shape, LoadedInv
<1>6. ContextInv'
  BY <1>1 DEF ContextInv
<1>7. ImageInv' /\ AgentInv'
  BY AgentStays DEF ImageInv
<1> QED
  BY <1>5, <1>6, <1>7

\* Every other stage of a build keeps the spec it loaded.
LEMMA StageInv ==
  IInv /\ (Guard \/ Clean \/ WriteDockerfile \/ CopySpec \/ CopyModules \/ Interrupt) => IInv'
<1> SUFFICES ASSUME IInv,
                    Guard \/ Clean \/ WriteDockerfile \/ CopySpec \/ CopyModules \/ Interrupt
             PROVE  IInv'
  OBVIOUS
<1>1. UNCHANGED <<file, image, agent>>
  BY DEF Guard, Clean, WriteDockerfile, CopySpec, CopyModules, Interrupt
<1>2. ImageInv' /\ AgentInv'
  BY <1>1, AgentStays DEF IInv, ImageInv
<1> USE DEF IInv, At, Go
<1>3. Shape' /\ LoadedInv' /\ build'.spec = build.spec
  BY <1>1 DEF Guard, Clean, WriteDockerfile, CopySpec, CopyModules, Interrupt, Owned,
              EmptyContext, Shape, LoadedInv
<1>4. ASSUME Guard PROVE ContextInv'
  BY <1>4 DEF Guard, Shape, ContextInv
<1>5. ASSUME Clean PROVE ContextInv'
  BY <1>5 DEF Clean, Owned, EmptyContext, Shape, ContextInv
<1>6. ASSUME WriteDockerfile PROVE ContextInv'
  BY <1>6, <1>3 DEF WriteDockerfile, Shape, ContextInv
<1>7. ASSUME CopySpec PROVE ContextInv'
  BY <1>7, <1>3 DEF CopySpec, Shape, ContextInv
<1>8. ASSUME CopyModules PROVE ContextInv'
  BY <1>8, <1>3 DEF CopyModules, Shape, ContextInv
<1>9. ASSUME Interrupt PROVE ContextInv'
  BY <1>9 DEF Interrupt, Shape, ContextInv
<1> QED
  BY <1>2, <1>3, <1>4, <1>5, <1>6, <1>7, <1>8, <1>9

LEMMA DockerInv == IInv /\ DockerBuild => IInv'
<1> SUFFICES ASSUME IInv, DockerBuild PROVE IInv'
  OBVIOUS
<1> USE DEF IInv, DockerBuild, At, Go
<1>1. Shape' /\ LoadedInv' /\ ContextInv'
  BY DEF Shape, LoadedInv, ContextInv
<1>2. ImageInv'
  BY DEF LoadedInv, ContextInv, ImageInv
<1>3. AgentInv'
  BY AgentStays
<1> QED
  BY <1>1, <1>2, <1>3

\* A boot that is refused with the spec its image was composed for misses a
\* setting, or has a roster whose names collide: no module.
LEMMA RefusedByEnvironment ==
  ASSUME IInv, image # None, image.spec = image.from,
         NEW env, Refusal(env) \notin {None, "gate"}
  PROVE  \/ Refusal(env) = "digest" /\ ~env.digest
         \/ Refusal(env) = "sessions" /\ ~env.sqlitePath
         \/ Refusal(env) = "providers" /\ ~env.apiKeys
<1> DEFINE spec == image.spec
<1>1. PICK i \in DOMAIN BootSteps : StepFails(env, i) /\ Refusal(env) = BootSteps[i]
  BY RefusalIsAFailure
<1>2. spec \in Documents /\ Valid(spec) /\ Buildable(spec)
  BY DEF IInv, ImageInv
<1>3. image.modules = Composed(spec) \cup Pins(spec)
  BY DEF IInv, ImageInv
<1> DEFINE step == BootSteps[i]
<1>4. Closure(Loads(spec, env, step)) \subseteq image.modules
  BY <1>2, <1>3, StepFindsItsModules
<1>5. ~StepHolds(spec, env, step)
  BY <1>1, <1>4 DEF StepFails
<1>6. Refusal(env) = step
  BY <1>1
<1> HIDE DEF spec, step
<1>7. step \in {"digest", "sessions", "providers", "gate"}
  BY <1>2, <1>5 DEF StepHolds, GuardHolds
<1>8. CASE step = "digest"
  BY <1>5, <1>6, <1>8 DEF StepHolds
<1>9. CASE step = "sessions"
  BY <1>5, <1>6, <1>9 DEF StepHolds
<1>10. CASE step = "providers"
  BY <1>5, <1>6, <1>10 DEF StepHolds
<1> QED
  BY <1>6, <1>7, <1>8, <1>9, <1>10

LEMMA BootInv == ASSUME NEW env PROVE IInv /\ Boot(env) => IInv'
<1> SUFFICES ASSUME IInv, Boot(env) PROVE IInv'
  OBVIOUS
<1>1. UNCHANGED <<file, ctx, build, image>> /\ image # None
  BY DEF Boot
<1>2. Shape' /\ LoadedInv' /\ ContextInv' /\ ImageInv'
  BY <1>1 DEF IInv, Shape, LoadedInv, ContextInv, ImageInv
<1>3. /\ agent'.spec = image.spec /\ agent'.from = image.from
      /\ agent'.env = env /\ agent'.refused = Refusal(env)
  BY DEF Boot
<1>4. BootFailsByEnvironmentOnly'
  BY <1>1, <1>3, RefusedByEnvironment DEF BootFailsByEnvironmentOnly
<1>5. image.spec \in Documents
  BY <1>1 DEF IInv, ImageInv
<1>6. ASSUME Served'
      PROVE  Refusal(env) = None /\ Valid(image.spec) /\ Buildable(image.spec)
  <2>1. Refusal(env) = None
    BY <1>3, <1>6 DEF Served
  <2> QED
    BY <2>1, BootPassesGuards
<1>7. ASSUME Served'
      PROVE  agent'.prices = [i \in DOMAIN Paths(image.spec.models) |->
                                PathPrice(Paths(image.spec.models)[i])]
  BY <1>6, <1>7 DEF Boot
<1>8. ServesItsSpec'
  <2> SUFFICES ASSUME Served'
               PROVE  ServesItsSpec'
    BY DEF ServesItsSpec
  <2>1. Refusal(env) = None /\ Valid(image.spec) /\ Buildable(image.spec)
    BY <1>6
  <2> DEFINE needs(step) == Closure(Loads(image.spec, env, step))
  <2>2. agent'.loaded = UNION {needs(step) : step \in Range(BootSteps)}
    BY <2>1 DEF Boot
  <2>3. \A step : needs(step) \subseteq Composed(image.spec) \cup Pins(image.spec)
    BY <1>5, <2>1, StepFindsItsModules
  <2>4. env.tools = "off" => \A step : needs(step) \cap {"executor", "mcp_manager"} = {}
    BY <1>5, <2>1, NoToolLayer
  <2> HIDE DEF needs
  <2>5. agent'.loaded \subseteq Composed(image.spec) \cup Pins(image.spec)
    BY <2>2, <2>3
  <2>6. env.tools = "off" => agent'.loaded \cap {"executor", "mcp_manager"} = {}
    BY <2>2, <2>4
  <2> QED
    BY <1>3, <2>1, <2>5, <2>6 DEF ServesItsSpec
<1>9. AgentInv'
  BY <1>3, <1>4, <1>5, <1>7, <1>8 DEF AgentInv
<1> QED
  BY <1>2, <1>9 DEF IInv

THEOREM PipelineInv == Spec => []IInv
<1>1. IInv /\ [Next]_vars => IInv'
  <2> SUFFICES ASSUME IInv, [Next]_vars PROVE IInv'
    OBVIOUS
  <2>1. CASE UNCHANGED vars
    BY <2>1, AgentStays DEF vars, IInv, Shape, LoadedInv, ContextInv, ImageInv
  <2>2. CASE Next
    BY <2>2, EditInv, LoadInv, StageInv, DockerInv, BootInv DEF Next
  <2> QED
    BY <2>1, <2>2
<1> QED
  BY <1>1, InitInv, PTL DEF Spec

(***************************************************************************)
(* What it gives                                                           *)
(***************************************************************************)

\* A path of a document both guards let pass has the one configuration of its own
\* provider, which is one the library has.
LEMMA PathIsConfigured ==
  ASSUME NEW spec, Valid(spec), Buildable(spec), NEW i \in DOMAIN Paths(spec.models)
  PROVE  LET path == Paths(spec.models)[i]
         IN  /\ DOMAIN path.configs = {path.provider}
             /\ path.provider \in {"static", "anthropic", "ollama", "openai"}
<1> DEFINE path == Paths(spec.models)[i]
<1>1. path \in Range(Paths(spec.models))
  BY DEF Range
<1>2. DOMAIN path.configs = {path.provider}
  BY <1>1 DEF Valid, ModelsOK, ProviderConfigOK
<1>3. path.provider \in DOMAIN ProviderModules
  BY <1>1 DEF Buildable, Implemented
<1>4. DOMAIN ProviderModules = {"static", "anthropic", "ollama", "openai"}
  BY DEF ProviderModules
<1> QED
  BY <1>2, <1>3, <1>4

\* Its price is read from there.
LEMMA PriceIsTheConfigs ==
  ASSUME NEW spec, Valid(spec), Buildable(spec), NEW i \in DOMAIN Paths(spec.models),
         PathIsPriced(Paths(spec.models)[i])
  PROVE  PathPrice(Paths(spec.models)[i]) # None
<1> DEFINE path == Paths(spec.models)[i]
<1>1. DOMAIN path.configs = {path.provider}
  BY PathIsConfigured
<1>2. path.provider \in {"static", "anthropic", "ollama", "openai"}
  BY PathIsConfigured
<1>3. path.provider # "static" /\ Config(path).pricing # None
  BY DEF PathIsPriced
<1> HIDE DEF path
<1>4. PriceRead(path) = path.provider
  BY <1>2, <1>3 DEF PriceRead
<1>5. PathPrice(path) = Config(path).pricing
  BY <1>1, <1>4 DEF PathPrice, Config
<1> QED
  BY <1>3, <1>5 DEF path

\* Over a kept context directory an image is composed for one spec
\* (emit_build_context's clean-then-write), for any edits, interruptions and
\* number of builds.
THEOREM ImagesHoldOneSpec == Spec => []ImageIsOneSpec
<1>1. IInv => ImageIsOneSpec
  BY DEF IInv, ImageInv, ImageIsOneSpec
<1> QED
  BY <1>1, PipelineInv, PTL

\* Whatever image boots, and even where the spec file was edited during its
\* build, a serving agent's spec has passed the validator and the build guard, it
\* runs only components that spec selects, and with its tools switched off none of
\* the tool layer (build_app runs both guards again; tools_enabled).
THEOREM ServedRunsItsSpec == Spec => []ServesItsSpec
<1>1. IInv => ServesItsSpec
  BY DEF IInv, AgentInv
<1> QED
  BY <1>1, PipelineInv, PTL

\* An image with the spec it was composed for boots, or is refused for a setting
\* of its environment or a roster whose names collide: the composer's selection
\* misses no module build_app loads, whatever the document (select_components and
\* the two dependency tables of composer.py).
THEOREM ImagesBoot == Spec => []BootFailsByEnvironmentOnly
<1>1. IInv => BootFailsByEnvironmentOnly
  BY DEF IInv, AgentInv
<1> QED
  BY <1>1, PipelineInv, PTL

\* A USD ceiling has a price on every path of the router, whatever the tiers
\* (AgentSpec's validator with runner's prices).
THEOREM BudgetsAreEnforceable == Spec => []BudgetIsEnforceable
<1>1. IInv => BudgetIsEnforceable
  <2> SUFFICES ASSUME IInv, Served, agent.spec.models.budgets # None,
                      agent.spec.models.budgets.usd # None,
                      NEW i \in DOMAIN agent.prices
               PROVE  agent.prices[i] # None
    BY DEF BudgetIsEnforceable
  <2> DEFINE paths == Paths(agent.spec.models)
  <2>1. Valid(agent.spec) /\ Buildable(agent.spec)
    BY DEF IInv, AgentInv, ServesItsSpec
  <2>2. i \in DOMAIN paths /\ agent.prices[i] = PathPrice(paths[i])
    BY DEF IInv, AgentInv
  <2>3. paths[i] \in Range(paths)
    BY <2>2 DEF Range
  <2>4. PathIsPriced(paths[i])
    BY <2>1, <2>3 DEF Valid, ModelsOK, UsdBudgetIsPriced
  <2> QED
    BY <2>1, <2>2, <2>4, PriceIsTheConfigs
<1> QED
  BY <1>1, PipelineInv, PTL

\* The two matchers read an entry alike.
LEMMA MatchersAgree ==
  ASSUME NEW entry, NEW host, NEW port
  PROVE  EntryAllows(entry, host, port) <=> EgressEntryAllows(entry, host, port)
BY DEF EntryAllows, EgressEntryAllows

\* What the build guard checked, the proxy lets through.
LEMMA GuardedIsMatched ==
  ASSUME NEW spec \in Documents, Buildable(spec),
         NEW t \in McpTargets(spec) \cup ChannelTargets(spec) \cup AnthropicTargets(spec)
                   \cup OllamaTargets(spec) \cup OpenaiTargets(spec)
  PROVE  t \notin Denied(spec)
<1>1. PICK entry \in Range(spec.sandbox.egress) : EntryAllows(entry, t.host, t.port)
  BY DEF Buildable, EgressConsistent
<1>2. PICK i \in DOMAIN spec.sandbox.egress : entry = spec.sandbox.egress[i]
  BY DEF Range
<1>3. EgressEntryAllows(spec.sandbox.egress[i], t.host, t.port)
  BY <1>1, <1>2, MatchersAgree
<1>4. spec.sandbox.egress \in Seq(EgressEntries)
  BY DocumentAssumption
<1>5. MatchAllowlist(spec.sandbox.egress, t.host, t.port) # None
  BY <1>3, <1>4, CoveredIsMatched
<1> QED
  BY <1>5 DEF Denied

\* A serving agent's models and tool servers are reachable through the proxy but
\* for an ollama server written without a port (wiring.egress_violations with
\* egress.match_allowlist).
THEOREM ServedReachesAllButPortlessOllama == Spec => []OnlyPortlessOllamaIsDenied
<1>1. IInv => OnlyPortlessOllamaIsDenied
  <2> SUFFICES ASSUME IInv, Served, NEW t \in Denied(agent.spec)
               PROVE  \E path \in PathsOf(agent.spec, "ollama") :
                        Config(path).baseHost.port = None
                        /\ t = Target(Config(path).baseHost.host, 80)
    BY DEF OnlyPortlessOllamaIsDenied
  <2> DEFINE spec == agent.spec
  <2>1. spec \in Documents /\ Buildable(spec)
    BY DEF IInv, AgentInv, ServesItsSpec
  <2>2. t \in DialTargets(spec)
    BY DEF Denied
  <2>3. t \notin McpTargets(spec) \cup AnthropicTargets(spec) \cup OpenaiTargets(spec)
                   \cup OllamaTargets(spec)
    BY <2>1, GuardedIsMatched
  <2>4. PICK path \in PathsOf(spec, "ollama") : t = BaseTarget(path, 80)
    BY <2>2, <2>3 DEF DialTargets
  <2>5. BaseTarget(path, OllamaDefaultPort) # t
    BY <2>3 DEF OllamaTargets
  <2>6. Config(path).baseHost.port = None
    BY <2>4, <2>5 DEF BaseTarget
  <2> QED
    BY <2>4, <2>6 DEF BaseTarget
<1> QED
  BY <1>1, PipelineInv, PTL

\* Of the schedules load_spec accepts, those and only those whose dates do not
\* exist never fire (parse_cron's validation with its expansion).
THEOREM OnlyDatelessSchedulesIdle == Spec => []OnlyDatelessSchedulesNeverFire
<1>1. IInv => OnlyDatelessSchedulesNeverFire
  <2> SUFFICES ASSUME IInv, build.spec # None,
                      NEW a \in Activations(build.spec, "schedule")
               PROVE  CanFire(ParseCron(a.cron)) <=> ~Dateless(ParseCron(a.cron))
    BY DEF OnlyDatelessSchedulesNeverFire
  <2>1. build.spec \in Documents /\ Valid(build.spec)
    BY DEF IInv, LoadedInv
  <2>2. a.cron \in Seq(Seq(CronItems))
    BY <2>1, DocumentAssumption
  <2>3. build.spec.triggers # None /\ a \in Range(build.spec.triggers) /\ a.kind = "schedule"
    BY DEF Activations
  <2>4. PICK i \in DOMAIN build.spec.triggers : a = build.spec.triggers[i]
    BY <2>3 DEF Range
  <2>5. ActivationOK(a)
    BY <2>1, <2>3, <2>4 DEF Valid, TriggersOK
  <2>6. CronOK(a.cron)
    BY <2>3, <2>5 DEF ActivationOK
  <2> QED
    BY <2>2, <2>6, CronCanFire
<1> QED
  BY <1>1, PipelineInv, PTL

=============================================================================
