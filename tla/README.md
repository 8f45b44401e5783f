# agent-keep in TLA+

agent-keep composes a declarative agent spec (`packages/keep_spec`, `packages/keep_build`)
into two containers: a sealed agent (`packages/agent_runtime`) and an egress proxy
(`packages/keep_egress`) that is the agent's only way out. This directory models the state
machines inside the containers and the pipeline that builds and boots them, checks them
with TLC on small instances, and proves what matters most about them with TLAPS for every
value of the constants.

Contents: [the system](#1-the-system) · [modules](#2-modules-and-how-they-follow-the-code) ·
[runs](#3-runs) · [bounds and fairness](#4-bounds-and-fairness) · [proofs](#5-proofs) ·
[findings](#6-findings) · [not modelled](#7-what-is-not-modelled) · [plan](#8-plan)

Paths below are relative to `src/packages/`; `AR` is `agent_runtime/src/agent_runtime`.

## 1. The system

An agent process is **one asyncio event loop**. A channel adapter accepts messages and
puts them, with a reply future each, on an in-process queue; one worker task
(`AgentCore.run`) takes them off one at a time and drives each through session, budget,
model, tools and reply. Nothing is locked: atomicity is what lies between two `await`s.
The worker gives the loop up at two places only, the empty queue and the provider call
(and the tools, which are synchronous). Every other component runs inside the worker's
steps or inside a channel handler.

| component | code | state | operations | hard because |
|---|---|---|---|---|
| Core worker | `AR/core.py` | message in hand, round counter, provider's answer | dequeue, command, hear, budget verdict, model call, record, charge, tool rounds, answer | any component may raise at any of its steps; it shares reply futures with the channel; SIGTERM cancels it at an await |
| dev-http channel | `AR/components/dev_http.py` | one handler and one reply future per POST | post, gate, wait with timeout, answer, disconnect | timer, client EOF and worker race for one future |
| Queue | `AR/components/memory_queue.py`, `AR/queues.py` | a FIFO | put, get | lost with the process; unbounded |
| Gateway allowlist | `AR/gateway.py` | none | allow or drop a sender | its drop is audited before the 403, and the sink may raise |
| Sessions, sqlite | `AR/sessions.py`, `AR/components/sqlite_persistence.py` | transcripts in memory and in the file | session_for, add_message, add_reply, rollback | memory and file must agree after a failed INSERT and after a restart |
| Model router | `AR/components/model_router.py` | tokens and dollars spent, warning marks, per session | provider_for, budget_verdict, charge | verdict before the call, charge after it |
| Tool executor | `AR/executor.py` | parked calls, their deciders | execute, resolve, approval routes | decisions come at any time, perhaps twice, perhaps after a restart; a tool's effect precedes its record |
| Audit log | `AR/audit.py`, `AR/components/jsonl_audit.py` | a file of records | append | an append may raise at every call site |
| Runner | `AR/runner.py` | task group, signal handlers | boot, SIGTERM, drain, exit | `CancelledError` passes `except Exception` |
| HTTP receiver | `AR/components/http_receiver.py` | connection count, deadlines, disconnect watch | accept, shed, parse, dispatch, write | a slot must come back on every path; two tasks finish in one tick |
| Egress proxy | `keep_egress/src/keep_egress/proxy.py` | active connections, two relay loops and byte counters per tunnel | accept, shed, parse, match, dial, tunnel, relay, record | a task per connection, a slot and two records per task, every await may raise |
| Egress record and runner | `keep_egress/src/keep_egress/records.py`, `runner.py` | none | build records, start | |
| Providers | `AR/provider.py`, `AR/components/*_provider.py` | retries of the call | complete, with retries | a timed-out call may have been served; tool names are rewritten for the wire |
| Prompt assembler | `AR/components/prompt_assembler.py` | none | assemble | a window over a transcript that grows and is rolled back |
| Shared channel lifecycle | `AR/components/channel_lifecycle.py` | seen ids with their times, delivery tasks | recognise, accept, deliver, cancel | redelivery races eviction and expiry; shutdown races deliveries |
| Spec models, cron, allowlist | `keep_spec` | none | validate, parse cron, match | the build trusts it, and the proxy reads the same entries with a matcher of its own |
| Wiring | `AR/wiring.py` | none | select, refuse, cross-check egress | run twice, at build and at boot, on what may be two documents |
| Composer and CLI | `keep_build` | a context directory that outlives builds | load, guard, clean, write, copy, docker build | killed between two writes; reads the spec file twice |
| Boot | `AR/runner.py` | what `build_app` has loaded | guards, imports, keys, prices | fails, if it does, in the field |
| Facts, local tools, lifecycle vocabulary, diff, deployment | `AR/`, `keep_spec`, `src/deploy*`, `src/provision` | | | external effects, one-pass reports or glue |

**Interactions.** dev-http → queue → worker (message); worker → reply future → dev-http
(answer); receiver → dev-http (cancellation); worker → session → sqlite (two INSERTs per
exchange, each its own transaction); worker → router (verdict, charge); worker →
executor (`execute` returns at once, a gated call is parked); `POST /approve/{id}` →
executor, between two steps of the worker; everyone → audit sink. The proxy shares
nothing with the agent process but the network, and with the build but the allowlist. A
webhook adapter would sit between receiver and channel lifecycle: receiver → `accept` (a
delivery per connection) → queue; worker → delivery task → reply. The build hands the
image to the boot, which runs the guards again.

**What makes each correct.** Transcripts: a reply follows its message, nothing is stored
or answered twice, memory is the file. Replies: a future is settled once; a 200 means
stored. Queue: whatever raises, the next message is served. Budget: at most one call
past the ceiling; what is charged is what is in the audit log. Audit: each effect
(model call, tool run, connection) leaves one record that names who asked and who
decided; an effect goes unrecorded only where an append raised or the process died.
Executor: a gated call runs at most once and only after an approval. Proxy: slots are
connections, one closing record per connection, the open record before the first byte,
the pair correlated, the byte counts those relayed. Receiver: slots are connections and
come back; no handler is orphaned. Webhook: what was acknowledged has a turn, and one turn
per message within the cache's window; nothing is posted after the shutdown. Providers: a
call is a bounded number of requests and ends unless one answer comes in for ever; a wire
name is one tool. Pipeline: an image holds one spec's modules, boots but for its environment,
enforces the budget its spec names, can reach what it dials, and wakes when its schedules say.

## 2. Modules, and how they follow the code

```
SerialConversation   (abstract)  <--refined by--  AgentCore  --INSTANCE-->  SessionStore
ModelRouter          (component) <--refined by--  AgentCore  (and its operators used there)
ApprovalGate         (abstract)  <--refined by--  ToolExecutor
AgentCore + ToolExecutor  --composed in-->  AgentRuntime
AgentCore            --INSTANCE-->  PromptAssembler
ModelRouter          <--extended by--  ProviderCall
HttpReceiver + ChannelLifecycle  --composed in-->  WebhookChannel
SpecModels  <--extended by--  Wiring  <--extended by--  BuildAndBoot
EgressProxy          (on its own: another process)
```

* **`AgentCore`**: channel, queue, worker, process. `pc` is the worker's place in
  `handle`/`call_model`; each action is what runs between two points where another task,
  a crash or a raising component may come in between. `LoopFree` (`idle`, `model`,
  `stopped`) are the awaits: channel handlers, timers and SIGTERM take their steps only
  there, while `Crash` may fall between any two actions. `Raises(kind)` is a component that
  raises: each action that calls a sink, the database, the loader or a command has a
  branch for it that does what the code does up to the raise and then `FailTurn`
  (`run`'s `except Exception`). History variables (`begun`, `recorded`, `used`,
  `audited`, `warnings`) count what the audit log and the provider saw.
* **`SessionStore`**: `memory` (the manager's cache) and `db` (the file), `AddTurn`,
  `AddTurnFails` (append, failed INSERT, pop), `Restart`.
* **`ModelRouter`**: tier choice, prices, `Verdict`, `Ask` (the verdict with its
  warning mark), `Charge`. As a module of its own it also says the protocol in which the
  router may be called: ask, call, charge. `AgentCore` uses its operators and is shown
  to follow that protocol.
* **`SerialConversation`**: what the worker promises about transcripts, whatever
  fails: hear a message once, one exchange open at a time, a reply closes the
  exchange of the message it answers, an exchange may be abandoned.
* **`ToolExecutor`**: `execute` (lookup, pins, autoApprove, park), `resolve`,
  `_run_and_record`, with failing appends and restarts. `running` is the call whose
  tool has returned and whose record is not yet appended.
* **`ApprovalGate`**: a gated call is asked for, decided once, and run only when approved.
* **`AgentRuntime`**: the worker's tool steps are the executor's calls; decisions come
  between the worker's awaits; both stop together.
* **`EgressProxy`**: a connection's task in phases (`head`, `dial`, `tunnel`, `parting`, `ending`,
  `closing`), the two relay loops of a tunnel as `pipe`, the slot counter, the records. `parting`
  and `closing` are the two `wait_closed` (upstream, then client): `unread` is the set of directions
  whose last chunks have not left the proxy, and only the peer can empty it (`PeerTakes`).
* **`PromptAssembler`**: the window, the fence around every turn but the agent's own, the
  order of the system sections. `AgentCore!Prompt` is what it gives for the message in hand.
* **`HttpReceiver`**: a connection's task in phases (`parse`, `handle`, `write`, `close`),
  the handler and the disconnect watch as two flags that may both be set when the task
  runs again, the slot counter. What the request parser can refuse is a set (`Refusals`).
* **`ChannelLifecycle`**: the seen-id cache as the sequence it is (`seen`, oldest first,
  evicted from the front by age and then by size), a delivery's background task, the turn
  behind it, `aclose`. `taken` is a history of what was enqueued, and when.
* **`WebhookChannel`**: the two together. The adapter between them is not in this
  repository; `Handle` does what `channel_lifecycle.py` documents, and is marked external.
* **`ProviderCall`**: one allowed call of the router as the loop the HTTP adapters run: post,
  read the answer, back off, post again. A request can time out until its answer begins
  (`AnswerBegins`); after that httpx's timeout bounds each read and not the whole (`stage = "read"`).
  The adapters differ in the answers they retry and the replies they
  can read (`AnthropicRetries`, `OllamaReplies`, ...). It extends `ModelRouter`, so the budget
  is checked with calls that fail after several served requests.
* **`SpecModels`**: documents as records, the cross-field validators, the cron parser with its two
  restriction flags, the day rule they are documented for (`DayMatches`) and the calendar
  (`CanFire`), the proxy's matcher. `Valid` is `load_spec`.
* **`Wiring`**: `select_components`, `unimplemented_selections` (`Implemented`), the egress
  targets and the build's own matcher. `Buildable` is `ensure_buildable`.
* **`BuildAndBoot`**: the spec file, the context directory, the build's stage, the last image
  and the last boot. Each write of `emit_build_context` is an action, because an edit of the
  file or the build's end may come between two. `Loads` is what each step of `build_app`
  imports, `Refusal` the first step that fails.

The `MC*` modules give the constants their small values. Definitions named
"Mutant of X" are what X would be with a plausible bug in it (a dropped guard, a
missing rollback, a swapped order); no specification uses them, and each property of
each run has been seen to fail when X is replaced by its mutant. Names follow the code
where TLA+ allows.

**Abstractions.** Messages, sessions, calls and connections are model values; a turn is
its role and its message; usage is a pair of small token counts; a record is the fields
some property reads. The gateway's verdict on a sender is the constant `Rostered`, a
session key the constant `SessionOf`. A provider returns any answer of `Answers`, after
any time, or raises. A tool returns any outcome. The request head is the
set of outcomes of its parser; the allowlist match is one of them.

## 3. Runs

| run | module | distinct states | what it shows |
|---|---|---|---|
| `core_transcripts` | MCAgentCore | 1,638,349 | Two model messages in one session, one command in another, a sender the gate forbids, one failure anywhere, one stop: transcripts and reply futures stay right and `AgentCore` implements `SerialConversation`; each prompt ends its transcript; a fact has its message in the transcript but for a fault or a stop; warnings (onExceed=warn) come once and in time, every completed call is charged, and each raise costs one session its warning or one call its charge at most |
| `core_sigterm` | MCAgentCore | | violation: SIGTERM at the provider leaves a call unrecorded |
| `core_orphan` | MCAgentCore | | violation: model calls are begun for a client that is gone |
| `runtime` | MCAgentRuntime | 1,018,616 | worker, router (onExceed=block, both ceilings) and executor together: tools only after the recorded model call that asked for them, the round limit bounds calls, charge = audit, no call unrecorded but by a fault or a stop, the router's protocol is kept |
| `runtime_turns` | MCAgentRuntime | 165,738 | liveness: every message taken or queued is dealt with unless one provider call never returns, though nobody ever decides a parked call |
| `provider` | MCProviderCall | 20,281 | every sequence of answers to two calls of three adapters: one call of overshoot at most, bounded requests and sleeps, one tool per wire name; liveness: a call ends unless one answer comes in for ever |
| `executor` | MCToolExecutor | 103,559 | four calls of all kinds, two askers, two deciders, two failing appends, a restart: its records tell one story and name the right people, `ToolExecutor` implements `ApprovalGate` |
| `proxy` | MCEgressProxy | 582,312 | two connections on one slot, two chunks per direction, a failing append, a process end: slots are neither leaked nor given back twice, one closing record each, the open record before the bytes, the pair correlated, the bytes counted; liveness: only a peer keeps a slot for ever, in a tunnel or while what it was sent is flushed |
| `proxy_denied` | MCEgressProxy | | violation: an allowed, dialled connection recorded as denied |
| `webhook` | MCWebhookChannel | 558,958 | three connections on one slot, a message, its redelivery and another message, a cache of one id and a lifetime of one tick: slots, orphans, one turn per window, acknowledgements, shutdown; liveness: a slot comes back whatever the peer does |
| `pipeline` | MCBuildAndBoot | 22,138 | documents that combine every choice of models, prices and egress with every other section, valid or not; an edit and a second build at any moment: what the image holds, why it may not boot, what it serves, charges and dials, and which schedules never fire |
| `pipeline_dials` | MCBuildAndBoot | | violation: an agent is served whose own egress rules block its model |

Deadlock is checked in every run but the two of the pipeline, which ends when its builds
and edits are spent. Where another system may rest for ever (nothing queued and
no client waiting; every connection over) an explicit `Quiet` step says so, so that any
other standstill is an error. The refusing budget is met in `runtime` and the warning one in
`core_transcripts`: a process has one `onExceed`.

## 4. Bounds and fairness

Named bounds: `MaxFaults` (calls that raise in one behaviour), `MaxStops` (crashes,
SIGTERMs, restarts), `MaxCalls` (tool calls asked for in one round; in `ProviderCall`, calls of a
session), `MaxChunks` (chunks per direction), `MaxTime` (ticks), `Flaky` (the peers that may turn
away), `MaxEdits` and `MaxBuilds`. `MaxToolRounds`, `MaxConnections`, `MaxConns`, `MaxRetries`,
`MaxSize`, `Ttl`, `Base` and `Cap` are the code's own limits, with small values. Everything else
is finite by itself: a message is posted once, a delivery has a connection of its own.

They are large enough for the interesting cases. Two messages of one session are what
an interleaved transcript needs, and a third one in another session what cross-session confusion
needs. One fault and one stop in the same behaviour allow a failed INSERT followed by a crash
and a reboot. A window of two turns cuts a transcript of two exchanges between a message
and its reply. Ceilings are one to three calls away, so that sessions reach them, pass them, and
are refused after it. More connections than slots make the cap bite with another connection in
service. A cache of one id and a lifetime of one tick make a redelivery meet an entry that
is live, evicted and expired. Two retries with a base of one and a cap of three let a backoff
run into its cap, and `RetryAfter` asks for less, and for more. One edit and two builds put a
changed file between any two writes and a second emission over what the first one left; a
third build can only find a directory some earlier one left. Symmetry is declared
over values that constants treat alike, never in a run that checks liveness.

**Fairness** (`RuntimeFairSpec`, `EgressProxy!FairSpec`, `WebhookChannel!FairSpec`,
`CallFairSpec`) is weak and only on what the code drives by itself: the worker's steps (plain
code between awaits), a handler whose future is settled, the 30-second reply timer, a running
tool's return, the end of a drain and the supervisor's reboot; in the proxy, the head timeout, the
dial (ended by the operating system at the latest; the head and the 200 are below the mark at which
a drain waits), and what waits for no peer after the relay; in the receiver, the parse and write
deadlines and a handler without awaits; in a provider's loop, the timeout of a request whose answer
has not begun, and the sleep.

There is none on clients posting, reading or leaving, on humans deciding, on the worker
behind a webhook, on crashes, nor on these, which the code leaves without a bound:

* a provider's answer: httpx's `timeout=120` is per operation (connect, each read, write, pool), so
  an answer that trickles in never trips it. `CallsEnd` excepts the call that stays in `read`, and
  `ParkedCallsHoldNoTurn` the runtime whose worker stays at the provider;
* a tunnel: it has no idle timeout;
* the proxy's closes: `await upstream_writer.wait_closed()` (`proxy.py:371`) and `await
  writer.wait_closed()` (302) come before the slot is given back (307) and have no timeout, so a peer
  that does not read what it was sent last keeps the slot. `OnlyPeersHoldSlots` excepts these peers
  and those in the relay (`AwaitsPeer`), and nothing else;
* the receiver's close, likewise: `SlotsComeBack` excepts it.

## 5. Proofs

The proof modules hold for every value of the constants that satisfies the named
assumptions (`CoreAssumption`, `RouterAssumption`, `ExecutorAssumption`, `RuntimeAssumption`,
`CallAssumption`, `ProxyAssumption`, `ReceiverAssumption`, `LifecycleAssumption`,
`DocumentAssumption`, `AbsenceAssumption`, ...): any sets of messages, sessions, calls and deciders,
any caps, prices and usages, any finite set of connections, any cache size and lifetime, any retry
limits and tool names, any documents, library and environments, any bounds. The assumptions are
types of constants and of what a parser yields (`DocumentAssumption`), that `None` is
not among the values it stands apart from, and one fact of arithmetic the prover lacks, that
a number times a power of two is a number (`CallAssumption`). TLC evaluates every one of them.

Every invariant and every safety action property a passing run checks has its theorem: a run shows
it on an instance, where a counterexample would be seen, the theorem for all of them.

| theorem | module | states |
|---|---|---|
| `TypeCorrect` | ModelRouter_, ToolExecutor_, AgentCore_, EgressProxy_proofs | the type invariant of each component |
| `BudgetHolds` | ModelRouter_proofs | `OneCallOvershoot`, of the router by itself |
| `ProtocolIsKept`, `CoreBudgetHolds` | AgentCore_proofs | the core refines the router's protocol; hence `OneCallOvershoot` in the core |
| `SettledOnce`, `ChargesAreAudited` | AgentCore_proofs | `RepliesSettleOnce` (an action property), `ChargedIsAudited` |
| `MemoryIsTheFile`, `CoreIsSerial`, `RepliesFollow`, `TurnsAreUnique`, `AnsweredMeansStored` | AgentCore_proofs | `MemoryMatchesStore`, the refinement of `SerialConversation`, and what follows from it for the files |
| `CompletedCallsAreCharged`, `OneWarningPerSession`, `PromptIsTheTranscript`, `EveryFactIsMentioned`, `CallsAreRecorded` | AgentCore_proofs | `EveryCompletedCallCharged`, `WarnedOverBudget`, `PromptEndsTheTranscript`, `FactsAreMentioned`, `UnrecordedByFaultOnly` |
| `Soundness`, `NoCallRunsTwice`, `RecordsAreAttributed`, `OneStoryIsTold`, `RunsAreRecorded`, `ExecutorIsApprovalGate` | ToolExecutor_proofs | the executor's properties and its refinement of `ApprovalGate` |
| `RuntimeImplementsCore`, `RuntimeImplementsExecutor` | AgentRuntime_proofs | the composition refines both of its halves |
| `RuntimeKeepsBudgetAndRecords`, `RuntimeRecordsAreAttributed` | AgentRuntime_proofs | hence their properties, in the composition |
| `ToolsFollowRecords`, `RoundsAreBounded`, `RuntimeRunsAreAccountable` | AgentRuntime_proofs | `ToolsFollowARecordedCall`, `RoundsBoundCalls`, and where every tool run comes from |
| `CallImplementsRouter`, `CallsKeepTheBudget` | ProviderCall_proofs | the retry loop refines the router; hence `OneCallOvershoot` |
| `CallTypeCorrect`, `CallsAreBounded`, `NamesAreResolved` | ProviderCall_proofs | types, `RetriesAreBounded`, `ToolNamesRoundTrip` |
| `SlotsAreCounted`, `OneRecordCloses`, `TunnelsAreObserved`, `RecordsCorrelate`, `CountsAreRelayed` | EgressProxy_proofs | the proxy's safety properties |
| `RecordsTellTheVerdict` | EgressProxy_proofs | what holds of verdicts where `DeniedIsNotDialed` does not |
| `ReceiverAlways`, `SlotsHold`, `NoHandlerIsOrphaned` | WebhookChannel_proofs | `SlotsAreConnections` and `NoOrphanHandler` of the receiver |
| `LifecycleAlways`, `OneTurnPerMessage`, `AcknowledgedHadATurn`, `ClosedStaysClosed` | WebhookChannel_proofs | `OneTurnPerWindow`, `AcknowledgedHasATurn`, `NothingPostedOnceClosed` |
| `PipelineInv`, `ImagesHoldOneSpec`, `ImagesBoot`, `ServedRunsItsSpec`, `BudgetsAreEnforceable`, `ServedReachesAllButPortlessOllama`, `OnlyDatelessSchedulesIdle` | BuildAndBoot_proofs | `ImageIsOneSpec`, `BootFailsByEnvironmentOnly`, `ServesItsSpec`, `BudgetIsEnforceable`, `OnlyPortlessOllamaIsDenied`, `OnlyDatelessSchedulesNeverFire` |

The arguments, and why each needs its strengthening:

* **AgentCore types** (`TypeInv`). `TypeOK` is not inductive: `recorded` and `spent` stay
  numbers only because the worker has an answer in hand when it records (`AnswerInHand`),
  and `todo` because a tool round starts with a call left (`CallsInHand`). The state is
  cut into parts that steps change together, with one lemma per group of actions.
* **Replies.** A future leaves `pending` once because every writer looks at `done()`;
  posting is the one write that does not look, so the invariant adds that a message that
  was not posted has no future (`NewHasNoFuture`).
* **Serial conversation** (`PlacesInv`). The refinement needs `Hear` to find its message
  unheard. A message is in one place on its way (not posted, queued once, in hand: `OnePlace`)
  and up to the INSERT nothing of it is in the file (`UnheardYet`). Every other
  step maps to a stutter or to `Abandon`.
* **Transcripts** (`TellingInv`). Over the abstract steps only: while an exchange is open
  its message is the last turn of its session (`OpenIsLast`), so an appended reply follows
  its message and is new. `AnsweredIsStored` adds that a result future means both turns
  are in the file, and files only grow.
* **Budget** (`BudgetInv`). Under block, the call in flight was allowed below both
  ceilings and nothing was charged to its session since (`AllowedBelowCap`). The
  core is shown to take only router steps (`RouterStep`), and the router's theorem is cited
  for the core's counters through an instance of its proof module.
* **Charges** (`ShortInv`). `Shortfall` is what the provider spent for a session in this process
  and the session was not charged, the answer in hand apart. A step leaves every session as short as
  it was, ends the process that counts, or is the raise on a record, which leaves one session short
  of one call (`StepShorts`, over all actions). Hence the short sessions are at most as many as the
  raises, and each is short of one largest call per raise at most.
* **Warnings** (`WarnInv`). A call over budget is one of a marked session because mark and record
  come together unless the sink raised, and spending only grows, so a marked session
  stays over budget (`StaysExceeded`). The marked sessions without a record (`Silent`) are no more
  than the raises: the step that adds one is a raise.
* **Prompt** (`LoadedInv`). While an exchange is open, its session is in memory as the file has
  it. With `OpenIsLast` the window then ends with the message in hand; that the window is a tail
  of the transcript is the assembler's arithmetic.
* **Facts and lost records** (`MentionInv`, `LostInv`). Both are counts: a set is no larger
  than `faults + stops` because a step that adds a member to it adds to that sum (`Mentions`,
  `Loses`). No step adds two, because only the message in hand can lose something, and a process
  that stops has none in hand afterwards (`StoppedInv`). A message loses at most one record,
  because after it the message has left the worker for good (`Left`).
* **Executor** (`IInv`). For each call, its stage, decider, records and run count go
  together, case by case; properties and refinement read off from it.
  `RunsAreRecorded` counts the calls whose run has no record against the appends that raised.
* **Composition.** `RuntimeStep` and `ExecutorStep` map each step of `AgentRuntime` to a step of
  the core and to one of the executor, or to a stutter; theorems of both are then cited, the
  executor's through an instance of its proof module. What neither half knows is proved on top:
  `AskedInv` bounds the calls of the message in hand by its rounds (`MaxCalls` a round, less those
  still to be asked for), and `RoomInv` keeps that within the round limit and within the recorded
  calls of the message, also once it has left the worker. `RoundsBoundCalls` needs `CallsInv`,
  which counts model calls by rounds.
* **Accountable runs.** `RuntimeRunsAreAccountable` joins three invariants: the executor's (a run
  is single, and auto-approved or approved by a decider), the transcripts' (a message in a tool
  round has been heard, and files only grow), and `AskersAreHeard` (so the trigger of every call is
  in its file). No run lists it; TLC finds it true on the instance of `runtime`.
* **Provider calls.** Posts, backoffs and wake-ups are stutters of the router; a reply that cannot
  be read is an uncharged completion (`NothingIsCharged`), hence the refinement and the budget.
  Requests are counted by the attempt number, level with it or one ahead (`Counted`). A name in a
  reply is one tool because an offer with a collision is never sent (`OffersAreDistinct`): the
  payload raises first.
* **Proxy** (`ProxyInv`). For each connection, `Sound` ties its phase to the shape of its
  log (nothing, an open record, a closing record, or both) and to the record it is about to leave,
  and `Counted` ties each byte counter to the chunks written and the relay loop's place. A
  step touches one connection; the others are the same (`OthersAreSame`).
  The slot count follows by cardinality (`SlotsStep`). `RecordsTellTheVerdict` delimits the finding
  of `proxy_denied`: a record says `allowed` of exactly the connections whose target was contacted
  (`Judged`), unless it is the record `_handle` leaves of an unexpected exception. No run lists it;
  TLC finds it true on the instance of `proxy`.
* **Receiver** (`ReceiverInv`). Types, the slot count and "a running handler has its
  connection waiting" hold together: the count needs to know that `Settle` happens once per
  connection in service, which is its phase. A step of `WebhookChannel` is a step of each half
  (`ReceiverPart`, `LifecyclePart`), so each half is proved by itself.
* **One turn per window** (`LifecycleInv`). `OneTurnPerWindow` is about the history, `TakeIn`
  looks at the cache. `Remembers` joins them: the cache is the tail of what was taken, and
  what lies before that tail is a lifetime old or has `MaxSize` messages after it.
  Expiry and eviction both cut from the front (`TailRemembers`), so an id that is not in the
  cache was forgotten for one of the two reasons. The cache's order is what makes it true: were an
  entry refreshed when it is seen again, the tail would have gaps.
* **Nothing posted once closed** (`ClosedInv`): a closed channel is drained and has no task in
  flight, and a drained receiver has no handler that could start one.
* **Pipeline** (`IInv`). What the context directory holds is tied to the stage of the build and
  to the spec it loaded; the loaded spec is valid and, once guarded, buildable, and so is the
  one an image was composed for. A boot without a refusal has passed every step (`NoRefusal`),
  hence the guards on the spec that is in the image, whichever that is.
  `OnlyPortlessOllamaIsDenied` then compares the two matchers entry by entry (`MatchersAgree`) on
  the targets of the guard.
* **Schedules**. A loaded expression is one `parse_cron` accepts, so each of its fields is a
  non-empty set of what a clock or calendar has (`FieldsAreOnTheClock`; day-of-week modulo seven).
  With a restricted day-of-week, or with no restricted day at all, every month has a day that
  matches; with day-of-month alone, a date exists unless the schedule is `Dateless`.
* **Modules at boot.** `BootFailsByEnvironmentOnly` compares the runner's imports with the
  composer's lists. What a module imports stays within any set closed under imports
  (`ClosureStaysWithin`), and what is composed is closed (`ImportsAreComposed`), so each step of
  `build_app` finds what it loads (`LoadsAreComposed`, `StepFindsItsModules`). The refusals left
  are the environment's (`RefusedByEnvironment`). `ServesItsSpec` uses the same lists: what a
  serving agent has loaded is within what its spec composes.

Only model-checked: what depends on fairness (`ParkedCallsHoldNoTurn`, `OnlyPeersHoldSlots`,
`SlotsComeBack`, `CallsEnd`), since liveness is beyond the prover. The violations are TLC's by
nature.

## 6. Findings

* **A stopped call is not recorded** (`core_sigterm`). `call_model` records a provider call
  that failed under `except Exception` (`AR/core.py:453`). SIGTERM cancels the worker
  at that await, and `CancelledError` is not an `Exception`, so the call leaves no
  record although the comment (454-455) says "every call recorded".
* **A vanished client's turn goes on** (`core_orphan`). The receiver's disconnect watch
  cancels the handler, and with it the reply future; the turn belongs to the worker task,
  which nobody cancels, and goes on calling the model. `AR/components/dev_http.py:66-67`
  says the watch "cancels the in-flight turn".
* **An allowed attempt is recorded as denied** (`proxy_denied`). If the client is gone when
  the 200 is drained, the exception leaves `_proxy_connection` after the target was
  dialled, and `_handle` records target `invalid`, verdict `denied`, with a new
  connection id.

* **A portless ollama host is checked as one port and dialled as another** (`pipeline_dials`).
  `_ollama_egress_targets` gives a `baseHost` without a port the port 11434 (`AR/wiring.py:534`);
  the runner makes `http://<baseHost>` of it (`AR/runner.py:126`), which is port 80. The spec builds,
  boots and has every model call denied by its own proxy, although "a spec declaring a component its
  own egress rules would block is internally inconsistent and must not build" (616-618).
  `OnlyPortlessOllamaIsDenied` shows, and the proof confirms, that this is the only such case.

Noted while modelling, with no run of their own:

* a schedule whose days no month of it has, such as `0 0 31 2 *`, validates and never fires, though
  `keep_spec/src/keep_spec/models.py:176-178` says "a spec that validates is a spec whose schedule
  can actually run". `OnlyDatelessSchedulesNeverFire` shows, and the proof confirms, that these are the
  only ones;
* a proxy connection whose peer leaves unread what it was sent last keeps its slot after the tunnel,
  at `wait_closed` (`proxy.py:371`, 302), for as long as the peer likes;
* the providers say that long completions "ride the request timeout"
  (`AR/components/anthropic_provider.py:11-12`); httpx applies it to each operation, so it bounds no
  request whose answer keeps coming in;
* a call the provider completed whose record append then raises is never charged (record first,
  charge after it, so `ChargedIsAudited` holds and `EveryCompletedCallCharged` allows one call for
  each raise); a warning whose record raises is never given again (the mark comes first);
* an MCP URL with port 0 is checked as its scheme's default, and one with a port beyond 65535 makes
  `ensure_buildable` raise a bare `ValueError` (`AR/wiring.py:425`, `McpPort`, `McpUrlsReadable`);
* a parked call does not keep its run open, though `contracts/run-lifecycle.md` has a state in which
  a run waits for an approval;
* a request target on which `urlsplit` raises gets no 400, because the parse is outside the
  handler's `try` (`proxy.py:156`, `garbled` in the model);
* a selected component that the registry names and the library lacks passes `ensure_buildable`; the
  emission fails on it with `FileNotFoundError`, after the old context is gone (`Copied`);
* a channel other than dev-http is refused when the Dockerfile is written, again after the clean
  (`WriteDockerfile`), and channels after the first are validated and never served;
* `spec.yaml` is copied from the path and not from the document that was loaded (`CopySpec`): an
  edit in between is baked in. The boot's own guard is why `ServesItsSpec` holds all the same;
* a wildcard `*.host` is accepted as a `baseHost`; the OpenAI and Ollama adapters do not offer the
  prompt's tools; the cache of seen ids is called LRU and evicts in order of arrival.

## 7. What is not modelled

* **Text**: prompt wording and the escaping of fence markers, digests, log lines, HTTP
  syntax, name patterns and descriptions of the schema.
* **Durations**: a timer may fire at any time its owner waits. Only the cache's lifetime and
  the backoff are counted, in units.
* **Facts store and worker analyzer**: the store is no part of this repository; the facts
  of `AgentCore` are the messages whose command wrote one. The analyzer, like the other local
  tools, is an effect of `RunTool`: it reads a bundle, keeps no state and writes nothing.
* **Spec diff and decision coverage**: one pass over two documents, without a consumer in
  the agent.
* **Components of other libraries** that the registry names (redis, postgres, pgvector, Slack,
  WebEx, event intake, schedules, MCP): they appear as modules that are selected, copied or
  missing, never by behaviour.
* **Deployment scripts, terraform and the proxy's own image**: shell and declarations. That the
  proxy is started with the agent's spec is an assumption of `OnlyPortlessOllamaIsDenied`.

`PROJECT.json` lists every component with its status and reason, and every hazard with the
properties that cover it.

## 8. Plan

Done in order of importance: AgentCore with SessionStore, ModelRouter and SerialConversation;
ToolExecutor with ApprovalGate; AgentRuntime; EgressProxy; then HttpReceiver and
ChannelLifecycle with their composition, ProviderCall, PromptAssembler, and the pipeline of
SpecModels, Wiring and BuildAndBoot; the proofs of section 5.

The proofs cover every safety property of the passing runs. Next, theorems that reach further:

1. `EgressProxy` as an implementation of an abstract observer: a connection is seen, then carried,
   then closed.
2. The receiver as an implementation of an abstract pool of slots.
3. `ProviderCall` under the core: the composition in which one model call of `AgentCore` is the
   loop of `ProviderCall`, so that a record stands for at most `MaxRetries + 1` requests.
4. `BuildAndBoot`: that two images of one document hold the same modules, whatever the directory
   held before.

Next, models: `SpecDiff` (`diff.py`) as operators on trees, that applying a diff gives the
other document.
