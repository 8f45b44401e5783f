------------------------------ MODULE AgentCore ------------------------------
(***************************************************************************)
(* One agent process: the dev-http channel that accepts messages and waits *)
(* for replies (components/dev_http.py), the in-process queue, the worker  *)
(* that handles one message at a time (core.py), the session store and the *)
(* model router it calls, and the process's stops and starts (runner.py).  *)
(*                                                                         *)
(* The process is one asyncio event loop.  The worker gives the loop up    *)
(* only where it awaits: on an empty queue and on the provider.  A channel *)
(* handler runs only then (LoopFree); a crash can fall between any two     *)
(* steps.                                                                  *)
(***************************************************************************)
EXTENDS Integers, Sequences, FiniteSets

CONSTANTS
  Messages,       \* one POST /message each
  Rostered,       \* those whose sender the gateway allowlist admits
  Commands,       \* those the command surface takes (memory writes)
  Sessions,
  SessionOf,      \* sessions.session_key
  TokenCap, UsdCap, OnExceed, HasMessageTier, Price, Usage, NoCap,  \* ModelRouter
  ToolsWired,     \* the spec grants tools, so an executor is wired
  MaxToolRounds,  \* MAX_TOOL_ROUNDS
  MaxCalls,       \* bound: tool calls a provider asks for in one round
  WindowTurns, Full,  \* PromptAssembler
  FaultKinds,     \* what may raise: of {"sink", "db", "load", "command"}
  MaxFaults,      \* bound: calls that raise in one behaviour
  MaxStops,       \* bound: crashes and SIGTERMs in one behaviour
  Absent, None

VARIABLES
  memory, db,            \* SessionStore
  spent, usd, warned,    \* ModelRouter
  life,       \* the process: "up", "stopping" (SIGTERM taken), "down"
  client,     \* where each POST stands
  reply,      \* the reply future of each queue item
  queue,      \* InProcessQueue
  pc,         \* where the worker is
  current,    \* the message in hand, or None
  rounds,     \* tool rounds of this message
  todo,       \* tool calls left in this round
  got,        \* the provider's answer in hand
  facts,      \* messages whose command wrote the facts store
  begun,      \* history: provider calls begun for each message
  recorded,   \* history: model_call records of those calls
  used,       \* history: tokens the provider spent for a session, this process
  audited,    \* history: tokens in the session's model_call records, this process
  warnings,   \* history: budget_warning records of a session, this process
  faults,     \* calls that raised so far
  stops       \* crashes and SIGTERMs so far

storeVars   == <<memory, db>>
routerVars  == <<spent, usd, warned>>
workerVars  == <<pc, current, rounds, todo, got>>
auditVars   == <<begun, recorded, used, audited, warnings>>
boundVars   == <<faults, stops>>
vars == <<storeVars, routerVars, life, client, reply, queue, workerVars, facts,
          auditVars, boundVars>>

\* Nothing here depends on `inflight`: these are the router's own operators.
Router == INSTANCE ModelRouter WITH inflight <- None

Assembler == INSTANCE PromptAssembler

ASSUME CoreAssumption ==
  /\ Rostered \subseteq Messages
  /\ Commands \subseteq Messages
  /\ SessionOf \in [Messages -> Sessions]
  /\ None \notin Messages
  /\ ToolsWired \in BOOLEAN
  /\ MaxToolRounds \in Nat
  /\ MaxCalls \in Nat \ {0}
  /\ FaultKinds \subseteq {"sink", "db", "load", "command"}
  /\ MaxFaults \in Nat
  /\ MaxStops \in Nat
  /\ Router!RouterAssumption
  /\ Assembler!WindowOK

\* The core as the router's caller: the call in flight is the one whose record
\* is not yet written.
RouterCalls ==
  INSTANCE ModelRouter WITH
    inflight <- IF pc \in {"model", "record"}
                THEN [session  |-> SessionOf[current],
                      provider |-> Router!ProviderFor("message")]
                ELSE None

\* The core as a conversation: the exchange is open once the message is stored.
OpenExchange ==
  IF pc \in {"confirm", "turn", "model", "record", "act", "tools"}
  THEN current ELSE None

Conversation ==
  INSTANCE SerialConversation WITH open <- OpenExchange

Store == INSTANCE SessionStore WITH Turns <- Conversation!Turns

----------------------------------------------------------------------------
(* State *)

Pcs == {"idle", "get", "begin", "command", "confirm", "turn", "model",
        "record", "act", "tools", "stopped"}

NoReply == [kind |-> "none"]
Answers == [kind : {"final", "tools", "error"}, usage : Usage]

Session == SessionOf[current]

Waiting == {m \in Messages : client[m] = "waiting"}

\* The points where the worker has given the event loop up.
LoopFree == pc \in {"idle", "model", "stopped"}

TypeOK ==
  /\ Store!TypeOK
  /\ Router!TypeOK
  /\ life \in {"up", "stopping", "down"}
  /\ client \in [Messages -> {"new", "waiting", "ok", "error", "timeout",
                              "gone", "forbidden"}]
  /\ reply \in [Messages -> {"none", "pending", "result", "exception",
                             "cancelled"}]
  /\ queue \in Seq(Messages)
  /\ pc \in Pcs
  /\ current \in Messages \cup {None}
  /\ (current = None) <=> pc \in {"idle", "get", "stopped"}
  /\ rounds \in 0 .. MaxToolRounds
  /\ todo \in 0 .. MaxCalls
  /\ got \in Answers \cup {NoReply}
  /\ facts \subseteq Commands
  /\ begun \in [Messages -> Nat]
  /\ recorded \in [Messages -> Nat]
  /\ used \in [Sessions -> Nat]
  /\ audited \in [Sessions -> Nat]
  /\ warnings \in [Sessions -> Nat]
  /\ faults \in 0 .. MaxFaults
  /\ stops \in 0 .. MaxStops

Init ==
  /\ Store!Init
  /\ Router!Init
  /\ life = "up"
  /\ client = [m \in Messages |-> "new"]
  /\ reply = [m \in Messages |-> "none"]
  /\ queue = <<>>
  /\ pc = "idle"
  /\ current = None
  /\ rounds = 0
  /\ todo = 0
  /\ got = NoReply
  /\ facts = {}
  /\ begun = [m \in Messages |-> 0]
  /\ recorded = [m \in Messages |-> 0]
  /\ used = [s \in Sessions |-> 0]
  /\ audited = [s \in Sessions |-> 0]
  /\ warnings = [s \in Sessions |-> 0]
  /\ faults = 0
  /\ stops = 0

\* A call of the given kind returns, or raises.
Returns == UNCHANGED boundVars
Raises(kind) ==
  /\ kind \in FaultKinds
  /\ faults < MaxFaults
  /\ faults' = faults + 1
  /\ UNCHANGED stops

----------------------------------------------------------------------------
(* The channel: one handler per POST /message *)

\* A connection accepted before SIGTERM may still post while the server drains.
Post(m) ==
  /\ life # "down" /\ LoopFree
  /\ client[m] = "new" /\ m \in Rostered
  /\ client' = [client EXCEPT ![m] = "waiting"]
  /\ reply' = [reply EXCEPT ![m] = "pending"]
  /\ queue' = Append(queue, m)
  /\ UNCHANGED <<storeVars, routerVars, life, workerVars, facts, auditVars, boundVars>>

\* The gate's drop is audited before the 403; a sink that raises makes it a 500.
Forbid(m) ==
  /\ life # "down" /\ LoopFree
  /\ client[m] = "new" /\ m \notin Rostered
  /\ \/ Returns /\ client' = [client EXCEPT ![m] = "forbidden"]
     \/ Raises("sink") /\ client' = [client EXCEPT ![m] = "error"]
  /\ UNCHANGED <<storeVars, routerVars, life, reply, queue, workerVars, facts, auditVars>>

\* The handler resumes on a settled future.
Respond(m) ==
  /\ LoopFree
  /\ client[m] = "waiting" /\ reply[m] \in {"result", "exception"}
  /\ client' = [client EXCEPT ![m] = IF reply[m] = "result" THEN "ok" ELSE "error"]
  /\ UNCHANGED <<storeVars, routerVars, life, reply, queue, workerVars, facts,
                 auditVars, boundVars>>

\* wait_for cancels the future it gives up on; one already settled stays.
Leave(m, how) ==
  /\ LoopFree
  /\ client[m] = "waiting"
  /\ client' = [client EXCEPT ![m] = how]
  /\ reply' = [reply EXCEPT ![m] = IF @ = "pending" THEN "cancelled" ELSE @]
  /\ UNCHANGED <<storeVars, routerVars, life, queue, workerVars, facts,
                 auditVars, boundVars>>

\* REPLY_TIMEOUT_SECONDS passed: 504.
ReplyTimeout(m) == Leave(m, "timeout")

\* The receiver saw the client's EOF and cancelled the handler.
Disconnect(m) == Leave(m, "gone")

----------------------------------------------------------------------------
(* The worker: AgentCore.run, handle and call_model *)

\* Mutant of Settle: no look at done().
SettleAgain(m, how) == reply' = [reply EXCEPT ![m] = how]

Settle(m, how) ==
  reply' = IF reply[m] = "pending" THEN [reply EXCEPT ![m] = how] ELSE reply

\* run() asks the queue again, which waits only when it is empty.
EndTurn ==
  /\ pc' = IF queue = <<>> THEN "idle" ELSE "get"
  /\ current' = None
  /\ rounds' = 0
  /\ todo' = 0
  /\ got' = NoReply

\* An exception left handle(): run() gives it to whoever still waits.
FailTurn == Settle(current, "exception") /\ EndTurn

Goto(label) == pc' = label /\ UNCHANGED <<current, rounds, todo, got>>

Dequeue ==
  /\ pc \in {"idle", "get"} /\ queue # <<>> /\ life = "up"
  /\ current' = Head(queue)
  /\ queue' = Tail(queue)
  /\ pc' = "begin"
  /\ UNCHANGED <<storeVars, routerVars, life, client, reply, rounds, todo, got,
                 facts, auditVars, boundVars>>

\* session_for raises before anything of this message is stored.
LoadFails ==
  /\ pc = "begin" /\ memory[Session] = Absent
  /\ Raises("load")
  /\ FailTurn
  /\ UNCHANGED <<storeVars, routerVars, life, client, queue, facts, auditVars>>

\* Mutant of Command: its turn is never stored.
CommandUnheard ==
  /\ pc = "begin" /\ current \in Commands
  /\ Returns
  /\ facts' = facts \cup {current}
  /\ Goto("confirm")
  /\ UNCHANGED <<reply, storeVars, routerVars, life, client, queue, auditVars>>

\* The command writes its fact before its turn is stored.
Command ==
  /\ pc = "begin" /\ current \in Commands
  /\ \/ /\ Returns
        /\ facts' = facts \cup {current}
        /\ Goto("command")
        /\ UNCHANGED reply
     \/ /\ Raises("command")
        /\ FailTurn
        /\ UNCHANGED facts
  /\ UNCHANGED <<storeVars, routerVars, life, client, queue, auditVars>>

AfterHear == IF pc = "command" THEN "confirm" ELSE "turn"

\* Mutant of HearFails: the INSERT's exception goes no further.
HearSwallows ==
  /\ Raises("db")
  /\ Store!AddTurnFails(Session, Conversation!UserTurn(current))
  /\ Goto(AfterHear)
  /\ UNCHANGED reply

HearFails ==
  /\ Raises("db")
  /\ Store!AddTurnFails(Session, Conversation!UserTurn(current))
  /\ FailTurn

\* session.add_message: of a command, or of a message for the model.
Hear ==
  /\ \/ pc = "begin" /\ current \notin Commands
     \/ pc = "command"
  /\ \/ /\ Returns
        /\ Store!AddTurn(Session, Conversation!UserTurn(current))
        /\ Goto(AfterHear)
        /\ UNCHANGED reply
     \/ HearFails
  /\ UNCHANGED <<routerVars, life, client, queue, facts, auditVars>>

\* A budget that refuses: a denied record, then the error.  The message fails
\* the same way when that record cannot be written.
BudgetRefuses ==
  /\ Router!Verdict(Session) = "refuse"
  /\ Returns \/ Raises("sink")
  /\ FailTurn
  /\ UNCHANGED <<storeVars, spent, usd, life, client, queue, facts, auditVars>>

BeginCall ==
  /\ begun' = [begun EXCEPT ![current] = @ + 1]
  /\ Goto("model")
  /\ UNCHANGED <<storeVars, spent, usd, life, client, reply, queue, facts,
                 recorded, used, audited>>

BudgetAllows ==
  /\ Router!Verdict(Session) = "ok"
  /\ Returns
  /\ BeginCall
  /\ UNCHANGED warnings

BudgetWarns ==
  /\ Router!Verdict(Session) = "warn"
  /\ \/ /\ Returns
        /\ warnings' = [warnings EXCEPT ![Session] = @ + 1]
        /\ BeginCall
     \/ /\ Raises("sink")
        /\ FailTurn
        /\ UNCHANGED <<storeVars, spent, usd, life, client, queue, facts, auditVars>>

\* call_model asks for the budget's verdict, then refuses the call, warns of it
\* or begins it.
BudgetVerdict ==
  /\ pc = "turn"
  /\ Router!Ask(Session)
  /\ BudgetRefuses \/ BudgetAllows \/ BudgetWarns

\* provider.complete returns or raises: the worker holds the loop again.
ProviderReturns ==
  /\ pc = "model"
  /\ \E answer \in Answers :
       /\ got' = answer
       /\ used' = IF answer.kind = "error" THEN used
                  ELSE [used EXCEPT ![Session] = @ + Router!Total(answer.usage)]
  /\ pc' = "record"
  /\ UNCHANGED <<storeVars, routerVars, life, client, reply, queue, current,
                 rounds, todo, facts, begun, recorded, audited, warnings, boundVars>>

\* Mutant of NoteCall: a call that raised leaves no record.
NoteCompletedCall ==
  recorded' = IF got.kind = "error" THEN recorded ELSE [recorded EXCEPT ![current] = @ + 1]

NoteCall == recorded' = [recorded EXCEPT ![current] = @ + 1]

\* The record first, the charge after it.
RecordCall ==
  /\ pc = "record" /\ got.kind # "error"
  /\ Returns
  /\ NoteCall
  /\ audited' = [audited EXCEPT ![Session] = @ + Router!Total(got.usage)]
  /\ Router!Charge(Session, Router!ProviderFor("message"), got.usage)
  /\ Goto("act")
  /\ UNCHANGED <<storeVars, warned, life, client, reply, queue, facts, begun,
                 used, warnings>>

\* A call that raised is recorded with status error, then fails the message.
RecordError ==
  /\ pc = "record" /\ got.kind = "error"
  /\ Returns
  /\ NoteCall
  /\ FailTurn
  /\ UNCHANGED <<storeVars, routerVars, life, client, queue, facts, begun, used,
                 audited, warnings>>

\* Mutant of RecordRaises: the charge comes before the record.
ChargesUnrecorded ==
  /\ pc = "record" /\ got.kind # "error"
  /\ Raises("sink")
  /\ Router!Charge(Session, Router!ProviderFor("message"), got.usage)
  /\ FailTurn
  /\ UNCHANGED <<storeVars, warned, life, client, queue, facts, auditVars>>

\* Mutant of RecordRaises: the exception goes no further.
GoesOnUnrecorded ==
  /\ pc = "record" /\ got.kind # "error"
  /\ Raises("sink")
  /\ Goto("act")
  /\ UNCHANGED <<storeVars, routerVars, life, client, reply, queue, facts, auditVars>>

\* The sink raises: no record, no charge, and the answer is lost.
RecordRaises ==
  /\ pc = "record"
  /\ Raises("sink")
  /\ FailTurn
  /\ UNCHANGED <<storeVars, routerVars, life, client, queue, facts, auditVars>>

AsksForTools == got.kind = "tools" /\ ToolsWired

\* Mutant of RoundsSpent: the round is counted after the check.
RoundsSpentLate == rounds > MaxToolRounds

RoundsSpent == rounds + 1 > MaxToolRounds

BeginTools ==
  /\ pc = "act" /\ AsksForTools
  /\ \/ /\ ~RoundsSpent
        /\ rounds' = rounds + 1
        /\ todo' \in 1 .. MaxCalls
        /\ pc' = "tools"
        /\ UNCHANGED <<current, got, reply>>
     \/ RoundsSpent /\ FailTurn
  /\ UNCHANGED <<storeVars, routerVars, life, client, queue, facts, auditVars, boundVars>>

\* Mutant of AskAgain: the model is asked without a new verdict.
AskUnchecked == "model"

AskAgain == "turn"

\* executor.execute returns a result, whatever became of the call, and the
\* model is asked again after the last one.
ToolReturns ==
  /\ pc = "tools"
  /\ Returns
  /\ todo' = todo - 1
  /\ pc' = IF todo = 1 THEN AskAgain ELSE "tools"
  /\ UNCHANGED <<storeVars, routerVars, life, client, reply, queue, current,
                 rounds, got, facts, auditVars>>

\* It raises only when the call's audit record cannot be written.
ToolRaises ==
  /\ pc = "tools"
  /\ Raises("sink")
  /\ FailTurn
  /\ UNCHANGED <<storeVars, routerVars, life, client, queue, facts, auditVars>>

\* Mutant of AnswerFails: the future is settled before the reply is stored.
AnswersUnstored ==
  /\ Raises("db")
  /\ Store!AddTurnFails(Session, Conversation!ReplyTurn(current))
  /\ Settle(current, "result")

AnswerFails ==
  /\ Raises("db")
  /\ Store!AddTurnFails(Session, Conversation!ReplyTurn(current))
  /\ Settle(current, "exception")

\* session.add_reply, then the reply future: of the model, or of a command.
Answer ==
  /\ pc = "confirm" \/ (pc = "act" /\ ~AsksForTools)
  /\ \/ /\ Returns
        /\ Store!AddTurn(Session, Conversation!ReplyTurn(current))
        /\ Settle(current, "result")
     \/ AnswerFails
  /\ EndTurn
  /\ UNCHANGED <<routerVars, life, client, queue, facts, auditVars>>

----------------------------------------------------------------------------
(* The process *)

\* SIGTERM: the task group cancels the worker at its await and stops listening.
\* CancelledError passes every `except Exception`: nothing is recorded or told.
Shutdown ==
  /\ life = "up" /\ LoopFree
  /\ stops < MaxStops /\ stops' = stops + 1
  /\ life' = "stopping"
  /\ pc' = "stopped"
  /\ current' = None /\ rounds' = 0 /\ todo' = 0 /\ got' = NoReply
  /\ UNCHANGED <<storeVars, routerVars, client, reply, queue, facts, auditVars, faults>>

\* What ends with the process: everything but the file and the clients' fate.
Wipe ==
  /\ life' = "down"
  /\ Store!Restart
  /\ spent' = Router!Zero /\ usd' = Router!Zero /\ warned' = {}
  /\ queue' = <<>>
  /\ pc' = "idle" /\ current' = None /\ rounds' = 0 /\ todo' = 0 /\ got' = NoReply
  /\ reply' = [m \in Messages |-> IF reply[m] = "pending" THEN "cancelled" ELSE reply[m]]
  /\ client' = [m \in Messages |-> IF m \in Waiting THEN "gone" ELSE client[m]]
  /\ used' = Router!Zero /\ audited' = Router!Zero /\ warnings' = Router!Zero
  /\ UNCHANGED <<facts, begun, recorded, faults>>

\* The server closes once its open connections are answered.
Exit ==
  /\ life = "stopping" /\ Waiting = {}
  /\ Wipe
  /\ UNCHANGED stops

\* SIGKILL, or any death between two steps of the worker.
Crash ==
  /\ life # "down"
  /\ stops < MaxStops /\ stops' = stops + 1
  /\ Wipe

Boot ==
  /\ life = "down"
  /\ life' = "up"
  /\ UNCHANGED <<storeVars, routerVars, client, reply, queue, workerVars, facts,
                 auditVars, boundVars>>

\* The worker waits for a message and no client waits for it.
Quiet ==
  /\ life = "up" /\ pc = "idle" /\ queue = <<>> /\ Waiting = {}
  /\ UNCHANGED vars

----------------------------------------------------------------------------
Channel(m) ==
  Post(m) \/ Forbid(m) \/ Respond(m) \/ ReplyTimeout(m) \/ Disconnect(m)

Model == BudgetVerdict \/ RecordCall \/ RecordError \/ RecordRaises

Turn == Dequeue \/ LoadFails \/ Command \/ Hear \/ Model \/ BeginTools \/ Answer

Tool == ToolReturns \/ ToolRaises

Worker == Turn \/ Tool

Process == Shutdown \/ Exit \/ Crash \/ Boot

Next ==
  \/ \E m \in Messages : Channel(m)
  \/ Worker
  \/ ProviderReturns
  \/ Process
  \/ Quiet

Spec == Init /\ [][Next]_vars

----------------------------------------------------------------------------
(* Properties: transcripts *)

\* Through failed inserts, cancelled turns, late timeouts and restarts, a
\* stored reply comes right after the message it answers (core.handle).
ReplyFollowsItsMessage == Conversation!ReplyFollowsItsMessage

\* No message is stored twice and none is answered twice (core.handle,
\* SqliteSessionManager.record_turn).
NoTurnTwice == Conversation!NoTurnTwice

\* A session in memory holds exactly the file's turns, after a failed INSERT
\* and after a restart (_record_last_turn: "memory and database must never
\* diverge").
MemoryMatchesStore == Store!MemoryMatchesStore

\* A client that was given a 200 finds both its message and the reply in the
\* file, whatever stops the process afterwards (core.handle, dev_http._handle).
AnsweredIsStored ==
  \A m \in Messages : client[m] = "ok" =>
    /\ Conversation!Holds(m, Conversation!UserTurn(m))
    /\ Conversation!Holds(m, Conversation!ReplyTurn(m))

\* The prompt of a message's model calls, assembled from its session before the
\* first of them (handle); the session is left alone until the reply is stored.
Prompt == Assembler!Assemble(memory[Session], facts)

\* Whatever failed before, the provider is asked about the message in hand: its
\* turn comes last, and fenced; what comes before it is the end of the stored
\* transcript, in order, no more than the window, and unfenced only where the
\* agent spoke itself (prompt_assembler.assemble over session.turns).
PromptEndsTheTranscript ==
  pc \in {"turn", "model"} =>
    LET shown == Prompt.messages
        cut   == Len(db[Session]) - Len(shown)
    IN  /\ shown[Len(shown)] = [turn |-> Conversation!UserTurn(current), fenced |-> TRUE]
        /\ \A i \in DOMAIN shown :
             /\ shown[i].turn = db[Session][cut + i]
             /\ shown[i].fenced <=> shown[i].turn.role = "user"
        /\ WindowTurns # Full => Len(shown) <= WindowTurns

Unmentioned ==
  {m \in facts : ~Conversation!Holds(m, Conversation!UserTurn(m)) /\ ~(current = m /\ pc = "command")}

\* A fact no transcript mentions is left only by a failed INSERT or a death of
\* the process between the two writes, one fact at most each time (handle: "its
\* command turn AND template confirmation enter the transcript").
FactsAreMentioned == Cardinality(Unmentioned) <= faults + stops

\* The core is a serial conversation: every step of it is a step of
\* SerialConversation or leaves the transcripts alone.
IsSerialConversation == Conversation!Spec

----------------------------------------------------------------------------
(* Properties: replies *)

\* A settled reply future is never settled again: a late answer does not
\* overwrite a timeout, nor an error an answer (`if not item.reply.done()`).
RepliesSettleOnce ==
  [][\A m \in Messages :
       reply[m] \in {"result", "exception", "cancelled"} => reply'[m] = reply[m]]_vars

\* A message the worker took or the queue holds is dealt with in the end, or
\* goes with its process: no exception, no answer of the provider and no run of
\* tool rounds holds the queue up for ever (core.run, MAX_TOOL_ROUNDS).
InHand(m) == current = m \/ \E i \in DOMAIN queue : queue[i] = m

EveryMessageIsHandled == \A m \in Messages : InHand(m) ~> ~InHand(m)

----------------------------------------------------------------------------
(* Properties: budget and audit *)

\* The core keeps the router's protocol: verdict, call, then charge, one call
\* at a time, also through failed records, cancellation and restart.
KeepsRouterProtocol == RouterCalls!Spec

\* onExceed=block: a session passes its ceiling by at most its last call.
OneCallOvershoot == Router!OneCallOvershoot

\* The router charges what the audit log says was spent, call by call ("Budgets
\* charge the AUDITED cost"), whatever the sink does.
ChargedIsAudited == spent = audited

\* onExceed=warn: a session is marked before any call made over budget, and only
\* over budget; a marked session has its one budget_warning record, unless the
\* sink raised on it (budget_verdict marks it while answering, so the warning is
\* not given again): each raise costs one session its warning at most.
WarnedOverBudget ==
  OnExceed = "warn" =>
    /\ Router!WarnedIsOverBudget
    /\ pc = "model" /\ Router!Exceeded(Session) => Session \in warned
    /\ \A s \in Sessions : warnings[s] = 0 \/ (warnings[s] = 1 /\ s \in warned)
    /\ Cardinality({s \in warned : warnings[s] = 0}) <= faults

InFlight(m) == current = m /\ pc \in {"model", "record"}

\* Model calls of m begun and not recorded, the one in flight apart.
Unrecorded(m) == begun[m] - recorded[m] - IF InFlight(m) THEN 1 ELSE 0

\* A provider call goes without its model_call record only where a sink raised
\* or the process was stopped; each of those loses one record at most, and no
\* message loses two, since none is called for again.
UnrecordedByFaultOnly ==
  /\ \A m \in Messages : Unrecorded(m) \in {0, 1}
  /\ Cardinality({m \in Messages : Unrecorded(m) = 1}) <= faults + stops

\* A provider call that is over has its model_call record (core.call_model:
\* "every call recorded").
EveryCallRecorded ==
  \A m \in Messages : begun[m] = recorded[m] + IF InFlight(m) THEN 1 ELSE 0

\* Tokens the provider spent for s in this process and s was not charged, those
\* of the answer about to be recorded apart.
Shortfall(s) ==
  used[s] - spent[s] -
    IF pc = "record" /\ got.kind # "error" /\ s = Session THEN Router!Total(got.usage) ELSE 0

\* Each completed call charges its session, also when its client is gone or its
\* turn ends without an answer, unless the sink raised on its record: each raise
\* leaves one session short of one call, and no session is charged for more than
\* it used (call_model, components/model_router.py).
EveryCompletedCallCharged ==
  /\ \A s \in Sessions : Shortfall(s) >= 0
  /\ Cardinality({s \in Sessions : Shortfall(s) > 0}) <= faults
  /\ \A most \in Router!CallTokens :
       (\A tokens \in Router!CallTokens : tokens <= most) =>
         \A s \in Sessions : Shortfall(s) <= faults * most

\* Once the client vanishes its turn is cancelled: no model call is begun for a
\* message whose client is gone (components/dev_http.py).
NoCallForTheGone ==
  [][\A m \in Messages : client[m] = "gone" => begun'[m] = begun[m]]_vars

=============================================================================
