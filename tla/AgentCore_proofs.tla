-------------------------- MODULE AgentCore_proofs --------------------------
(***************************************************************************)
(* AgentCore for any messages, sessions, budgets and bounds.               *)
(***************************************************************************)
EXTENDS AgentCore, FiniteSetTheorems, TLAPS

(***************************************************************************)
(* Helpers                                                                 *)
(***************************************************************************)

\* What a model call costs is a natural number (ModelPrice.cost).
LEMMA CostIsNat ==
  ASSUME NEW p, NEW u \in Usage
  PROVE  Router!Total(u) \in Nat /\ Router!CostOf(p, u) \in Nat
<1>1. u.in \in Nat /\ u.out \in Nat
  BY CoreAssumption DEF Router!RouterAssumption
<1>2. \A a, b \in Nat : a * b \in Nat
  OBVIOUS
<1>3. ASSUME p \in DOMAIN Price
      PROVE  Price[p].in \in Nat /\ Price[p].out \in Nat
  <2>1. PICK priced \in SUBSET Router!Providers : Price \in [priced -> [in : Nat, out : Nat]]
    BY CoreAssumption DEF Router!RouterAssumption
  <2>2. Price[p] \in [in : Nat, out : Nat]
    BY <1>3, <2>1
  <2> QED
    BY <2>2
<1>4. CASE p \in DOMAIN Price
  BY <1>1, <1>2, <1>3, <1>4 DEF Router!Total, Router!CostOf
<1>5. CASE p \notin DOMAIN Price
  BY <1>1, <1>5 DEF Router!Total, Router!CostOf
<1> QED
  BY <1>4, <1>5

\* The worker has a message in hand exactly between two of its queue reads.
LEMMA InHandIsMessage ==
  ASSUME TypeOK, pc \notin {"idle", "get", "stopped"}
  PROVE  current \in Messages /\ Session \in Sessions
BY CoreAssumption DEF TypeOK, Session

\* At most n elements.
Within(S, n) == IsFiniteSet(S) /\ Cardinality(S) <= n

LEMMA FewerStayWithin ==
  ASSUME NEW S, NEW T, NEW n \in Int, NEW k \in Int, Within(S, n), T \subseteq S, n <= k
  PROVE  Within(T, k)
<1>1. /\ IsFiniteSet(T) /\ Cardinality(T) <= Cardinality(S)
      /\ Cardinality(T) \in Nat /\ Cardinality(S) \in Nat
  BY FS_Subset, FS_CardinalityType DEF Within
<1> QED
  BY <1>1 DEF Within

LEMMA OneMoreStaysWithin ==
  ASSUME NEW S, NEW T, NEW x, NEW n \in Int, Within(S, n), T \subseteq S \cup {x}
  PROVE  Within(T, n + 1)
<1>1. /\ IsFiniteSet(S \cup {x}) /\ Cardinality(S \cup {x}) <= Cardinality(S) + 1
      /\ Cardinality(S) \in Nat /\ Cardinality(S \cup {x}) \in Nat
  BY FS_AddElement, FS_CardinalityType DEF Within
<1>2. Within(S \cup {x}, n + 1)
  BY <1>1 DEF Within
<1> QED
  BY <1>2, FewerStayWithin

(***************************************************************************)
(* Types                                                                   *)
(***************************************************************************)

\* The parts of TypeOK that the steps change together.
StoreType  == Store!TypeOK
RouterType == spent \in [Sessions -> Nat] /\ usd \in [Sessions -> Nat] /\ warned \subseteq Sessions
ChannelType ==
  /\ client \in [Messages -> {"new", "waiting", "ok", "error", "timeout",
                              "gone", "forbidden"}]
  /\ reply \in [Messages -> {"none", "pending", "result", "exception",
                             "cancelled"}]
WorkerType ==
  /\ pc \in Pcs
  /\ current \in Messages \cup {None}
  /\ (current = None) <=> pc \in {"idle", "get", "stopped"}
  /\ rounds \in 0 .. MaxToolRounds
  /\ todo \in 0 .. MaxCalls
  /\ got \in Answers \cup {NoReply}
AuditType ==
  /\ begun \in [Messages -> Nat]
  /\ recorded \in [Messages -> Nat]
  /\ used \in [Sessions -> Nat]
  /\ audited \in [Sessions -> Nat]
  /\ warnings \in [Sessions -> Nat]
OtherType ==
  /\ life \in {"up", "stopping", "down"}
  /\ queue \in Seq(Messages)
  /\ facts \subseteq Commands
BoundType == faults \in 0 .. MaxFaults /\ stops \in 0 .. MaxStops

\* What TypeOK needs to be inductive: the record is made of an
\* answer, and a tool round has calls left.
AnswerInHand == pc = "record" => got \in Answers
CallsInHand  == pc = "tools" => todo > 0

TypeInv == TypeOK /\ AnswerInHand /\ CallsInHand

LEMMA TypeParts ==
  TypeOK <=> /\ StoreType /\ RouterType /\ ChannelType /\ WorkerType /\ AuditType
             /\ OtherType /\ BoundType
BY DEF TypeOK, StoreType, RouterType, ChannelType, WorkerType, AuditType, OtherType,
       BoundType, Router!TypeOK

LEMMA TypePartsNext ==
  TypeOK' <=> /\ StoreType' /\ RouterType' /\ ChannelType' /\ WorkerType' /\ AuditType'
              /\ OtherType' /\ BoundType'
BY DEF TypeOK, StoreType, RouterType, ChannelType, WorkerType, AuditType, OtherType,
       BoundType, Router!TypeOK

LEMMA StoreTyped ==
  ASSUME TypeOK, NEW s \in Sessions, NEW t \in Conversation!Turns,
         Store!AddTurn(s, t) \/ Store!AddTurnFails(s, t) \/ UNCHANGED storeVars
  PROVE  StoreType'
<1>1. memory \in [Sessions -> Seq(Conversation!Turns) \cup {Absent}] /\ db \in [Sessions -> Seq(Conversation!Turns)]
  BY DEF TypeOK, Store!TypeOK
<1>2. Store!SessionFor(s) \in Seq(Conversation!Turns)
  BY <1>1 DEF Store!SessionFor
<1> DEFINE held == Store!SessionFor(s)
<1>3. Append(held, t) \in Seq(Conversation!Turns) /\ Append(db[s], t) \in Seq(Conversation!Turns)
  BY <1>1, <1>2
<1>4. CASE Store!AddTurn(s, t)
  BY <1>1, <1>3, <1>4 DEF Store!AddTurn, StoreType, Store!TypeOK
<1>5. CASE Store!AddTurnFails(s, t)
  BY <1>1, <1>2, <1>5 DEF Store!AddTurnFails, Store!RolledBack, StoreType, Store!TypeOK
<1>6. CASE UNCHANGED storeVars
  BY <1>1, <1>6 DEF storeVars, StoreType, Store!TypeOK
<1> QED
  BY <1>4, <1>5, <1>6

LEMMA BoundTyped ==
  ASSUME TypeOK, Returns \/ (\E kind \in {"sink", "db", "load", "command"} : Raises(kind))
  PROVE  BoundType'
BY CoreAssumption DEF TypeOK, BoundType, Returns, Raises, boundVars

LEMMA FailTurnTyped ==
  ASSUME TypeOK, pc \notin {"idle", "get", "stopped"}, FailTurn, client' = client
  PROVE  ChannelType' /\ WorkerType'
<1>1. ChannelType'
  BY InHandIsMessage DEF TypeOK, FailTurn, Settle, ChannelType
<1>2. WorkerType'
  BY CoreAssumption DEF FailTurn, EndTurn, WorkerType, Pcs
<1> QED
  BY <1>1, <1>2

LEMMA AnswerTyped ==
  ASSUME TypeOK, pc \notin {"idle", "get", "stopped"}, EndTurn, client' = client,
         Settle(current, "result") \/ Settle(current, "exception")
  PROVE  ChannelType' /\ WorkerType'
<1>1. ChannelType'
  BY InHandIsMessage DEF TypeOK, Settle, ChannelType
<1>2. WorkerType'
  BY CoreAssumption DEF EndTurn, WorkerType, Pcs
<1> QED
  BY <1>1, <1>2

LEMMA GotoTyped ==
  ASSUME TypeOK, pc \notin {"idle", "get", "stopped"},
         NEW label \in Pcs \ {"idle", "get", "stopped"}, Goto(label)
  PROVE  WorkerType'
BY DEF TypeOK, Goto, WorkerType

\* The parts of the state no step of the worker has reason to retype.
LEMMA Untouched ==
  ASSUME TypeOK
  PROVE  /\ UNCHANGED storeVars => StoreType'
         /\ UNCHANGED <<spent, usd, warned>> => RouterType'
         /\ UNCHANGED <<client, reply>> => ChannelType'
         /\ UNCHANGED auditVars => AuditType'
         /\ UNCHANGED <<life, queue, facts>> => OtherType'
         /\ UNCHANGED boundVars => BoundType'
<1> USE DEF TypeOK
<1>1. UNCHANGED storeVars => StoreType'
  BY DEF storeVars, StoreType, Store!TypeOK
<1>2. UNCHANGED <<spent, usd, warned>> => RouterType'
  BY DEF RouterType, Router!TypeOK
<1>3. UNCHANGED <<client, reply>> => ChannelType'
  BY DEF ChannelType
<1>4. UNCHANGED auditVars => AuditType'
  BY DEF auditVars, AuditType
<1>5. UNCHANGED <<life, queue, facts>> => OtherType'
  BY DEF OtherType
<1>6. UNCHANGED boundVars => BoundType'
  BY DEF boundVars, BoundType
<1> QED
  BY <1>1, <1>2, <1>3, <1>4, <1>5, <1>6

\* The channel's handlers touch the client, its future and the queue.
LEMMA ChannelTyped ==
  ASSUME TypeOK, NEW m \in Messages, Channel(m)
  PROVE  TypeOK'
<1> USE DEF routerVars, Channel
<1>1. WorkerType'
  BY DEF Post, Forbid, Respond, ReplyTimeout, Disconnect, Leave, workerVars, TypeOK,
         WorkerType
<1>2. ChannelType'
  BY DEF Post, Forbid, Respond, ReplyTimeout, Disconnect, Leave, TypeOK, ChannelType
<1>3. CASE Post(m)
  <2>1. Append(queue, m) \in Seq(Messages)
    BY DEF TypeOK
  <2>2. OtherType'
    BY <1>3, <2>1 DEF Post, TypeOK, OtherType
  <2> QED
    BY <1>1, <1>2, <1>3, <2>2, Untouched, TypePartsNext DEF Post
<1>4. CASE Forbid(m)
  BY <1>1, <1>2, <1>4, BoundTyped, Untouched, TypePartsNext DEF Forbid
<1>5. CASE Respond(m)
  BY <1>1, <1>2, <1>5, Untouched, TypePartsNext DEF Respond
<1>6. CASE ReplyTimeout(m) \/ Disconnect(m)
  BY <1>1, <1>2, <1>6, Untouched, TypePartsNext DEF ReplyTimeout, Disconnect, Leave
<1> QED
  BY <1>3, <1>4, <1>5, <1>6

\* A message is taken from the queue, loaded, or handed to the command surface.
LEMMA IntakeTyped ==
  ASSUME TypeOK, Dequeue \/ LoadFails \/ Command
  PROVE  TypeOK'
<1>1. CASE Dequeue
  <2>1. Head(queue) \in Messages /\ Tail(queue) \in Seq(Messages)
    BY <1>1 DEF Dequeue, TypeOK
  <2>2. WorkerType'
    BY <1>1, <2>1, CoreAssumption DEF Dequeue, TypeOK, WorkerType, Pcs
  <2>3. OtherType'
    BY <1>1, <2>1 DEF Dequeue, TypeOK, OtherType
  <2> QED
    BY <1>1, <2>2, <2>3, Untouched, TypePartsNext DEF Dequeue, routerVars
<1>2. CASE LoadFails
  BY <1>2, FailTurnTyped, BoundTyped, Untouched, TypePartsNext DEF LoadFails, routerVars
<1>3. CASE Command
  <2>1. WorkerType' /\ ChannelType'
    <3>1. CASE Goto("command") /\ UNCHANGED reply
      BY <1>3, <3>1, GotoTyped, Untouched DEF Command, Pcs
    <3>2. CASE FailTurn
      BY <1>3, <3>2, FailTurnTyped DEF Command
    <3> QED
      BY <1>3, <3>1, <3>2 DEF Command
  <2>2. OtherType'
    BY <1>3 DEF Command, TypeOK, OtherType
  <2>3. BoundType'
    BY <1>3, BoundTyped DEF Command
  <2> QED
    BY <1>3, <2>1, <2>2, <2>3, Untouched, TypePartsNext DEF Command, routerVars
<1> QED
  BY <1>1, <1>2, <1>3

\* A turn is stored: of the message, or of its answer.
LEMMA TurnTyped ==
  ASSUME TypeOK, Hear \/ Answer
  PROVE  TypeOK'
<1>1. pc \notin {"idle", "get", "stopped"}
  BY DEF Hear, Answer
<1>2. /\ Session \in Sessions
      /\ Conversation!UserTurn(current) \in Conversation!Turns
      /\ Conversation!ReplyTurn(current) \in Conversation!Turns
  BY <1>1, InHandIsMessage DEF Conversation!UserTurn, Conversation!ReplyTurn, Conversation!Turns
<1>3. CASE Hear
  <2>1. StoreType'
    BY <1>2, <1>3, StoreTyped DEF Hear, HearFails
  <2>2. WorkerType' /\ ChannelType'
    <3>1. CASE Goto(AfterHear) /\ UNCHANGED reply
      <4>1. AfterHear \in Pcs \ {"idle", "get", "stopped"}
        BY DEF AfterHear, Pcs
      <4> QED
        BY <1>1, <1>3, <3>1, <4>1, GotoTyped, Untouched DEF Hear
    <3>2. CASE FailTurn
      BY <1>1, <1>3, <3>2, FailTurnTyped DEF Hear
    <3> QED
      BY <1>3, <3>1, <3>2 DEF Hear, HearFails
  <2>3. BoundType'
    BY <1>3, BoundTyped DEF Hear, HearFails
  <2> QED
    BY <1>3, <2>1, <2>2, <2>3, Untouched, TypePartsNext DEF Hear, routerVars
<1>4. CASE Answer
  <2>1. StoreType'
    BY <1>2, <1>4, StoreTyped DEF Answer, AnswerFails
  <2>2. WorkerType' /\ ChannelType'
    BY <1>1, <1>4, AnswerTyped DEF Answer, AnswerFails
  <2>3. BoundType'
    BY <1>4, BoundTyped DEF Answer, AnswerFails
  <2> QED
    BY <1>4, <2>1, <2>2, <2>3, Untouched, TypePartsNext DEF Answer, routerVars
<1> QED
  BY <1>3, <1>4

LEMMA BeginCallTyped ==
  ASSUME TypeOK, pc = "turn", BeginCall, warnings' \in [Sessions -> Nat],
         UNCHANGED client
  PROVE  WorkerType' /\ AuditType' /\ ChannelType'
<1>1. current \in Messages
  BY InHandIsMessage
<1>2. begun' \in [Messages -> Nat] /\ UNCHANGED <<recorded, used, audited>>
  BY <1>1 DEF BeginCall, TypeOK
<1>3. AuditType'
  BY <1>2 DEF AuditType, TypeOK
<1>4. WorkerType'
  BY GotoTyped DEF BeginCall, Pcs
<1> QED
  BY <1>3, <1>4, Untouched DEF BeginCall

\* A verdict is asked for, and the call begun or the message failed.
LEMMA BudgetTyped ==
  ASSUME TypeOK, BudgetVerdict
  PROVE  TypeOK'
<1>1. pc = "turn" /\ Session \in Sessions /\ Router!Ask(Session)
  BY InHandIsMessage DEF BudgetVerdict, BudgetRefuses, BudgetAllows, BudgetWarns
<1>2. warned' \subseteq Sessions
  BY <1>1 DEF Router!Ask, TypeOK, Router!TypeOK
<1>3. UNCHANGED <<storeVars, spent, usd, life, client, queue, facts>>
  BY DEF BudgetVerdict, BudgetRefuses, BudgetAllows, BudgetWarns, BeginCall
<1>4. RouterType' /\ StoreType' /\ OtherType'
  BY <1>2, <1>3, Untouched DEF RouterType, TypeOK, Router!TypeOK
<1>5. BoundType'
  BY BoundTyped DEF BudgetVerdict, BudgetRefuses, BudgetAllows, BudgetWarns
<1>6. CASE FailTurn /\ UNCHANGED auditVars
  BY <1>1, <1>3, <1>4, <1>5, <1>6, FailTurnTyped, Untouched, TypePartsNext
<1>7. CASE BeginCall /\ warnings' \in [Sessions -> Nat]
  BY <1>1, <1>3, <1>4, <1>5, <1>7, BeginCallTyped, TypePartsNext
<1>8. warnings \in [Sessions -> Nat] /\ [warnings EXCEPT ![Session] = @ + 1] \in [Sessions -> Nat]
  BY <1>1 DEF TypeOK
<1> QED
  BY <1>6, <1>7, <1>8 DEF BudgetVerdict, BudgetRefuses, BudgetAllows, BudgetWarns

\* The provider answers or raises.
LEMMA ProviderTyped ==
  ASSUME TypeOK, ProviderReturns
  PROVE  TypeOK'
<1>1. pc = "model" /\ Session \in Sessions
  BY InHandIsMessage DEF ProviderReturns
<1>2. PICK answer \in Answers :
        /\ got' = answer
        /\ used' = IF answer.kind = "error" THEN used
                   ELSE [used EXCEPT ![Session] = @ + Router!Total(answer.usage)]
  BY DEF ProviderReturns
<1>3. Router!Total(answer.usage) \in Nat
  BY CostIsNat DEF Answers
<1>4. used' \in [Sessions -> Nat]
  BY <1>1, <1>2, <1>3 DEF TypeOK
<1>5. AuditType'
  BY <1>4 DEF ProviderReturns, AuditType, TypeOK
<1>6. WorkerType'
  BY <1>1, <1>2 DEF ProviderReturns, WorkerType, TypeOK, Pcs
<1> QED
  BY <1>5, <1>6, Untouched, TypePartsNext DEF ProviderReturns, routerVars

\* The call is recorded and charged, or its record is lost.
LEMMA RecordTyped ==
  ASSUME TypeOK, AnswerInHand, RecordCall \/ RecordError \/ RecordRaises
  PROVE  TypeOK'
<1>1. pc = "record" /\ current \in Messages /\ Session \in Sessions
  BY InHandIsMessage DEF RecordCall, RecordError, RecordRaises
<1>2. NoteCall => recorded' \in [Messages -> Nat]
  BY <1>1 DEF NoteCall, TypeOK
<1>3. CASE RecordCall
  <2>1. got \in Answers
    BY <1>1 DEF AnswerInHand
  <2> DEFINE p == Router!ProviderFor("message")
             u == got.usage
  <2>2. u \in Usage
    BY <2>1 DEF Answers
  <2>3. Router!Total(u) \in Nat /\ Router!CostOf(p, u) \in Nat
    BY <2>2, CostIsNat
  <2> HIDE DEF p, u
  <2>4. Router!Charge(Session, p, u) /\ warned' = warned
    BY <1>3 DEF RecordCall, p, u
  <2>5. RouterType'
    <3>1. spent' \in [Sessions -> Nat]
      BY <1>1, <2>3, <2>4 DEF Router!Charge, TypeOK, Router!TypeOK
    <3>2. usd' \in [Sessions -> Nat]
      BY <1>1, <2>3, <2>4 DEF Router!Charge, TypeOK, Router!TypeOK
    <3> QED
      BY <2>4, <3>1, <3>2 DEF RouterType, TypeOK, Router!TypeOK
  <2>6. audited' = [audited EXCEPT ![Session] = @ + Router!Total(u)]
    BY <1>3 DEF RecordCall, u
  <2>7. audited' \in [Sessions -> Nat]
    BY <1>1, <2>3, <2>6 DEF TypeOK
  <2>8. AuditType'
    BY <1>2, <1>3, <2>7 DEF RecordCall, AuditType, TypeOK
  <2>9. WorkerType'
    BY <1>1, <1>3, GotoTyped DEF RecordCall, Pcs
  <2> QED
    BY <1>3, <2>5, <2>8, <2>9, BoundTyped, Untouched, TypePartsNext DEF RecordCall
<1>4. CASE RecordError
  <2>1. AuditType'
    BY <1>2, <1>4 DEF RecordError, AuditType, TypeOK
  <2> QED
    BY <1>1, <1>4, <2>1, FailTurnTyped, BoundTyped, Untouched, TypePartsNext
    DEF RecordError, routerVars
<1>5. CASE RecordRaises
  BY <1>1, <1>5, FailTurnTyped, BoundTyped, Untouched, TypePartsNext
  DEF RecordRaises, routerVars
<1> QED
  BY <1>3, <1>4, <1>5

\* Tool rounds (_tool_round) and the tool calls in them.
LEMMA ToolsTyped ==
  ASSUME TypeOK, CallsInHand, BeginTools \/ Tool
  PROVE  TypeOK'
<1>1. pc \notin {"idle", "get", "stopped"} /\ current \in Messages
  BY InHandIsMessage DEF BeginTools, Tool, ToolReturns, ToolRaises
<1>2. CASE BeginTools
  <2>1. CASE FailTurn
    BY <1>1, <1>2, <2>1, FailTurnTyped, Untouched, TypePartsNext DEF BeginTools, routerVars
  <2>2. CASE /\ ~RoundsSpent
             /\ rounds' = rounds + 1
             /\ todo' \in 1 .. MaxCalls
             /\ pc' = "tools"
             /\ UNCHANGED <<current, got, reply>>
    <3>1. rounds' \in 0 .. MaxToolRounds
      BY <2>2, CoreAssumption DEF RoundsSpent, TypeOK
    <3>2. todo' \in 0 .. MaxCalls
      BY <2>2, CoreAssumption
    <3>3. WorkerType'
      BY <1>1, <2>2, <3>1, <3>2, CoreAssumption DEF WorkerType, TypeOK, Pcs
    <3> QED
      BY <1>2, <2>2, <3>3, Untouched, TypePartsNext DEF BeginTools, routerVars
  <2> QED
    BY <1>2, <2>1, <2>2 DEF BeginTools
<1>3. CASE ToolRaises
  BY <1>1, <1>3, FailTurnTyped, BoundTyped, Untouched, TypePartsNext DEF ToolRaises, routerVars
<1>4. CASE ToolReturns
  <2>1. todo' \in 0 .. MaxCalls
    BY <1>4, CoreAssumption DEF ToolReturns, CallsInHand, TypeOK
  <2>2. WorkerType'
    BY <1>1, <1>4, <2>1, CoreAssumption DEF ToolReturns, AskAgain, WorkerType, TypeOK, Pcs
  <2> QED
    BY <1>4, <2>2, BoundTyped, Untouched, TypePartsNext DEF ToolReturns, routerVars
<1> QED
  BY <1>2, <1>3, <1>4 DEF Tool

\* The process is stopped, wiped or booted.
LEMMA ProcessTyped ==
  ASSUME TypeOK, Process
  PROVE  TypeOK'
<1>1. ASSUME Wipe, stops' \in 0 .. MaxStops
      PROVE  TypeOK'
  <2>1. StoreType'
    BY <1>1 DEF Wipe, Store!Restart, Store!Cold, StoreType, TypeOK, Store!TypeOK
  <2>2. RouterType'
    BY <1>1 DEF Wipe, Router!Zero, RouterType
  <2>3. ChannelType'
    <3>1. \A m \in Messages :
            /\ (IF m \in Waiting THEN "gone" ELSE client[m])
                  \in {"new", "waiting", "ok", "error", "timeout", "gone", "forbidden"}
            /\ (IF reply[m] = "pending" THEN "cancelled" ELSE reply[m])
                  \in {"none", "pending", "result", "exception", "cancelled"}
      BY DEF TypeOK
    <3> QED
      BY <1>1, <3>1 DEF Wipe, ChannelType
  <2>4. WorkerType'
    BY <1>1, CoreAssumption DEF Wipe, WorkerType, Pcs
  <2>5. AuditType'
    BY <1>1 DEF Wipe, Router!Zero, AuditType, TypeOK
  <2>6. OtherType'
    BY <1>1 DEF Wipe, OtherType, TypeOK
  <2>7. BoundType'
    BY <1>1 DEF Wipe, BoundType, TypeOK
  <2> QED
    BY <2>1, <2>2, <2>3, <2>4, <2>5, <2>6, <2>7, TypePartsNext
<1>2. CASE Shutdown
  <2>1. WorkerType'
    BY <1>2, CoreAssumption DEF Shutdown, WorkerType, Pcs
  <2>2. OtherType'
    BY <1>2 DEF Shutdown, OtherType, TypeOK
  <2>3. BoundType'
    BY <1>2, CoreAssumption DEF Shutdown, BoundType, TypeOK
  <2> QED
    BY <1>2, <2>1, <2>2, <2>3, Untouched, TypePartsNext DEF Shutdown, routerVars
<1>3. CASE Exit
  BY <1>1, <1>3 DEF Exit, TypeOK
<1>4. CASE Crash
  <2>1. stops \in Nat /\ stops < MaxStops /\ stops' = stops + 1
    BY <1>4, CoreAssumption DEF Crash, TypeOK
  <2>2. stops' \in 0 .. MaxStops
    BY <2>1, CoreAssumption
  <2> QED
    BY <1>1, <1>4, <2>2 DEF Crash
<1>5. CASE Boot
  <2>1. WorkerType'
    BY <1>5 DEF Boot, workerVars, WorkerType, TypeOK
  <2>2. OtherType'
    BY <1>5 DEF Boot, OtherType, TypeOK
  <2> QED
    BY <1>5, <2>1, <2>2, Untouched, TypePartsNext DEF Boot, routerVars
<1> QED
  BY <1>2, <1>3, <1>4, <1>5 DEF Process

LEMMA InitTyped == Init => TypeInv
<1> SUFFICES ASSUME Init PROVE TypeInv
  OBVIOUS
<1>1. TypeOK
  BY CoreAssumption
  DEF Init, Store!Init, Store!Cold, Router!Init, Router!Zero, TypeOK, Store!TypeOK,
      Router!TypeOK, Pcs
<1> QED
  BY <1>1 DEF Init, TypeInv, AnswerInHand, CallsInHand

\* Only the provider's return leads to a record, and only a round with calls to
\* the tools.
LEMMA HandsKept ==
  ASSUME TypeInv, [Next]_vars
  PROVE  AnswerInHand' /\ CallsInHand'
<1> USE DEF AnswerInHand, CallsInHand, TypeInv
<1>1. ASSUME NEW m \in Messages, Channel(m)
      PROVE  AnswerInHand' /\ CallsInHand'
  BY <1>1 DEF Channel, Post, Forbid, Respond, ReplyTimeout, Disconnect, Leave, workerVars
<1>2. ASSUME FailTurn \/ EndTurn
      PROVE  AnswerInHand' /\ CallsInHand'
  BY <1>2 DEF FailTurn, EndTurn
<1>3. ASSUME NEW label \in {"command", "confirm", "turn", "model", "act"}, Goto(label)
      PROVE  AnswerInHand' /\ CallsInHand'
  BY <1>3 DEF Goto
<1>4. CASE Dequeue
  BY <1>4 DEF Dequeue
<1>5. CASE LoadFails \/ Command \/ Hear
  BY <1>2, <1>3, <1>5 DEF LoadFails, Command, Hear, HearFails, AfterHear
<1>6. CASE Model
  BY <1>2, <1>3, <1>6 DEF Model, BudgetVerdict, BudgetRefuses, BudgetAllows, BudgetWarns, BeginCall,
       RecordCall, RecordError, RecordRaises
<1>7. CASE BeginTools
  <2>1. CASE FailTurn
    BY <1>2, <2>1
  <2>2. CASE todo' \in 1 .. MaxCalls /\ pc' = "tools"
    BY <2>2, CoreAssumption
  <2> QED
    BY <1>7, <2>1, <2>2 DEF BeginTools
<1>8. CASE Answer
  BY <1>2, <1>8 DEF Answer
<1>9. CASE ToolRaises
  BY <1>2, <1>9 DEF ToolRaises
<1>10. CASE ToolReturns
  <2>1. todo \in Nat /\ todo > 0
    BY <1>10, CoreAssumption DEF ToolReturns, TypeOK
  <2> QED
    BY <1>10, <2>1 DEF ToolReturns, AskAgain
<1>11. CASE ProviderReturns
  BY <1>11 DEF ProviderReturns
<1>12. CASE Process
  BY <1>12 DEF Process, Shutdown, Exit, Crash, Wipe, Boot, workerVars
<1>13. CASE Quiet \/ UNCHANGED vars
  BY <1>13 DEF Quiet, vars, workerVars
<1> QED
  BY <1>1, <1>4, <1>5, <1>6, <1>7, <1>8, <1>9, <1>10, <1>11, <1>12, <1>13
  DEF Next, Worker, Turn, Tool

LEMMA NextTyped == TypeInv /\ [Next]_vars => TypeInv'
<1> SUFFICES ASSUME TypeInv, [Next]_vars PROVE TypeInv'
  OBVIOUS
<1>1. CASE UNCHANGED vars
  <2>1. WorkerType'
    BY <1>1 DEF vars, workerVars, TypeInv, TypeOK, WorkerType
  <2> QED
    BY <1>1, <2>1, HandsKept, Untouched, TypePartsNext DEF TypeInv, vars, routerVars
<1>2. CASE Next
  <2>1. TypeOK'
    BY <1>1, <1>2, ChannelTyped, IntakeTyped, TurnTyped, BudgetTyped, ProviderTyped,
       RecordTyped, ToolsTyped, ProcessTyped
    DEF Next, Worker, Turn, Model, Tool, Quiet, TypeInv
  <2> QED
    BY <2>1, HandsKept DEF TypeInv
<1> QED
  BY <1>1, <1>2

LEMMA AlwaysTyped == Spec => []TypeInv
BY InitTyped, NextTyped, PTL DEF Spec

\* The state of the process, its channel, store, router and audit history has
\* its type in every reachable state.
THEOREM TypeCorrect == Spec => []TypeOK
<1>1. TypeInv => TypeOK
  BY DEF TypeInv
<1> QED
  BY <1>1, AlwaysTyped, PTL

(***************************************************************************)
(* Replies                                                                 *)
(***************************************************************************)

\* A message that was not posted has no future yet.
NewHasNoFuture == \A m \in Messages : client[m] = "new" => reply[m] = "none"

\* What a step does to the future of message m, and whether m was posted.
Settles(m) ==
  /\ client'[m] = "new" => client[m] = "new" /\ reply'[m] = reply[m]
  /\ reply'[m] = reply[m] \/ reply[m] = "pending"
       \/ (client[m] = "new" /\ client'[m] # "new")

\* The worker settles no future but the pending one of its message.
LEMMA WorkerSettles ==
  ASSUME TypeInv, NEW how \in {"result", "exception"}, Settle(current, how),
         current \in Messages, client' = client, NewHasNoFuture
  PROVE  \A m \in Messages : Settles(m)
BY DEF Settle, Settles, TypeInv, TypeOK, NewHasNoFuture

LEMMA StepSettles ==
  ASSUME TypeInv, NewHasNoFuture, [Next]_vars
  PROVE  \A m \in Messages : Settles(m)
<1>1. ASSUME UNCHANGED <<client, reply>>
      PROVE  \A m \in Messages : Settles(m)
  BY <1>1 DEF Settles
<1>2. ASSUME FailTurn, pc \notin {"idle", "get", "stopped"}, client' = client
      PROVE  \A m \in Messages : Settles(m)
  BY <1>2, InHandIsMessage, WorkerSettles DEF FailTurn, TypeInv
<1>3. ASSUME NEW x \in Messages, Channel(x)
      PROVE  \A m \in Messages : Settles(m)
  BY <1>3 DEF Channel, Post, Forbid, Respond, ReplyTimeout, Disconnect, Leave,
       Settles, TypeInv, TypeOK
<1>4. CASE Dequeue \/ LoadFails \/ Command \/ Hear
  BY <1>1, <1>2, <1>4 DEF Dequeue, LoadFails, Command, Hear, HearFails
<1>5. CASE Model
  BY <1>1, <1>2, <1>5 DEF Model, BudgetVerdict, BudgetRefuses, BudgetAllows, BudgetWarns, BeginCall,
       RecordCall, RecordError, RecordRaises
<1>6. CASE BeginTools \/ Tool
  BY <1>1, <1>2, <1>6 DEF BeginTools, Tool, ToolReturns, ToolRaises
<1>7. CASE Answer
  BY <1>7, InHandIsMessage, WorkerSettles DEF Answer, AnswerFails, TypeInv
<1>8. CASE ProviderReturns \/ Shutdown \/ Boot \/ Quiet \/ UNCHANGED vars
  BY <1>1, <1>8 DEF ProviderReturns, Shutdown, Boot, Quiet, vars
<1>9. CASE Exit \/ Crash
  <2>1. /\ reply' = [m \in Messages |-> IF reply[m] = "pending" THEN "cancelled" ELSE reply[m]]
        /\ client' = [m \in Messages |-> IF m \in Waiting THEN "gone" ELSE client[m]]
    BY <1>9 DEF Exit, Crash, Wipe
  <2> QED
    BY <2>1 DEF Settles, NewHasNoFuture
<1> QED
  BY <1>3, <1>4, <1>5, <1>6, <1>7, <1>8, <1>9 DEF Next, Worker, Turn, Tool, Process

LEMMA AlwaysNoFuture == Spec => [](TypeInv /\ NewHasNoFuture)
<1>1. Init => TypeInv /\ NewHasNoFuture
  BY InitTyped DEF Init, NewHasNoFuture
<1>2. TypeInv /\ NewHasNoFuture /\ [Next]_vars => TypeInv' /\ NewHasNoFuture'
  BY NextTyped, StepSettles DEF NewHasNoFuture, Settles
<1> QED
  BY <1>1, <1>2, PTL DEF Spec

\* No settled reply future is settled again, whatever order the answer, the
\* timer, the disconnect and the process's end come in (`if not
\* item.reply.done()`).
THEOREM SettledOnce == Spec => RepliesSettleOnce
<1> DEFINE Kept == \A m \in Messages :
              reply[m] \in {"result", "exception", "cancelled"} => reply'[m] = reply[m]
<1>1. TypeInv /\ NewHasNoFuture /\ [Next]_vars => [Kept]_vars
  BY StepSettles DEF Settles, NewHasNoFuture
<1>2. Spec => [][Kept]_vars
  BY <1>1, AlwaysNoFuture, PTL DEF Spec
<1> QED
  BY <1>2 DEF RepliesSettleOnce

(***************************************************************************)
(* Charges                                                                 *)
(***************************************************************************)

\* A step charges and audits together, or neither.
LEMMA ChargeStep ==
  ASSUME TypeInv, ChargedIsAudited, [Next]_vars
  PROVE  ChargedIsAudited'
<1>1. ASSUME UNCHANGED <<spent, audited>>
      PROVE  ChargedIsAudited'
  BY <1>1 DEF ChargedIsAudited
<1>2. ASSUME NEW m \in Messages, Channel(m)
      PROVE  UNCHANGED <<spent, audited>>
  BY <1>2 DEF Channel, Post, Forbid, Respond, ReplyTimeout, Disconnect, Leave,
       routerVars, auditVars
<1>3. CASE Dequeue \/ LoadFails \/ Command \/ Hear \/ Answer
  BY <1>1, <1>3 DEF Dequeue, LoadFails, Command, Hear, Answer, routerVars, auditVars
<1>4. CASE BudgetVerdict \/ RecordError \/ RecordRaises
  BY <1>1, <1>4 DEF BudgetVerdict, BudgetRefuses, BudgetAllows, BudgetWarns, BeginCall, RecordError,
       RecordRaises, routerVars, auditVars
<1>5. CASE RecordCall
  <2>1. /\ audited' = [audited EXCEPT ![Session] = @ + Router!Total(got.usage)]
        /\ spent' = [spent EXCEPT ![Session] = @ + Router!Total(got.usage)]
    BY <1>5 DEF RecordCall, Router!Charge
  <2> QED
    BY <2>1 DEF ChargedIsAudited
<1>6. CASE BeginTools \/ Tool \/ ProviderReturns
  BY <1>1, <1>6 DEF BeginTools, Tool, ToolReturns, ToolRaises, ProviderReturns,
       routerVars, auditVars
<1>7. CASE Shutdown \/ Boot \/ Quiet \/ UNCHANGED vars
  BY <1>1, <1>7 DEF Shutdown, Boot, Quiet, vars, routerVars, auditVars
<1>8. CASE Exit \/ Crash
  BY <1>8 DEF Exit, Crash, Wipe, ChargedIsAudited
<1> QED
  BY <1>1, <1>2, <1>3, <1>4, <1>5, <1>6, <1>7, <1>8
  DEF Next, Worker, Turn, Model, Tool, Process

\* What a session is charged is what its model_call records say, call by call,
\* whatever the sink does ("Budgets charge the AUDITED cost").
THEOREM ChargesAreAudited == Spec => []ChargedIsAudited
<1>1. Init => ChargedIsAudited
  BY DEF Init, Router!Init, Router!Zero, ChargedIsAudited
<1> QED
  BY <1>1, ChargeStep, AlwaysTyped, PTL DEF Spec

(***************************************************************************)
(* Memory and file                                                         *)
(***************************************************************************)

LEMMA MemoryStep ==
  ASSUME TypeInv, MemoryMatchesStore, [Next]_vars
  PROVE  MemoryMatchesStore'
<1> USE DEF MemoryMatchesStore, Store!MemoryMatchesStore
<1>1. ASSUME UNCHANGED storeVars
      PROVE  MemoryMatchesStore'
  BY <1>1 DEF storeVars
<1>2. ASSUME NEW s \in Sessions, NEW t, Store!AddTurn(s, t) \/ Store!AddTurnFails(s, t)
      PROVE  MemoryMatchesStore'
  <2>1. /\ memory \in [Sessions -> Seq(Conversation!Turns) \cup {Absent}]
        /\ db \in [Sessions -> Seq(Conversation!Turns)]
    BY DEF TypeInv, TypeOK, Store!TypeOK
  <2>2. Store!SessionFor(s) = db[s]
    BY DEF Store!SessionFor
  <2>3. CASE Store!AddTurn(s, t)
    <3>1. /\ memory' = [memory EXCEPT ![s] = Append(db[s], t)]
          /\ db' = [db EXCEPT ![s] = Append(db[s], t)]
      BY <2>2, <2>3 DEF Store!AddTurn
    <3> QED
      BY <2>1, <3>1
  <2>4. CASE Store!AddTurnFails(s, t)
    BY <2>1, <2>2, <2>4 DEF Store!AddTurnFails, Store!RolledBack
  <2> QED
    BY <1>2, <2>3, <2>4
<1>3. ASSUME NEW m \in Messages, Channel(m)
      PROVE  MemoryMatchesStore'
  BY <1>1, <1>3 DEF Channel, Post, Forbid, Respond, ReplyTimeout, Disconnect, Leave
<1>4. CASE Dequeue \/ LoadFails \/ Command \/ Model \/ BeginTools \/ Tool \/ ProviderReturns
  BY <1>1, <1>4 DEF Dequeue, LoadFails, Command, Model, BudgetVerdict, BudgetRefuses, BudgetAllows,
       BudgetWarns, BeginCall, RecordCall, RecordError, RecordRaises, BeginTools, Tool,
       ToolReturns, ToolRaises, ProviderReturns
<1>5. CASE Hear \/ Answer
  <2>1. Session \in Sessions
    BY <1>5, InHandIsMessage DEF Hear, Answer, TypeInv
  <2>2. \E t : Store!AddTurn(Session, t) \/ Store!AddTurnFails(Session, t)
    BY <1>5 DEF Hear, HearFails, Answer, AnswerFails
  <2> QED
    BY <2>1, <2>2, <1>2
<1>6. CASE Shutdown \/ Boot \/ Quiet \/ UNCHANGED vars
  BY <1>1, <1>6 DEF Shutdown, Boot, Quiet, vars
<1>7. CASE Exit \/ Crash
  BY <1>7 DEF Exit, Crash, Wipe, Store!Restart, Store!Cold
<1> QED
  BY <1>3, <1>4, <1>5, <1>6, <1>7 DEF Next, Worker, Turn, Process

\* What a session holds in memory is what the file holds, after failed inserts
\* and after restarts (_record_last_turn's rollback).
THEOREM MemoryIsTheFile == Spec => []MemoryMatchesStore
<1>1. Init => MemoryMatchesStore
  BY DEF Init, Store!Init, Store!Cold, MemoryMatchesStore, Store!MemoryMatchesStore
<1> QED
  BY <1>1, MemoryStep, AlwaysTyped, PTL DEF Spec

(***************************************************************************)
(* Which messages are still to be heard                                    *)
(***************************************************************************)

Queued(m) == \E i \in DOMAIN queue : queue[i] = m

Taken(m) == current = m /\ pc \in {"begin", "command"}

Heard(m) == Conversation!Holds(m, Conversation!UserTurn(m))

\* A message is in one place of its way: not posted, queued once, or in hand.
OnePlace ==
  /\ \A i, j \in DOMAIN queue : queue[i] = queue[j] => i = j
  /\ \A m \in Messages : Queued(m) => current # m
  /\ \A m \in Messages : client[m] = "new" => ~Queued(m) /\ current # m

\* Up to the INSERT of its turn nothing of a message is in the file.
UnheardYet ==
  \A m \in Messages : client[m] = "new" \/ Queued(m) \/ Taken(m) => ~Heard(m)

\* The worker has taken a message from the queue at some time.
Left(m) == client[m] # "new" /\ ~Queued(m)

\* What a step may do to the places of messages, and to their turns.
Moves ==
  /\ OnePlace'
  /\ \A m \in Messages : Left(m) => Left(m)' /\ (current # m => current' # m)
  /\ \A m \in Messages :
       (client[m] = "new" \/ Queued(m) \/ Taken(m))' =>
          client[m] = "new" \/ Queued(m) \/ Taken(m)

\* The transcripts are left alone, or the worker stores the turn of the message
\* in hand, which is then beyond its begin.
Tells ==
  \/ UNCHANGED db
  \/ /\ current \in Messages
     /\ \E t \in {Conversation!UserTurn(current), Conversation!ReplyTurn(current)} :
          db' = [db EXCEPT ![Session] = Append(@, t)]
     /\ pc' \notin {"begin", "command"}
     /\ UNCHANGED <<client, queue>>

LEMMA StepTells ==
  ASSUME TypeInv, [Next]_vars
  PROVE  Tells
<1>1. ASSUME NEW m \in Messages, Channel(m)
      PROVE  Tells
  BY <1>1 DEF Channel, Post, Forbid, Respond, ReplyTimeout, Disconnect, Leave, storeVars,
       Tells
<1>2. CASE Dequeue \/ LoadFails \/ Command \/ Model \/ BeginTools \/ Tool \/ ProviderReturns
  BY <1>2 DEF Dequeue, LoadFails, Command, Model, BudgetVerdict, BudgetRefuses, BudgetAllows,
       BudgetWarns, BeginCall, RecordCall, RecordError, RecordRaises, BeginTools, Tool,
       ToolReturns, ToolRaises, ProviderReturns, storeVars, Tells
<1>3. CASE Hear
  <2>1. current \in Messages
    BY <1>3, InHandIsMessage DEF Hear, TypeInv
  <2> QED
    BY <1>3, <2>1 DEF Hear, HearFails, Goto, AfterHear, Store!AddTurn, Store!AddTurnFails, Tells
<1>4. CASE Answer
  <2>1. current \in Messages
    BY <1>4, InHandIsMessage DEF Answer, TypeInv
  <2> QED
    BY <1>4, <2>1 DEF Answer, AnswerFails, EndTurn, Store!AddTurn, Store!AddTurnFails, Tells
<1>5. CASE Process \/ Quiet \/ UNCHANGED vars
  BY <1>5 DEF Process, Shutdown, Boot, Exit, Crash, Wipe, Store!Restart, Quiet, vars,
       storeVars, Tells
<1> QED
  BY <1>1, <1>2, <1>3, <1>4, <1>5 DEF Next, Worker, Turn

LEMMA StepMoves ==
  ASSUME TypeInv, OnePlace, [Next]_vars
  PROVE  Moves
<1> USE DEF Moves, OnePlace, Queued, Left, Taken
<1>1. ASSUME UNCHANGED <<client, queue, current, pc>>
      PROVE  Moves
  BY <1>1
\* The worker goes on with the message in hand, or has none.
<1>2. ASSUME UNCHANGED <<client, queue>>,
             current' \in {current, None}, pc' \in {"begin", "command"} => Taken(current)
      PROVE  Moves
  BY <1>2, CoreAssumption
<1>3. ASSUME NEW m \in Messages, Channel(m)
      PROVE  Moves
  <2>1. CASE Post(m)
    <3>1. /\ queue' = Append(queue, m) /\ client[m] = "new"
          /\ client' = [client EXCEPT ![m] = "waiting"]
          /\ UNCHANGED <<pc, current>>
      BY <2>1 DEF Post, workerVars
    <3>2. /\ DOMAIN queue' = 1 .. Len(queue) + 1
          /\ DOMAIN queue = 1 .. Len(queue) /\ Len(queue) \in Nat
          /\ \A i \in DOMAIN queue : queue'[i] = queue[i]
          /\ queue'[Len(queue) + 1] = m
      BY <3>1 DEF TypeInv, TypeOK
    <3>3. \A x : Queued(x)' <=> Queued(x) \/ x = m
      BY <3>2
    <3>4. client'[m] = "waiting" /\ \A x \in Messages : x # m => client'[x] = client[x]
      BY <3>1 DEF TypeInv, TypeOK
    <3>5. \A i, j \in DOMAIN queue' : queue'[i] = queue'[j] => i = j
      BY <3>1, <3>2
    <3> QED
      BY <3>1, <3>3, <3>4, <3>5
  <2>2. CASE ~Post(m)
    <3>1. UNCHANGED <<queue, current, pc>>
      BY <1>3, <2>2 DEF Channel, Forbid, Respond, ReplyTimeout, Disconnect, Leave, workerVars
    <3>2. \A x \in Messages : client'[x] = "new" => client[x] = "new"
      BY <1>3, <2>2 DEF Channel, Forbid, Respond, ReplyTimeout, Disconnect, Leave, TypeInv, TypeOK
    <3> QED
      BY <3>1, <3>2
  <2> QED
    BY <2>1, <2>2
<1>4. CASE Dequeue
  <2>1. /\ queue \in Seq(Messages) /\ queue # <<>>
        /\ queue' = Tail(queue) /\ current' = Head(queue) /\ UNCHANGED client
    BY <1>4 DEF Dequeue, TypeInv, TypeOK
  <2>2. /\ DOMAIN queue' = 1 .. Len(queue) - 1
        /\ DOMAIN queue = 1 .. Len(queue) /\ Len(queue) \in Nat \ {0}
        /\ \A i \in DOMAIN queue' : queue'[i] = queue[i + 1]
        /\ current' = queue[1]
    BY <2>1
  <2>3. \A x : Queued(x)' => Queued(x) /\ current' # x
    BY <2>2
  <2>4. \A i, j \in DOMAIN queue' : queue'[i] = queue'[j] => i = j
    BY <2>2
  <2>5. Queued(current')
    BY <2>2
  <2> QED
    BY <2>1, <2>3, <2>4, <2>5
<1>5. CASE LoadFails \/ Command \/ Hear
  BY <1>2, <1>5 DEF LoadFails, Command, Hear, HearFails, FailTurn, EndTurn, Goto, AfterHear
<1>6. CASE Model
  BY <1>2, <1>6
  DEF Model, BudgetVerdict, BudgetRefuses, BudgetAllows, BudgetWarns, BeginCall, RecordCall,
       RecordError, RecordRaises, FailTurn, EndTurn, Goto
<1>7. CASE BeginTools \/ Tool \/ Answer \/ ProviderReturns
  BY <1>2, <1>7 DEF BeginTools, Tool, ToolReturns, ToolRaises, AskAgain, Answer,
       ProviderReturns, FailTurn, EndTurn
<1>8. CASE Shutdown
  BY <1>2, <1>8 DEF Shutdown
<1>9. CASE Exit \/ Crash
  <2>1. /\ queue' = <<>> /\ current' = None /\ pc' = "idle"
        /\ client' = [m \in Messages |-> IF m \in Waiting THEN "gone" ELSE client[m]]
    BY <1>9 DEF Exit, Crash, Wipe
  <2> QED
    BY <2>1, CoreAssumption
<1>10. CASE Boot \/ Quiet \/ UNCHANGED vars
  BY <1>1, <1>10 DEF Boot, Quiet, vars, workerVars
<1> QED
  BY <1>3, <1>4, <1>5, <1>6, <1>7, <1>8, <1>9, <1>10 DEF Next, Worker, Turn, Process


PlacesInv == OnePlace /\ UnheardYet

LEMMA PlacesStep ==
  ASSUME TypeInv, PlacesInv, [Next]_vars
  PROVE  PlacesInv'
<1>1. Moves /\ Tells
  BY StepMoves, StepTells DEF PlacesInv
<1>2. CASE UNCHANGED db
  BY <1>1, <1>2 DEF PlacesInv, Moves, UnheardYet, Heard, Conversation!Holds
<1>3. CASE ~UNCHANGED db
  <2>1. PICK t \in {Conversation!UserTurn(current), Conversation!ReplyTurn(current)} :
          db' = [db EXCEPT ![Session] = Append(@, t)]
    BY <1>1, <1>3 DEF Tells
  <2>2. current \in Messages /\ Session \in Sessions
    BY <1>1, <1>3, CoreAssumption DEF Tells, Session
  <2>3. ASSUME NEW m \in Messages, (client[m] = "new" \/ Queued(m) \/ Taken(m))'
        PROVE  ~Heard(m)'
    <3>1. ~Heard(m)
      BY <1>1, <2>3 DEF Moves, PlacesInv, UnheardYet
    <3>2. m # current
      <4>1. UNCHANGED <<client, queue>> /\ pc' \notin {"begin", "command"}
        BY <1>1, <1>3 DEF Tells
      <4> QED
        BY <2>2, <2>3, <4>1 DEF PlacesInv, OnePlace, Queued, Taken
    <3>3. t # Conversation!UserTurn(m)
      BY <2>1, <3>2 DEF Conversation!UserTurn, Conversation!ReplyTurn
    <3>4. /\ db \in [Sessions -> Seq(Conversation!Turns)]
          /\ SessionOf[m] \in Sessions
      BY CoreAssumption DEF TypeInv, TypeOK, Store!TypeOK
    <3> DEFINE d == db[SessionOf[m]]
    <3>5. d \in Seq(Conversation!Turns) /\ db'[SessionOf[m]] \in {d, Append(d, t)}
      BY <2>1, <2>2, <3>4
    <3>6. \A i \in DOMAIN d : d[i] # Conversation!UserTurn(m)
      BY <3>1 DEF Heard, Conversation!Holds
    <3> HIDE DEF d
    <3>7. \A i \in DOMAIN db'[SessionOf[m]] : db'[SessionOf[m]][i] # Conversation!UserTurn(m)
      BY <3>3, <3>5, <3>6
    <3> QED
      BY <3>7 DEF Heard, Conversation!Holds, Conversation!UserTurn
  <2> QED
    BY <1>1, <2>3 DEF PlacesInv, Moves, UnheardYet
<1> QED
  BY <1>2, <1>3

LEMMA AlwaysPlaced == Spec => [](TypeInv /\ PlacesInv)
<1>1. Init => PlacesInv
  BY CoreAssumption
  DEF Init, Store!Init, PlacesInv, OnePlace, UnheardYet, Queued, Taken, Heard,
      Conversation!Holds
<1>2. TypeInv /\ PlacesInv /\ [Next]_vars => TypeInv' /\ PlacesInv'
  BY NextTyped, PlacesStep
<1> QED
  BY <1>1, <1>2, InitTyped, PTL DEF Spec

(***************************************************************************)
(* The core is a serial conversation                                       *)
(***************************************************************************)

Open == {"confirm", "turn", "model", "record", "act", "tools"}

\* A step that stores nothing opens no exchange: the one that is open goes on,
\* or is abandoned.
LEMMA QuietStep ==
  ASSUME UNCHANGED db, OpenExchange' \in {OpenExchange, None}
  PROVE  [Conversation!Next]_(Conversation!vars)
BY DEF Conversation!Next, Conversation!Abandon, Conversation!vars

LEMMA ConversationStep ==
  ASSUME TypeInv, PlacesInv, [Next]_vars
  PROVE  [Conversation!Next]_(Conversation!vars)
<1> USE DEF OpenExchange
<1>1. ASSUME UNCHANGED db, UNCHANGED <<pc, current>> \/ pc' \notin Open
                             \/ (pc \in Open /\ UNCHANGED current)
      PROVE  [Conversation!Next]_(Conversation!vars)
  BY <1>1, QuietStep DEF Open
<1>2. ASSUME NEW m \in Messages, Channel(m)
      PROVE  [Conversation!Next]_(Conversation!vars)
  BY <1>1, <1>2 DEF Channel, Post, Forbid, Respond, ReplyTimeout, Disconnect, Leave,
       storeVars, workerVars
<1>3. CASE Dequeue \/ LoadFails \/ Command
  BY <1>1, <1>3 DEF Dequeue, LoadFails, Command, FailTurn, EndTurn, Goto, storeVars, Open
<1>4. CASE Model \/ ProviderReturns
  BY <1>1, <1>4
  DEF Model, BudgetVerdict, BudgetRefuses, BudgetAllows, BudgetWarns, BeginCall, RecordCall,
       RecordError, RecordRaises, ProviderReturns, FailTurn, EndTurn, Goto, storeVars, Open
<1>5. CASE BeginTools \/ Tool
  BY <1>1, <1>5 DEF BeginTools, Tool, ToolReturns, ToolRaises, FailTurn, EndTurn,
       storeVars, Open
<1>6. CASE Hear
  <2>1. current \in Messages /\ pc \in {"begin", "command"}
    BY <1>6, InHandIsMessage DEF Hear, TypeInv
  <2>2. CASE HearFails
    BY <1>1, <2>2 DEF HearFails, Store!AddTurnFails, FailTurn, EndTurn, Open
  <2>3. CASE Store!AddTurn(Session, Conversation!UserTurn(current)) /\ Goto(AfterHear)
    <3>1. ~Conversation!Holds(current, Conversation!UserTurn(current))
      BY <2>1 DEF PlacesInv, UnheardYet, Taken, Heard
    <3>2. OpenExchange = None /\ OpenExchange' = current
      BY <2>1, <2>3 DEF Goto, AfterHear
    <3>3. Conversation!Store(current, Conversation!UserTurn(current))
      BY <2>3 DEF Store!AddTurn, Conversation!Store, Session
    <3>4. Conversation!Hear(current)
      BY <3>1, <3>2, <3>3 DEF Conversation!Hear
    <3> QED
      BY <2>1, <3>4 DEF Conversation!Next
  <2> QED
    BY <1>6, <2>2, <2>3 DEF Hear
<1>7. CASE Answer
  <2>1. current \in Messages /\ OpenExchange = current /\ current # None
    BY <1>7, InHandIsMessage, CoreAssumption DEF Answer, TypeInv
  <2>2. OpenExchange' = None
    BY <1>7 DEF Answer, EndTurn
  <2>3. CASE AnswerFails
    BY <2>2, <2>3, QuietStep DEF AnswerFails, Store!AddTurnFails
  <2>4. CASE Store!AddTurn(Session, Conversation!ReplyTurn(current))
    <3>1. Conversation!Store(OpenExchange, Conversation!ReplyTurn(OpenExchange))
      BY <2>1, <2>4 DEF Store!AddTurn, Conversation!Store, Session
    <3> QED
      BY <2>1, <2>2, <3>1 DEF Conversation!Reply, Conversation!Next
  <2> QED
    BY <1>7, <2>3, <2>4 DEF Answer
<1>8. CASE Process \/ Quiet \/ UNCHANGED vars
  BY <1>1, <1>8 DEF Process, Shutdown, Boot, Exit, Crash, Wipe, Store!Restart, Quiet, vars,
       storeVars, workerVars, Open
<1> QED
  BY <1>2, <1>3, <1>4, <1>5, <1>6, <1>7, <1>8 DEF Next, Worker, Turn

\* The core implements a serial conversation: it hears no message twice, has
\* one exchange open at a time, and replies to that one only.
THEOREM CoreIsSerial == Spec => IsSerialConversation
<1>1. Init => Conversation!Init
  BY DEF Init, Store!Init, Conversation!Init, OpenExchange
<1> QED
  BY <1>1, ConversationStep, AlwaysPlaced, PTL
  DEF Spec, IsSerialConversation, Conversation!Spec

(***************************************************************************)
(* What a serial conversation promises of its transcripts                  *)
(***************************************************************************)

\* The open exchange is the last thing its session heard.
OpenIsLast ==
  OpenExchange # None =>
    LET d == db[SessionOf[OpenExchange]] IN
      Len(d) > 0 /\ d[Len(d)] = Conversation!UserTurn(OpenExchange)

\* The promises for one transcript d.
Follows(d) ==
  \A i \in DOMAIN d :
    d[i].role = "assistant" => i > 1 /\ d[i - 1] = Conversation!UserTurn(d[i].msg)

Unrepeated(d) == \A i, j \in DOMAIN d : d[i] = d[j] => i = j

Told(d) == Follows(d) /\ Unrepeated(d)

LEMMA HearKeepsTold ==
  ASSUME NEW d \in Seq(Conversation!Turns), NEW m \in Messages, Told(d),
         \A i \in DOMAIN d : d[i] # Conversation!UserTurn(m)
  PROVE  Told(Append(d, Conversation!UserTurn(m)))
<1> DEFINE t == Conversation!UserTurn(m)
           e == Append(d, t)
<1>1. t \in Conversation!Turns /\ t.role = "user"
  BY DEF Conversation!UserTurn, Conversation!Turns
<1> HIDE DEF t
<1>2. /\ DOMAIN e = 1 .. Len(d) + 1 /\ DOMAIN d = 1 .. Len(d) /\ Len(d) \in Nat
      /\ \A i \in DOMAIN d : e[i] = d[i]
      /\ e[Len(d) + 1] = t
  BY <1>1
<1>3. \A i \in DOMAIN d : d[i] # t
  BY DEF t
<1> HIDE DEF e
<1>4. Follows(e)
  BY <1>1, <1>2 DEF Told, Follows
<1>5. Unrepeated(e)
  BY <1>2, <1>3 DEF Told, Unrepeated
<1> QED
  BY <1>4, <1>5 DEF Told, e, t

LEMMA ReplyKeepsTold ==
  ASSUME NEW d \in Seq(Conversation!Turns), NEW m \in Messages, Told(d),
         Len(d) > 0, d[Len(d)] = Conversation!UserTurn(m)
  PROVE  Told(Append(d, Conversation!ReplyTurn(m)))
<1> DEFINE t == Conversation!ReplyTurn(m)
           e == Append(d, t)
<1>1. t \in Conversation!Turns /\ t.role = "assistant" /\ t.msg = m
  BY DEF Conversation!ReplyTurn, Conversation!Turns
<1> HIDE DEF t
<1>2. /\ DOMAIN e = 1 .. Len(d) + 1 /\ DOMAIN d = 1 .. Len(d) /\ Len(d) \in Nat
      /\ \A i \in DOMAIN d : e[i] = d[i]
      /\ e[Len(d) + 1] = t
  BY <1>1
\* An earlier reply to m would follow an earlier turn of m.
<1>3. \A i \in DOMAIN d : d[i] # t
  BY <1>1, <1>2 DEF Told, Follows, Unrepeated
<1> HIDE DEF e
<1>4. Follows(e)
  BY <1>1, <1>2 DEF Told, Follows
<1>5. Unrepeated(e)
  BY <1>2, <1>3 DEF Told, Unrepeated
<1> QED
  BY <1>4, <1>5 DEF Told, e, t

TellingInv == OpenIsLast /\ \A s \in Sessions : Told(db[s])

LEMMA TellingStep ==
  ASSUME db \in [Sessions -> Seq(Conversation!Turns)], TellingInv,
         OpenExchange \in Messages \cup {None},
         [Conversation!Next]_(Conversation!vars)
  PROVE  TellingInv'
<1>1. CASE UNCHANGED <<db, OpenExchange>>
  BY <1>1 DEF TellingInv, OpenIsLast
<1>2. CASE Conversation!Abandon
  BY <1>2 DEF Conversation!Abandon, TellingInv, OpenIsLast
<1>3. ASSUME NEW m \in Messages, Conversation!Hear(m)
      PROVE  TellingInv'
  <2> DEFINE d == db[SessionOf[m]]
             t == Conversation!UserTurn(m)
  <2>1. SessionOf[m] \in Sessions /\ d \in Seq(Conversation!Turns)
    BY CoreAssumption
  <2>2. t \in Conversation!Turns
    BY DEF Conversation!UserTurn, Conversation!Turns
  <2>3. /\ db' = [db EXCEPT ![SessionOf[m]] = Append(d, t)]
        /\ OpenExchange' = m
    BY <1>3 DEF Conversation!Hear, Conversation!Store
  <2>4. Told(Append(d, t))
    <3>1. \A i \in DOMAIN d : d[i] # t
      BY <1>3 DEF Conversation!Hear, Conversation!Holds
    <3> QED
      BY <2>1, <3>1, HearKeepsTold DEF TellingInv
  <2>5. \A s \in Sessions : Told(db'[s])
    BY <2>1, <2>3, <2>4 DEF TellingInv
  <2>6. db'[SessionOf[m]] = Append(d, t)
    BY <2>1, <2>3
  <2>7. Len(Append(d, t)) > 0 /\ Append(d, t)[Len(Append(d, t))] = t
    BY <2>1, <2>2
  <2>8. OpenIsLast'
    BY <2>3, <2>6, <2>7 DEF OpenIsLast, Conversation!UserTurn
  <2> QED
    BY <2>5, <2>8 DEF TellingInv, Told, Follows, Unrepeated, Conversation!UserTurn
<1>4. CASE Conversation!Reply
  <2> DEFINE m == OpenExchange
             d == db[SessionOf[m]]
             t == Conversation!ReplyTurn(m)
  <2>1. m \in Messages /\ m # None
    BY <1>4 DEF Conversation!Reply
  <2>2. SessionOf[m] \in Sessions /\ d \in Seq(Conversation!Turns)
    BY <2>1, CoreAssumption
  <2>3. /\ db' = [db EXCEPT ![SessionOf[m]] = Append(d, t)]
        /\ OpenExchange' = None
    BY <1>4 DEF Conversation!Reply, Conversation!Store
  <2>4. Told(Append(d, t))
    BY <2>1, <2>2, ReplyKeepsTold DEF TellingInv, OpenIsLast
  <2>5. \A s \in Sessions : Told(db'[s])
    BY <2>2, <2>3, <2>4 DEF TellingInv
  <2> QED
    BY <2>3, <2>5 DEF TellingInv, OpenIsLast, Told, Follows, Unrepeated, Conversation!UserTurn
<1> QED
  BY <1>1, <1>2, <1>3, <1>4 DEF Conversation!Next, Conversation!vars

TranscriptInv == TypeInv /\ PlacesInv /\ TellingInv

LEMMA AlwaysTelling == Spec => []TranscriptInv
<1>1. Init => TellingInv
  BY DEF Init, Store!Init, TellingInv, OpenIsLast, OpenExchange, Told, Follows, Unrepeated
<1>2. ASSUME TypeInv, PlacesInv, TellingInv, [Next]_vars
      PROVE  TellingInv'
  <2>1. db \in [Sessions -> Seq(Conversation!Turns)]
    BY <1>2 DEF TypeInv, TypeOK, Store!TypeOK
  <2>2. OpenExchange \in Messages \cup {None}
    BY <1>2 DEF OpenExchange, TypeInv, TypeOK
  <2> QED
    BY <1>2, <2>1, <2>2, ConversationStep, TellingStep
<1> QED
  BY <1>1, <1>2, AlwaysPlaced, PTL DEF Spec, TranscriptInv

\* In every file a reply comes right after the message it answers, whatever
\* failed, timed out or was restarted before it.
THEOREM RepliesFollow == Spec => []ReplyFollowsItsMessage
<1>1. TranscriptInv => ReplyFollowsItsMessage
  BY DEF TranscriptInv, TellingInv, Told, Follows, ReplyFollowsItsMessage,
         Conversation!ReplyFollowsItsMessage
<1> QED
  BY <1>1, AlwaysTelling, PTL

\* No message is stored twice and none is answered twice.
THEOREM TurnsAreUnique == Spec => []NoTurnTwice
<1>1. TranscriptInv => NoTurnTwice
  BY DEF TranscriptInv, TellingInv, Told, Unrepeated, NoTurnTwice, Conversation!NoTurnTwice
<1> QED
  BY <1>1, AlwaysTelling, PTL

(***************************************************************************)
(* Answered means stored                                                   *)
(***************************************************************************)

Stored(m) ==
  /\ Conversation!Holds(m, Conversation!UserTurn(m))
  /\ Conversation!Holds(m, Conversation!ReplyTurn(m))

StoredInv == \A m \in Messages : reply[m] = "result" \/ client[m] = "ok" => Stored(m)

\* A file only grows.
LEMMA HeldIsKept ==
  ASSUME TypeInv, [Next]_vars, NEW m \in Messages, NEW t, Conversation!Holds(m, t)
  PROVE  \E i \in DOMAIN db'[SessionOf[m]] : db'[SessionOf[m]][i] = t
<1> DEFINE d == db[SessionOf[m]]
<1>1. db \in [Sessions -> Seq(Conversation!Turns)] /\ SessionOf[m] \in Sessions
  BY CoreAssumption DEF TypeInv, TypeOK, Store!TypeOK
<1>2. d \in Seq(Conversation!Turns)
  BY <1>1
<1>3. PICK i \in DOMAIN d : d[i] = t
  BY DEF Conversation!Holds
<1>4. db'[SessionOf[m]] = d \/ \E u \in Conversation!Turns : db'[SessionOf[m]] = Append(d, u)
  <2>1. Tells
    BY StepTells
  <2>2. \A x \in Messages : {Conversation!UserTurn(x), Conversation!ReplyTurn(x)}
                               \subseteq Conversation!Turns
    BY DEF Conversation!UserTurn, Conversation!ReplyTurn, Conversation!Turns
  <2> QED
    BY <1>1, <2>1, <2>2, CoreAssumption DEF Tells, Session
<1> HIDE DEF d
<1>5. i \in DOMAIN db'[SessionOf[m]] /\ db'[SessionOf[m]][i] = t
  BY <1>2, <1>3, <1>4
<1> QED
  BY <1>5

LEMMA StoredIsKept ==
  ASSUME TypeInv, [Next]_vars, NEW m \in Messages, Stored(m)
  PROVE  Stored(m)'
<1>1. \A t : Conversation!Holds(m, t) => \E i \in DOMAIN db'[SessionOf[m]] : db'[SessionOf[m]][i] = t
  BY HeldIsKept
<1> QED
  BY <1>1 DEF Stored, Conversation!Holds, Conversation!UserTurn, Conversation!ReplyTurn

\* Only a stored answer settles a future with a result, and only a settled
\* future makes a 200.
LEMMA ResultIsAnswer ==
  ASSUME TypeInv, [Next]_vars, NEW m \in Messages, reply'[m] = "result" \/ client'[m] = "ok"
  PROVE  \/ reply[m] = "result" \/ client[m] = "ok"
         \/ Answer /\ current = m /\ Store!AddTurn(Session, Conversation!ReplyTurn(current))
<1> USE DEF TypeInv, TypeOK
<1>1. ASSUME NEW x \in Messages, Channel(x)
      PROVE  reply[m] = "result" \/ client[m] = "ok"
  BY <1>1 DEF Channel, Post, Forbid, Respond, ReplyTimeout, Disconnect, Leave
<1>2. ASSUME UNCHANGED <<client, reply>> \/ (UNCHANGED client /\ Settle(current, "exception"))
      PROVE  reply[m] = "result" \/ client[m] = "ok"
  BY <1>2 DEF Settle
<1>3. CASE Dequeue \/ LoadFails \/ Command \/ Hear
  BY <1>2, <1>3 DEF Dequeue, LoadFails, Command, Hear, HearFails, FailTurn
<1>4. CASE Model \/ ProviderReturns
  BY <1>2, <1>4
  DEF Model, BudgetVerdict, BudgetRefuses, BudgetAllows, BudgetWarns, BeginCall, RecordCall,
       RecordError, RecordRaises, ProviderReturns, FailTurn
<1>5. CASE BeginTools \/ Tool
  BY <1>2, <1>5 DEF BeginTools, Tool, ToolReturns, ToolRaises, FailTurn
<1>6. CASE Answer
  <2>1. CASE AnswerFails
    BY <1>2, <1>6, <2>1 DEF Answer, AnswerFails
  <2>2. CASE Store!AddTurn(Session, Conversation!ReplyTurn(current)) /\ Settle(current, "result")
    BY <1>6, <2>2 DEF Answer, Settle
  <2> QED
    BY <1>6, <2>1, <2>2 DEF Answer
<1>7. CASE Exit \/ Crash
  <2>1. /\ reply' = [x \in Messages |-> IF reply[x] = "pending" THEN "cancelled" ELSE reply[x]]
        /\ client' = [x \in Messages |-> IF x \in Waiting THEN "gone" ELSE client[x]]
    BY <1>7 DEF Exit, Crash, Wipe
  <2> QED
    BY <2>1
<1>8. CASE Shutdown \/ Boot \/ Quiet \/ UNCHANGED vars
  BY <1>2, <1>8 DEF Shutdown, Boot, Quiet, vars
<1> QED
  BY <1>1, <1>3, <1>4, <1>5, <1>6, <1>7, <1>8 DEF Next, Worker, Turn, Process

LEMMA StoredStep ==
  ASSUME TranscriptInv, StoredInv, [Next]_vars
  PROVE  StoredInv'
<1> SUFFICES ASSUME NEW m \in Messages, reply'[m] = "result" \/ client'[m] = "ok"
             PROVE  Stored(m)'
  BY DEF StoredInv, Stored, Conversation!Holds, Conversation!UserTurn, Conversation!ReplyTurn
<1>1. TypeInv
  BY DEF TranscriptInv
<1>2. CASE reply[m] = "result" \/ client[m] = "ok"
  BY <1>1, <1>2, StoredIsKept DEF StoredInv
<1>3. CASE Answer /\ current = m /\ Store!AddTurn(Session, Conversation!ReplyTurn(current))
  <2> DEFINE d == db[SessionOf[m]]
             t == Conversation!ReplyTurn(m)
  <2>1. db \in [Sessions -> Seq(Conversation!Turns)] /\ SessionOf[m] \in Sessions
    BY <1>1, CoreAssumption DEF TypeInv, TypeOK, Store!TypeOK
  <2>2. d \in Seq(Conversation!Turns) /\ t \in Conversation!Turns
    BY <2>1 DEF Conversation!ReplyTurn, Conversation!Turns
  <2>3. db'[SessionOf[m]] = Append(d, t)
    BY <1>3, <2>1 DEF Store!AddTurn, Session
  <2>4. OpenExchange = m /\ m # None
    BY <1>3, CoreAssumption DEF Answer, OpenExchange
  <2>5. Len(d) > 0 /\ d[Len(d)] = Conversation!UserTurn(m)
    BY <2>4 DEF TranscriptInv, TellingInv, OpenIsLast
  <2>6. /\ Len(d) \in DOMAIN Append(d, t) /\ Append(d, t)[Len(d)] = Conversation!UserTurn(m)
        /\ Len(d) + 1 \in DOMAIN Append(d, t) /\ Append(d, t)[Len(d) + 1] = t
    BY <2>2, <2>5
  <2> QED
    BY <2>3, <2>6 DEF Stored, Conversation!Holds, Conversation!UserTurn, Conversation!ReplyTurn
<1> QED
  BY <1>1, <1>2, <1>3, ResultIsAnswer

\* A client that was given a 200 finds its message and the reply in the file.
THEOREM AnsweredMeansStored == Spec => []AnsweredIsStored
<1>1. Init => StoredInv
  BY DEF Init, StoredInv
<1>2. StoredInv => AnsweredIsStored
  BY DEF StoredInv, Stored, AnsweredIsStored
<1> QED
  BY <1>1, <1>2, StoredStep, AlwaysTelling, PTL DEF Spec

(***************************************************************************)
(* The budget: the core calls the router in the router's own order, so     *)
(* what the router promises of a session's spending holds in the core.     *)
(***************************************************************************)

\* The call in flight, as RouterCalls names it.
CallInFlight ==
  IF pc \in {"model", "record"}
  THEN [session |-> SessionOf[current], provider |-> Router!ProviderFor("message")]
  ELSE None

\* The router's theorems, about the core's counters and its call in flight.
Proven == INSTANCE ModelRouter_proofs WITH inflight <- CallInFlight

LEMMA NoneIsNoCall ==
  ASSUME NEW s \in Sessions
  PROVE  [session |-> s, provider |-> Router!ProviderFor("message")] # None
BY CoreAssumption DEF Router!RouterAssumption, Router!Call, Router!Providers, Router!ProviderFor

\* A step that charges nothing goes on with its call, or drops it.
LEMMA UnchargedStep ==
  ASSUME TypeInv, UNCHANGED routerVars, CallInFlight' \in {CallInFlight, None}
  PROVE  [Proven!Next]_(Proven!vars)
BY DEF Proven!Next, Proven!Uncharged, Proven!vars, routerVars

LEMMA RouterStep ==
  ASSUME TypeInv, [Next]_vars
  PROVE  [Proven!Next]_(Proven!vars)
<1> USE DEF CallInFlight
<1>1. ASSUME UNCHANGED routerVars, UNCHANGED <<pc, current>> \/ pc' \notin {"model", "record"}
      PROVE  [Proven!Next]_(Proven!vars)
  BY <1>1, UnchargedStep
<1>2. ASSUME NEW m \in Messages, Channel(m)
      PROVE  [Proven!Next]_(Proven!vars)
  BY <1>1, <1>2 DEF Channel, Post, Forbid, Respond, ReplyTimeout, Disconnect, Leave, workerVars
<1>3. CASE Dequeue \/ LoadFails \/ Command \/ Hear \/ Answer
  BY <1>1, <1>3 DEF Dequeue, LoadFails, Command, Hear, HearFails, Answer, FailTurn, EndTurn,
       Goto, AfterHear
<1>4. CASE BeginTools \/ Tool
  BY <1>1, <1>4 DEF BeginTools, Tool, ToolReturns, ToolRaises, AskAgain, FailTurn, EndTurn
<1>5. CASE RecordError \/ RecordRaises
  BY <1>1, <1>5 DEF RecordError, RecordRaises, FailTurn, EndTurn
<1>6. CASE ProviderReturns
  BY <1>6, UnchargedStep DEF ProviderReturns
<1>7. CASE BudgetVerdict
  <2>1. pc = "turn" /\ Session \in Sessions /\ CallInFlight = None
    BY <1>7, InHandIsMessage DEF BudgetVerdict, BudgetRefuses, BudgetAllows, BudgetWarns, TypeInv
  <2>2. Proven!Ask(Session) /\ UNCHANGED <<spent, usd>>
    BY <1>7
    DEF BudgetVerdict, BudgetRefuses, BudgetAllows, BudgetWarns, BeginCall, Router!Ask, Proven!Ask,
       Router!Verdict, Proven!Verdict, Router!Exceeded, Proven!Exceeded, Router!AtCap,
       Proven!AtCap
  <2>3. CASE BeginCall /\ Router!Verdict(Session) \in {"ok", "warn"}
    <3>1. CallInFlight' = [session  |-> Session,
                           provider |-> Proven!ProviderFor("message")]
      BY <2>3 DEF BeginCall, Goto, Session, Router!ProviderFor, Proven!ProviderFor
    <3>2. Proven!Verdict(Session) \in {"ok", "warn"}
      BY <2>3 DEF Router!Verdict, Proven!Verdict, Router!Exceeded, Proven!Exceeded,
         Router!AtCap, Proven!AtCap
    <3>3. Proven!Allow(Session, "message")
      BY <2>1, <2>2, <3>1, <3>2 DEF Proven!Allow
    <3> QED
      BY <2>1, <3>3 DEF Proven!Next, Proven!Kinds
  <2>4. CASE FailTurn /\ Router!Verdict(Session) \in {"refuse", "warn"}
    <3>1. CallInFlight' = None
      BY <2>4 DEF FailTurn, EndTurn
    <3>2. Proven!Verdict(Session) \in {"refuse", "warn"}
      BY <2>4 DEF Router!Verdict, Proven!Verdict, Router!Exceeded, Proven!Exceeded,
         Router!AtCap, Proven!AtCap
    <3>3. Proven!Refuse(Session)
      BY <2>1, <2>2, <3>1, <3>2 DEF Proven!Refuse
    <3> QED
      BY <2>1, <3>3 DEF Proven!Next
  <2> QED
    BY <1>7, <2>3, <2>4 DEF BudgetVerdict, BudgetRefuses, BudgetAllows, BudgetWarns
<1>8. CASE RecordCall
  <2>1. pc = "record" /\ Session \in Sessions /\ got.usage \in Usage
    BY <1>8, InHandIsMessage DEF RecordCall, TypeInv, AnswerInHand, Answers
  <2>2. /\ CallInFlight = [session  |-> Session, provider |-> Router!ProviderFor("message")]
        /\ CallInFlight # None
    BY <2>1, NoneIsNoCall DEF Session
  <2>3. CallInFlight' = None /\ warned' = warned
    BY <1>8 DEF RecordCall, Goto
  <2>4. Router!Charge(Session, Router!ProviderFor("message"), got.usage)
    BY <1>8 DEF RecordCall
  <2> HIDE DEF CallInFlight
  <2>5. Proven!Charge(CallInFlight.session, CallInFlight.provider, got.usage)
    BY <2>2, <2>4 DEF Router!Charge, Proven!Charge, Router!Total, Proven!Total, Router!CostOf,
       Proven!CostOf
  <2>6. Proven!Complete(got.usage)
    BY <2>2, <2>3, <2>5 DEF Proven!Complete
  <2> QED
    BY <2>1, <2>6 DEF Proven!Next
<1>9. CASE Shutdown
  BY <1>1, <1>9 DEF Shutdown
<1>10. CASE Exit \/ Crash
  BY <1>10 DEF Exit, Crash, Wipe, Router!Zero, Proven!Zero, Proven!Restart, Proven!Next
<1>11. CASE Boot \/ Quiet \/ UNCHANGED vars
  BY <1>1, <1>11 DEF Boot, Quiet, vars, workerVars
<1> QED
  BY <1>2, <1>3, <1>4, <1>5, <1>6, <1>7, <1>8, <1>9, <1>10, <1>11
  DEF Next, Worker, Turn, Model, Process

LEMMA CoreKeepsProtocol == Spec => Proven!Spec
<1>1. Init => Proven!Init
  BY DEF Init, Router!Init, Router!Zero, Proven!Init, Proven!Zero, CallInFlight
<1> QED
  BY <1>1, RouterStep, AlwaysTyped, PTL DEF Spec, Proven!Spec

\* The core calls the router in the order verdict, provider call, charge, one
\* call at a time, whatever fails, is cancelled or restarted in between.
THEOREM ProtocolIsKept == Spec => KeepsRouterProtocol
<1>1. Proven!Init <=> RouterCalls!Init
  BY DEF Proven!Init, RouterCalls!Init, Proven!Zero, RouterCalls!Zero, CallInFlight
<1>2. [Proven!Next]_(Proven!vars) => [RouterCalls!Next]_(RouterCalls!vars)
  BY DEF Proven!Next, RouterCalls!Next, Proven!Refuse, RouterCalls!Refuse, Proven!Allow,
         RouterCalls!Allow, Proven!Complete, RouterCalls!Complete, Proven!Uncharged,
         RouterCalls!Uncharged, Proven!Restart, RouterCalls!Restart, Proven!Ask,
         RouterCalls!Ask, Proven!Verdict, RouterCalls!Verdict, Proven!Exceeded,
         RouterCalls!Exceeded, Proven!AtCap, RouterCalls!AtCap, Proven!Charge,
         RouterCalls!Charge, Proven!Total, RouterCalls!Total, Proven!CostOf,
         RouterCalls!CostOf, Proven!ProviderFor, RouterCalls!ProviderFor,
         Proven!Providers, RouterCalls!Providers, Proven!Kinds, RouterCalls!Kinds,
         Proven!Zero, RouterCalls!Zero, Proven!vars, RouterCalls!vars, CallInFlight,
         Router!ProviderFor
<1> QED
  BY <1>1, <1>2, CoreKeepsProtocol, PTL
  DEF KeepsRouterProtocol, RouterCalls!Spec, Proven!Spec

\* RouterAssumption, as the router's theorems need it.
LEMMA RouterAssumed ==
  /\ TokenCap \in Proven!Ceilings
  /\ UsdCap \in Proven!Ceilings
  /\ NoCap \notin Nat
  /\ None \notin Proven!Call
  /\ OnExceed \in {"block", "warn"}
  /\ HasMessageTier \in BOOLEAN
  /\ Usage \subseteq [in : Nat, out : Nat]
  /\ \E priced \in SUBSET Proven!Providers : Price \in [priced -> [in : Nat, out : Nat]]
BY CoreAssumption
DEF Router!RouterAssumption, Router!Ceilings, Router!Call, Router!Providers,
    Proven!Ceilings, Proven!Call, Proven!Providers

\* Under onExceed=block no session of the core passes a ceiling by more than its
\* last call.
THEOREM CoreBudgetHolds == Spec => []OneCallOvershoot
<1>1. Proven!Spec => []Proven!OneCallOvershoot
  BY RouterAssumed, Proven!BudgetHolds
<1>2. Proven!OneCallOvershoot => OneCallOvershoot
  BY DEF Proven!OneCallOvershoot, Proven!Overshoot, Proven!CallTokens, Proven!CallDollars,
     Proven!Total, Proven!CostOf, Proven!Providers, OneCallOvershoot, Router!OneCallOvershoot,
     Router!Overshoot, Router!CallTokens, Router!CallDollars, Router!Total, Router!CostOf,
     Router!Providers
<1> QED
  BY <1>1, <1>2, CoreKeepsProtocol, PTL

(***************************************************************************)
(* Every completed call is charged                                         *)
(***************************************************************************)

Short == {s \in Sessions : Shortfall(s) > 0}

\* Each raise leaves one session short of one call at most.
ShortInv ==
  /\ \A s \in Sessions : Shortfall(s) >= 0
  /\ Within(Short, faults)
  /\ \A most \in Router!CallTokens :
       (\A tokens \in Router!CallTokens : tokens <= most) =>
         \A s \in Sessions : Shortfall(s) <= faults * most

\* A step leaves every session as short as it was, ends the process that counts,
\* or is the raise that leaves one session short of one call.
Shorts ==
  \/ (\A s \in Sessions : Shortfall(s)' = Shortfall(s)) /\ faults <= faults'
  \/ (\A s \in Sessions : Shortfall(s)' = 0) /\ faults' = faults
  \/ \E c \in Sessions, u \in Usage :
       /\ Shortfall(c)' = Shortfall(c) + Router!Total(u)
       /\ \A s \in Sessions : s # c => Shortfall(s)' = Shortfall(s)
       /\ faults' = faults + 1

LEMMA ShortfallIsInt ==
  ASSUME TypeInv, NEW s \in Sessions
  PROVE  Shortfall(s) \in Int
<1>1. used[s] \in Nat /\ spent[s] \in Nat
  BY DEF TypeInv, TypeOK, Router!TypeOK
<1>2. pc = "record" => Router!Total(got.usage) \in Nat
  BY CostIsNat DEF TypeInv, AnswerInHand, Answers
<1> QED
  BY <1>1, <1>2 DEF Shortfall

LEMMA StepShorts ==
  ASSUME TypeInv, [Next]_vars
  PROVE  Shorts
<1> USE DEF Shortfall
<1>0. /\ faults \in Nat /\ spent \in [Sessions -> Nat] /\ used \in [Sessions -> Nat]
  BY DEF TypeInv, TypeOK, Router!TypeOK
<1>1. ASSUME UNCHANGED <<spent, used>>,
             \/ UNCHANGED <<pc, got, current>>
             \/ /\ pc = "record" => got.kind = "error"
                /\ pc' # "record"
             \/ pc # "record" /\ pc' # "record",
             \/ UNCHANGED faults
             \/ \E kind \in {"sink", "db", "load", "command"} : Raises(kind)
      PROVE  Shorts
  <2>1. faults <= faults'
    BY <1>0, <1>1 DEF Raises
  <2> QED
    BY <1>1, <2>1 DEF Shorts, Session
<1>2. ASSUME NEW m \in Messages, Channel(m)
      PROVE  Shorts
  BY <1>1, <1>2 DEF Channel, Post, Forbid, Respond, ReplyTimeout, Disconnect, Leave, Returns,
       boundVars, routerVars, auditVars, workerVars
<1>3. CASE Dequeue \/ LoadFails \/ Command \/ Hear \/ Answer
  BY <1>1, <1>3
  DEF Dequeue, LoadFails, Command, Hear, HearFails, Answer, AnswerFails, FailTurn, EndTurn, Goto,
      AfterHear, Returns, boundVars, routerVars, auditVars
<1>4. CASE BudgetVerdict
  BY <1>1, <1>4
  DEF BudgetVerdict, BudgetRefuses, BudgetAllows, BudgetWarns, BeginCall, FailTurn, EndTurn, Goto,
      Returns, boundVars, auditVars
\* What it spent is in hand.
<1>5. CASE ProviderReturns
  <2>1. pc = "model" /\ Session \in Sessions
    BY <1>5, InHandIsMessage DEF ProviderReturns, TypeInv
  <2>2. PICK answer \in Answers :
          /\ got' = answer
          /\ used' = IF answer.kind = "error" THEN used
                     ELSE [used EXCEPT ![Session] = @ + Router!Total(answer.usage)]
    BY <1>5 DEF ProviderReturns
  <2>3. UNCHANGED <<spent, current, faults>> /\ pc' = "record"
    BY <1>5 DEF ProviderReturns, routerVars, boundVars
  <2>4. Router!Total(answer.usage) \in Nat
    BY CostIsNat DEF Answers
  <2> QED
    BY <1>0, <2>1, <2>2, <2>3, <2>4 DEF Shorts, Session
<1>6. CASE RecordCall
  <2>1. pc = "record" /\ got.kind # "error" /\ Session \in Sessions
    BY <1>6, InHandIsMessage DEF RecordCall, TypeInv
  <2>2. /\ spent' = [spent EXCEPT ![Session] = @ + Router!Total(got.usage)]
        /\ UNCHANGED <<used, current, faults>> /\ pc' = "act"
    BY <1>6 DEF RecordCall, Router!Charge, Goto, Returns, boundVars
  <2>3. Router!Total(got.usage) \in Nat
    BY <2>1, CostIsNat DEF TypeInv, AnswerInHand, Answers
  <2> QED
    BY <1>0, <2>1, <2>2, <2>3 DEF Shorts, Session
<1>7. CASE RecordError
  BY <1>1, <1>7 DEF RecordError, FailTurn, EndTurn, Returns, boundVars, routerVars
<1>8. CASE RecordRaises
  <2>1. pc = "record" /\ Session \in Sessions
    BY <1>8, InHandIsMessage DEF RecordRaises, TypeInv
  <2>2. UNCHANGED <<spent, used>> /\ pc' # "record" /\ Raises("sink")
    BY <1>8 DEF RecordRaises, FailTurn, EndTurn, routerVars, auditVars
  <2>3. CASE got.kind = "error"
    BY <1>1, <2>2, <2>3
  <2>4. CASE got.kind # "error"
    <3>1. got.usage \in Usage /\ Router!Total(got.usage) \in Nat
      BY <2>1, CostIsNat DEF TypeInv, AnswerInHand, Answers
    <3>2. PICK c \in Sessions : c = Session
      BY <2>1
    <3>3. PICK u \in Usage : u = got.usage
      BY <3>1
    <3>4. Shortfall(c)' = Shortfall(c) + Router!Total(u)
      BY <1>0, <2>1, <2>2, <2>4, <3>1, <3>2, <3>3
    <3>5. \A s \in Sessions : s # c => Shortfall(s)' = Shortfall(s)
      BY <2>2, <3>2
    <3>6. faults' = faults + 1
      BY <2>2 DEF Raises
    <3> HIDE DEF Shortfall
    <3> QED
      BY <3>4, <3>5, <3>6 DEF Shorts
  <2> QED
    BY <2>3, <2>4
<1>9. CASE BeginTools \/ Tool
  BY <1>1, <1>9
  DEF BeginTools, Tool, ToolReturns, ToolRaises, AskAgain, FailTurn, EndTurn, Returns,
      boundVars, routerVars, auditVars
<1>10. CASE Shutdown \/ Boot \/ Quiet \/ UNCHANGED vars
  BY <1>1, <1>10
  DEF Shutdown, LoopFree, Boot, Quiet, vars, routerVars, auditVars, workerVars, boundVars
<1>11. CASE Exit \/ Crash
  BY <1>11 DEF Exit, Crash, Wipe, Router!Zero, Shorts
<1> QED
  BY <1>2, <1>3, <1>4, <1>5, <1>6, <1>7, <1>8, <1>9, <1>10, <1>11
  DEF Next, Worker, Turn, Model, Process

\* One more raise allows for one more call.
LEMMA OneMoreCall ==
  ASSUME NEW n \in Nat, NEW k \in Nat, NEW most \in Nat
  PROVE  /\ n <= k => n * most <= k * most
         /\ (n + 1) * most = n * most + most
         /\ n * most \in Nat
OBVIOUS

LEMMA ShortStep ==
  ASSUME TypeInv, TypeInv', ShortInv, [Next]_vars
  PROVE  ShortInv'
<1>1. Shorts
  BY StepShorts
<1>2. faults \in Nat /\ faults' \in Nat
  BY DEF TypeInv, TypeOK
<1>3. \A s \in Sessions : Shortfall(s) \in Int
  BY ShortfallIsInt
<1>4. \A most \in Router!CallTokens : most \in Nat
  BY CostIsNat DEF Router!CallTokens
<1>5. CASE (\A s \in Sessions : Shortfall(s)' = Shortfall(s)) /\ faults <= faults'
  <2>1. Within(Short', faults')
    BY <1>2, <1>5, FewerStayWithin DEF ShortInv, Short
  <2>2. ASSUME NEW most \in Router!CallTokens,
               \A tokens \in Router!CallTokens : tokens <= most,
               NEW s \in Sessions
        PROVE  Shortfall(s)' <= faults' * most
    <3>1. Shortfall(s) <= faults * most
      BY <2>2 DEF ShortInv
    <3>2. faults * most <= faults' * most /\ faults * most \in Nat /\ faults' * most \in Nat
      BY <1>2, <1>4, <1>5, OneMoreCall
    <3> QED
      BY <1>3, <1>5, <3>1, <3>2
  <2> QED
    BY <1>5, <2>1, <2>2 DEF ShortInv, Within
<1>6. CASE (\A s \in Sessions : Shortfall(s)' = 0) /\ faults' = faults
  <2>1. Short' = {}
    BY <1>6 DEF Short
  <2>2. Within(Short', faults')
    BY <1>2, <2>1, FS_EmptySet DEF Within
  <2>3. \A most \in Router!CallTokens : faults' * most \in Nat
    BY <1>2, <1>4, OneMoreCall
  <2> QED
    BY <1>6, <2>2, <2>3 DEF ShortInv, Within
<1>7. ASSUME NEW c \in Sessions, NEW u \in Usage,
             Shortfall(c)' = Shortfall(c) + Router!Total(u),
             \A s \in Sessions : s # c => Shortfall(s)' = Shortfall(s),
             faults' = faults + 1
      PROVE  ShortInv'
  <2>1. Router!Total(u) \in Nat /\ Router!Total(u) \in Router!CallTokens
    BY CostIsNat DEF Router!CallTokens
  <2>2. \A s \in Sessions : Shortfall(s)' >= 0
    BY <1>3, <1>7, <2>1 DEF ShortInv
  <2>3. Short' \subseteq Short \cup {c}
    BY <1>7 DEF Short
  <2>4. Within(Short', faults')
    <3>1. faults \in Int
      BY <1>2
    <3>2. Within(Short', faults + 1)
      BY <2>3, <3>1, OneMoreStaysWithin DEF ShortInv
    <3> QED
      BY <1>7, <3>2
  <2>5. ASSUME NEW most \in Router!CallTokens,
               \A tokens \in Router!CallTokens : tokens <= most,
               NEW s \in Sessions
        PROVE  Shortfall(s)' <= faults' * most
    <3>1. Shortfall(s) <= faults * most
      BY <2>5 DEF ShortInv
    <3>2. Router!Total(u) <= most
      BY <2>1, <2>5
    <3>3. faults' * most = faults * most + most /\ faults * most \in Nat /\ most \in Nat
      BY <1>2, <1>4, <1>7, OneMoreCall
    <3>4. Shortfall(s)' = Shortfall(s) \/ Shortfall(s)' = Shortfall(s) + Router!Total(u)
      BY <1>7
    <3> QED
      BY <1>3, <2>1, <3>1, <3>2, <3>3, <3>4
  <2> QED
    BY <2>2, <2>4, <2>5 DEF ShortInv, Within
<1> QED
  BY <1>1, <1>5, <1>6, <1>7 DEF Shorts

\* What the provider spent for a session is what the session is charged, also
\* when its client is gone or its turn ends without an answer, but for one call
\* at most for each record on which the sink raised (components/model_router.py).
THEOREM CompletedCallsAreCharged == Spec => []EveryCompletedCallCharged
<1>1. Init => ShortInv
  <2> SUFFICES ASSUME Init PROVE ShortInv
    OBVIOUS
  <2>1. \A s \in Sessions : Shortfall(s) = 0
    BY DEF Init, Router!Init, Router!Zero, Shortfall
  <2>2. faults = 0 /\ Short = {}
    BY <2>1 DEF Init, Short
  <2>3. \A most \in Router!CallTokens : 0 * most = 0
    BY CostIsNat DEF Router!CallTokens
  <2> QED
    BY <2>1, <2>2, <2>3, FS_EmptySet DEF ShortInv, Within
<1>2. ShortInv => EveryCompletedCallCharged
  BY DEF ShortInv, Short, Within, EveryCompletedCallCharged
<1> QED
  BY <1>1, <1>2, ShortStep, NextTyped, AlwaysTyped, PTL DEF Spec

(***************************************************************************)
(* One warning a session                                                   *)
(***************************************************************************)

\* Spending only grows, so a session that reached a ceiling stays over it.
LEMMA StaysExceeded ==
  ASSUME TypeOK, TypeOK', NEW s \in Sessions,
         spent'[s] >= spent[s], usd'[s] >= usd[s], Router!Exceeded(s)
  PROVE  Router!Exceeded(s)'
<1>1. /\ spent[s] \in Nat /\ usd[s] \in Nat /\ spent'[s] \in Nat /\ usd'[s] \in Nat
  BY DEF TypeOK, Router!TypeOK
<1>2. TokenCap \in Nat \cup {NoCap} /\ UsdCap \in Nat \cup {NoCap}
  BY CoreAssumption DEF Router!RouterAssumption, Router!Ceilings
<1> QED
  BY <1>1, <1>2 DEF Router!Exceeded, Router!AtCap

\* The marked sessions without their record.
Silent == {s \in warned : warnings[s] = 0}

\* A session is marked only over budget, and has its record when it is, unless
\* the sink raised on it; a call in flight over budget is one of a marked session.
WarnInv ==
  OnExceed = "warn" =>
    /\ Router!WarnedIsOverBudget
    /\ \A s \in Sessions : warnings[s] = 0 \/ (warnings[s] = 1 /\ s \in warned)
    /\ Within(Silent, faults)
    /\ pc = "model" /\ Router!Exceeded(Session) => Session \in warned

\* A step that leaves marks and records alone, charges nothing back and begins
\* no call.
LEMMA UnwarnedStep ==
  ASSUME TypeInv, TypeInv', WarnInv, UNCHANGED <<warned, warnings>>,
         \A s \in Sessions : spent'[s] >= spent[s] /\ usd'[s] >= usd[s],
         pc' = "model" => pc = "model" /\ UNCHANGED <<current, spent, usd>>,
         faults <= faults'
  PROVE  WarnInv'
<1> SUFFICES ASSUME OnExceed = "warn" PROVE WarnInv'
  BY DEF WarnInv
<1>0. faults \in Nat /\ faults' \in Nat
  BY DEF TypeInv, TypeOK
<1>1. warned \subseteq Sessions
  BY DEF TypeInv, TypeOK, Router!TypeOK
<1>2. \A s \in warned : Router!Exceeded(s)'
  BY <1>1, StaysExceeded DEF WarnInv, Router!WarnedIsOverBudget, TypeInv
<1>3. pc' = "model" /\ Router!Exceeded(Session)' => Session' \in warned'
  BY DEF WarnInv, Session, Router!Exceeded
<1>4. Within(Silent', faults')
  BY <1>0, FewerStayWithin DEF WarnInv, Silent
<1> QED
  BY <1>2, <1>3, <1>4 DEF WarnInv, Within, Router!WarnedIsOverBudget

LEMMA WarnStep ==
  ASSUME TypeInv, TypeInv', WarnInv, [Next]_vars
  PROVE  WarnInv'
<1>0. /\ spent \in [Sessions -> Nat] /\ usd \in [Sessions -> Nat]
      /\ warned \subseteq Sessions /\ warnings \in [Sessions -> Nat] /\ faults \in Nat
  <2>1. RouterType /\ AuditType /\ BoundType
    BY TypeParts DEF TypeInv
  <2> QED
    BY <2>1 DEF RouterType, AuditType, BoundType
<1>1. ASSUME UNCHANGED <<routerVars, warnings>>,
             pc' = "model" => pc = "model" /\ UNCHANGED current,
             UNCHANGED boundVars \/ (\E kind \in {"sink", "db", "load", "command"} : Raises(kind))
               \/ UNCHANGED faults
      PROVE  WarnInv'
  BY <1>0, <1>1, UnwarnedStep DEF routerVars, boundVars, Raises
<1>2. ASSUME NEW m \in Messages, Channel(m)
      PROVE  WarnInv'
  BY <1>1, <1>2 DEF Channel, Post, Forbid, Respond, ReplyTimeout, Disconnect, Leave,
       workerVars, auditVars, Returns
<1>3. CASE Dequeue \/ LoadFails \/ Command \/ Hear \/ Answer
  BY <1>1, <1>3
  DEF Dequeue, LoadFails, Command, Hear, HearFails, Answer, AnswerFails, FailTurn, EndTurn, Goto,
      AfterHear, Returns, auditVars
<1>4. CASE BudgetVerdict
  <2>1. pc = "turn" /\ Session \in Sessions /\ Router!Ask(Session) /\ UNCHANGED <<spent, usd>>
    BY <1>4, InHandIsMessage
    DEF BudgetVerdict, BudgetRefuses, BudgetAllows, BudgetWarns, BeginCall, TypeInv
  <2>2. \A s : Router!Exceeded(s)' <=> Router!Exceeded(s)
    BY <2>1 DEF Router!Exceeded
  <2> SUFFICES ASSUME OnExceed = "warn" PROVE WarnInv'
    BY DEF WarnInv
  <2>3. CASE BudgetRefuses
    BY <2>3 DEF BudgetRefuses, Router!Verdict
  <2>4. CASE BudgetAllows
    <3>1. /\ warned' = warned /\ warnings' = warnings /\ pc' = "model" /\ current' = current
          /\ faults' = faults
      BY <2>1, <2>4 DEF BudgetAllows, BeginCall, Goto, Returns, boundVars, Router!Ask
    <3>2. Router!Exceeded(Session) => Session \in warned
      BY <2>4 DEF BudgetAllows, Router!Verdict
    <3>3. Silent' = Silent
      BY <3>1 DEF Silent
    <3> QED
      BY <2>2, <3>1, <3>2, <3>3 DEF WarnInv, Within, Session, Router!WarnedIsOverBudget
  <2>5. CASE BudgetWarns
    <3>1. Router!Exceeded(Session) /\ Session \notin warned
      BY <2>5 DEF BudgetWarns, Router!Verdict
    <3>2. warned' = warned \cup {Session}
      BY <2>1, <2>5 DEF BudgetWarns, Router!Ask
    <3>3. \A s \in warned' : Router!Exceeded(s)'
      BY <2>2, <3>1, <3>2 DEF WarnInv, Router!WarnedIsOverBudget
    <3>4. CASE warnings' = [warnings EXCEPT ![Session] = @ + 1] /\ Returns /\ BeginCall
      <4>1. warnings'[Session] = 1
        BY <1>0, <2>1, <3>1, <3>4 DEF WarnInv
      <4>2. \A s \in Sessions : s # Session => warnings'[s] = warnings[s]
        BY <1>0, <2>1, <3>4
      <4>3. faults' = faults /\ pc' = "model" /\ current' = current
        BY <3>4 DEF Returns, boundVars, BeginCall, Goto
      <4>4. Silent' \subseteq Silent
        BY <1>0, <3>2, <4>1, <4>2 DEF Silent
      <4>5. Within(Silent', faults')
        BY <1>0, <4>3, <4>4, FewerStayWithin DEF WarnInv
      <4> QED
        BY <1>0, <3>2, <3>3, <4>1, <4>2, <4>3, <4>5
        DEF WarnInv, Within, Session, Router!WarnedIsOverBudget
    <3>5. CASE Raises("sink") /\ FailTurn /\ UNCHANGED auditVars
      <4>1. faults' = faults + 1 /\ pc' # "model" /\ warnings' = warnings
        BY <3>5 DEF Raises, FailTurn, EndTurn, auditVars
      <4>2. Silent' \subseteq Silent \cup {Session}
        BY <3>2, <4>1 DEF Silent
      <4>3. Within(Silent', faults')
        <5>1. faults \in Int
          BY <1>0
        <5>2. Within(Silent', faults + 1)
          BY <4>2, <5>1, OneMoreStaysWithin DEF WarnInv
        <5> QED
          BY <4>1, <5>2
      <4> QED
        BY <3>2, <3>3, <4>1, <4>3 DEF WarnInv, Within, Router!WarnedIsOverBudget
    <3> QED
      BY <2>5, <3>4, <3>5 DEF BudgetWarns
  <2> QED
    BY <1>4, <2>3, <2>4, <2>5 DEF BudgetVerdict
<1>5. CASE ProviderReturns
  BY <1>1, <1>5 DEF ProviderReturns
<1>6. CASE RecordCall
  <2>1. Session \in Sessions /\ got.usage \in Usage
    BY <1>6, InHandIsMessage DEF RecordCall, TypeInv, AnswerInHand, Answers
  <2> DEFINE p == Router!ProviderFor("message")
             u == got.usage
  <2>2. Router!Total(u) \in Nat /\ Router!CostOf(p, u) \in Nat
    BY <2>1, CostIsNat
  <2>3. Router!Charge(Session, p, u)
    BY <1>6 DEF RecordCall
  <2> HIDE DEF p, u
  <2>4. \A s \in Sessions : spent'[s] >= spent[s] /\ usd'[s] >= usd[s]
    BY <1>0, <2>1, <2>2, <2>3 DEF Router!Charge
  <2>5. /\ UNCHANGED <<warned, warnings, faults>> /\ pc' # "model" /\ faults <= faults'
    BY <1>0, <1>6 DEF RecordCall, Goto, Returns, boundVars
  <2> QED
    BY <2>4, <2>5, UnwarnedStep
<1>7. CASE RecordError \/ RecordRaises
  BY <1>1, <1>7 DEF RecordError, RecordRaises, FailTurn, EndTurn, Returns, auditVars
<1>8. CASE BeginTools \/ Tool
  BY <1>1, <1>8
  DEF BeginTools, Tool, ToolReturns, ToolRaises, AskAgain, FailTurn, EndTurn, Returns, auditVars
<1>9. CASE Shutdown \/ Boot \/ Quiet \/ UNCHANGED vars
  BY <1>1, <1>9 DEF Shutdown, Boot, Quiet, vars, routerVars, auditVars, workerVars, boundVars
<1>10. CASE Exit \/ Crash
  <2>1. warned' = {} /\ warnings' = Router!Zero /\ pc' # "model" /\ faults' = faults
    BY <1>10 DEF Exit, Crash, Wipe
  <2>2. Within(Silent', faults')
    BY <1>0, <2>1, FS_EmptySet DEF Silent, Within
  <2> QED
    BY <2>1, <2>2 DEF Router!Zero, WarnInv, Within, Router!WarnedIsOverBudget
<1> QED
  BY <1>2, <1>3, <1>4, <1>5, <1>6, <1>7, <1>8, <1>9, <1>10
  DEF Next, Worker, Turn, Model, Process

\* onExceed=warn: a session is marked before any call made over budget and only
\* over budget, and has its one record unless the sink raised on it (call_model,
\* budget_verdict).
THEOREM OneWarningPerSession == Spec => []WarnedOverBudget
<1>1. Init => WarnInv
  <2> SUFFICES ASSUME Init PROVE WarnInv
    OBVIOUS
  <2>1. warned = {} /\ warnings = [s \in Sessions |-> 0] /\ faults = 0 /\ pc = "idle"
    BY DEF Init, Router!Init
  <2>2. Within(Silent, faults)
    BY <2>1, FS_EmptySet DEF Silent, Within
  <2> QED
    BY <2>1, <2>2 DEF WarnInv, Router!WarnedIsOverBudget
<1>2. WarnInv => WarnedOverBudget
  BY DEF WarnInv, Silent, Within, WarnedOverBudget
<1> QED
  BY <1>1, <1>2, WarnStep, NextTyped, AlwaysTyped, PTL DEF Spec

(***************************************************************************)
(* The prompt of the message in hand                                       *)
(***************************************************************************)

\* The session of an open exchange is in memory, as the file has it.
LoadedInv == pc \in Open => memory[Session] = db[Session]

LEMMA LoadedStep ==
  ASSUME TypeInv, MemoryMatchesStore, LoadedInv, [Next]_vars
  PROVE  LoadedInv'
<1> USE DEF LoadedInv, Session
<1>1. ASSUME UNCHANGED storeVars,
             pc' \notin Open \/ (pc \in Open /\ UNCHANGED current) \/ UNCHANGED <<pc, current>>
      PROVE  LoadedInv'
  BY <1>1 DEF storeVars
<1>2. ASSUME NEW m \in Messages, Channel(m)
      PROVE  LoadedInv'
  BY <1>1, <1>2 DEF Channel, Post, Forbid, Respond, ReplyTimeout, Disconnect, Leave, workerVars
<1>3. CASE Dequeue \/ LoadFails \/ Command
  BY <1>1, <1>3 DEF Dequeue, LoadFails, Command, FailTurn, EndTurn, Goto, Open
<1>4. CASE Hear
  <2>1. CASE HearFails
    BY <2>1 DEF HearFails, FailTurn, EndTurn, Open
  <2>2. CASE Store!AddTurn(Session, Conversation!UserTurn(current)) /\ Goto(AfterHear)
    <3>1. /\ memory \in [Sessions -> Seq(Conversation!Turns) \cup {Absent}]
          /\ db \in [Sessions -> Seq(Conversation!Turns)]
      BY DEF TypeInv, TypeOK, Store!TypeOK
    <3>2. SessionOf[current] \in Sessions
      BY <1>4, InHandIsMessage DEF Hear, TypeInv
    <3>3. Store!SessionFor(SessionOf[current]) = db[SessionOf[current]]
      BY <3>2 DEF Store!SessionFor, MemoryMatchesStore, Store!MemoryMatchesStore
    <3> QED
      BY <2>2, <3>1, <3>2, <3>3 DEF Store!AddTurn, Goto
  <2> QED
    BY <1>4, <2>1, <2>2 DEF Hear
<1>5. CASE Model \/ ProviderReturns
  BY <1>1, <1>5
  DEF Model, BudgetVerdict, BudgetRefuses, BudgetAllows, BudgetWarns, BeginCall, RecordCall,
      RecordError, RecordRaises, ProviderReturns, FailTurn, EndTurn, Goto, Open
<1>6. CASE BeginTools \/ Tool
  BY <1>1, <1>6 DEF BeginTools, Tool, ToolReturns, ToolRaises, FailTurn, EndTurn, Open
<1>7. CASE Answer \/ Exit \/ Crash
  BY <1>7 DEF Answer, EndTurn, Exit, Crash, Wipe, Open
<1>8. CASE Shutdown \/ Boot \/ Quiet \/ UNCHANGED vars
  BY <1>1, <1>8 DEF Shutdown, Boot, Quiet, vars, workerVars, Open
<1> QED
  BY <1>2, <1>3, <1>4, <1>5, <1>6, <1>7, <1>8 DEF Next, Worker, Turn, Process

LEMMA AlwaysLoaded == Spec => []LoadedInv
<1>1. Init => LoadedInv
  BY DEF Init, LoadedInv, Open
<1> QED
  BY <1>1, LoadedStep, AlwaysTyped, MemoryIsTheFile, PTL DEF Spec

\* What is shown of a transcript is the end of it, not empty, in the window.
LEMMA ShownIsTheEnd ==
  ASSUME NEW S, NEW turns \in Seq(S), Len(turns) > 0,
         NEW shown, shown = Assembler!Shown(turns)
  PROVE  /\ shown \in Seq(S)
         /\ Len(shown) \in 1 .. Len(turns)
         /\ \A i \in 1 .. Len(shown) : shown[i] = turns[Len(turns) - Len(shown) + i]
         /\ WindowTurns # Full => Len(shown) <= WindowTurns
<1>1. WindowTurns # Full => WindowTurns \in Nat \ {0}
  BY CoreAssumption DEF Assembler!WindowOK
<1>2. Len(turns) \in Nat \ {0}
  OBVIOUS
<1>3. CASE WindowTurns = Full
  BY <1>2, <1>3 DEF Assembler!Shown
<1>4. CASE WindowTurns # Full
  <2> DEFINE first == IF WindowTurns < Len(turns) THEN Len(turns) - WindowTurns + 1 ELSE 1
  <2>1. first \in 1 .. Len(turns) /\ Len(turns) - first + 1 \in 1 .. WindowTurns
    BY <1>1, <1>2, <1>4
  <2>2. shown = SubSeq(turns, first, Len(turns))
    BY <1>4 DEF Assembler!Shown, Assembler!LastTurns
  <2> HIDE DEF first
  <2>3. /\ shown \in Seq(S) /\ Len(shown) = Len(turns) - first + 1
        /\ \A i \in 1 .. Len(shown) : shown[i] = turns[first + i - 1]
    BY <1>2, <2>1, <2>2
  <2> QED
    BY <1>1, <1>2, <1>4, <2>1, <2>3
<1> QED
  BY <1>3, <1>4

\* The provider is asked about the message in hand: its turn comes last and
\* fenced, after the end of the stored transcript in order, no more than the
\* window, fenced but for the agent's own turns (prompt_assembler.assemble).
THEOREM PromptIsTheTranscript == Spec => []PromptEndsTheTranscript
<1>1. TranscriptInv /\ LoadedInv => PromptEndsTheTranscript
  <2> SUFFICES ASSUME TranscriptInv, LoadedInv, pc \in {"turn", "model"}
               PROVE  LET shown == Prompt.messages
                          cut   == Len(db[Session]) - Len(shown)
                      IN  /\ shown[Len(shown)] =
                               [turn |-> Conversation!UserTurn(current), fenced |-> TRUE]
                          /\ \A i \in DOMAIN shown :
                               /\ shown[i].turn = db[Session][cut + i]
                               /\ shown[i].fenced <=> shown[i].turn.role = "user"
                          /\ WindowTurns # Full => Len(shown) <= WindowTurns
    BY DEF PromptEndsTheTranscript
  <2> DEFINE d == db[Session]
             last == Assembler!Shown(d)
             shown == Prompt.messages
  <2>1. current \in Messages /\ Session \in Sessions /\ OpenExchange = current /\ current # None
    BY InHandIsMessage, CoreAssumption DEF TranscriptInv, TypeInv, OpenExchange
  <2>2. d \in Seq(Conversation!Turns)
    BY <2>1 DEF TranscriptInv, TypeInv, TypeOK, Store!TypeOK
  <2>3. Len(d) > 0 /\ d[Len(d)] = Conversation!UserTurn(current)
    BY <2>1 DEF TranscriptInv, TellingInv, OpenIsLast, Session
  <2>4. shown = [i \in DOMAIN last |-> Assembler!Render(last[i])]
    BY DEF LoadedInv, Open, Prompt, Assembler!Assemble
  <2> HIDE DEF d, last, shown
  <2>5. /\ last \in Seq(Conversation!Turns)
        /\ Len(last) \in 1 .. Len(d)
        /\ \A i \in 1 .. Len(last) : last[i] = d[Len(d) - Len(last) + i]
        /\ WindowTurns # Full => Len(last) <= WindowTurns
    BY <2>2, <2>3, ShownIsTheEnd DEF last
  <2>6. DOMAIN last = 1 .. Len(last) /\ Len(last) \in Nat \ {0} /\ Len(d) \in Nat
    BY <2>2, <2>5
  <2>7. DOMAIN shown = 1 .. Len(last) /\ Len(shown) = Len(last)
    BY <2>4, <2>6
  <2>8. \A t \in Conversation!Turns : t.role # "assistant" <=> t.role = "user"
    BY DEF Conversation!Turns
  <2>9. \A i \in DOMAIN shown :
          /\ last[i] = d[Len(d) - Len(shown) + i]
          /\ last[i] \in Conversation!Turns
    BY <2>5, <2>6, <2>7
  <2>10. \A i \in DOMAIN shown :
           shown[i] = [turn |-> last[i], fenced |-> last[i].role # "assistant"]
    BY <2>4, <2>6, <2>7 DEF Assembler!Render
  <2>11. last[Len(shown)] = Conversation!UserTurn(current) /\ Len(shown) \in DOMAIN shown
    BY <2>2, <2>3, <2>5, <2>6, <2>7
  <2>12. shown[Len(shown)] = [turn |-> Conversation!UserTurn(current), fenced |-> TRUE]
    <3>1. (Conversation!UserTurn(current).role # "assistant") = TRUE
      BY DEF Conversation!UserTurn
    <3> QED
      BY <2>10, <2>11, <3>1, Zenon
  <2>13. ASSUME NEW i \in DOMAIN shown
         PROVE  /\ shown[i].turn = d[(Len(d) - Len(shown)) + i]
                /\ shown[i].fenced <=> shown[i].turn.role = "user"
    <3>1. shown[i].turn = last[i] /\ shown[i].fenced = (last[i].role # "assistant")
      <4> DEFINE x == last[i]
                 b == last[i].role # "assistant"
      <4>1. shown[i] = [turn |-> x, fenced |-> b]
        BY <2>10, <2>13
      <4> HIDE DEF x, b
      <4>2. shown[i].turn = x /\ shown[i].fenced = b
        BY <4>1
      <4> QED
        BY <4>2 DEF x, b
    <3>2. (last[i].role # "assistant") <=> last[i].role = "user"
      BY <2>8, <2>9
    <3> QED
      BY <2>9, <3>1, <3>2, Zenon
  <2> QED
    BY <2>5, <2>7, <2>12, <2>13 DEF d, shown
<1> QED
  BY <1>1, AlwaysTelling, AlwaysLoaded, PTL

(***************************************************************************)
(* What a fault or a stop can cost                                         *)
(***************************************************************************)

LEMMA SumGrows ==
  ASSUME NEW a \in Nat, NEW b \in Nat, NEW c \in Nat, NEW d \in Nat, a <= c, b <= d
  PROVE  a + b \in Nat /\ c + d \in Nat /\ a + b <= c + d
OBVIOUS

\* faults and stops only grow.
Cost == faults + stops

LEMMA CostGrows ==
  ASSUME TypeInv, TypeInv', [Next]_vars
  PROVE  Cost \in Nat /\ Cost' \in Nat /\ Cost <= Cost'
<1>1. faults \in Nat /\ stops \in Nat /\ faults' \in Nat /\ stops' \in Nat
  BY TypeParts, TypePartsNext DEF TypeInv, BoundType
<1> SUFFICES faults <= faults' /\ stops <= stops'
  BY <1>1, SumGrows DEF Cost
<1>2. ASSUME UNCHANGED boundVars \/ (\E kind \in {"sink", "db", "load", "command"} : Raises(kind))
      PROVE  faults <= faults' /\ stops <= stops'
  BY <1>1, <1>2 DEF boundVars, Raises
<1>3. ASSUME NEW m \in Messages, Channel(m)
      PROVE  faults <= faults' /\ stops <= stops'
  BY <1>2, <1>3 DEF Channel, Post, Forbid, Respond, ReplyTimeout, Disconnect, Leave, Returns
<1>4. CASE Dequeue \/ LoadFails \/ Command \/ Hear \/ Answer
  BY <1>2, <1>4 DEF Dequeue, LoadFails, Command, Hear, HearFails, Answer, AnswerFails, Returns
<1>5. CASE Model
  BY <1>2, <1>5 DEF Model, BudgetVerdict, BudgetRefuses, BudgetAllows, BudgetWarns, RecordCall,
       RecordError, RecordRaises, Returns
<1>6. CASE BeginTools \/ Tool \/ ProviderReturns \/ Boot \/ Quiet \/ UNCHANGED vars
  BY <1>2, <1>6 DEF BeginTools, Tool, ToolReturns, ToolRaises, ProviderReturns, Boot, Quiet,
       vars, Returns
<1>7. CASE Shutdown \/ Exit \/ Crash
  BY <1>1, <1>7 DEF Shutdown, Exit, Crash, Wipe
<1> QED
  BY <1>3, <1>4, <1>5, <1>6, <1>7 DEF Next, Worker, Turn, Process

\* A process that is stopping or down has no message in hand.
StoppedInv == life # "up" => pc \in {"idle", "stopped"}

LEMMA StoppedStep ==
  ASSUME TypeInv, StoppedInv, [Next]_vars
  PROVE  StoppedInv'
<1> USE DEF StoppedInv
<1>1. ASSUME UNCHANGED life, UNCHANGED pc \/ pc \notin {"idle", "stopped"} \/ life = "up"
      PROVE  StoppedInv'
  BY <1>1
<1>2. ASSUME NEW m \in Messages, Channel(m)
      PROVE  StoppedInv'
  BY <1>1, <1>2 DEF Channel, Post, Forbid, Respond, ReplyTimeout, Disconnect, Leave, workerVars
<1>3. CASE Dequeue \/ LoadFails \/ Command \/ Hear \/ Answer
  BY <1>1, <1>3 DEF Dequeue, LoadFails, Command, Hear, Answer
<1>4. CASE Model \/ ProviderReturns
  BY <1>1, <1>4 DEF Model, BudgetVerdict, BudgetRefuses, BudgetAllows, BudgetWarns, BeginCall,
       RecordCall, RecordError, RecordRaises, ProviderReturns
<1>5. CASE BeginTools \/ Tool \/ Quiet \/ UNCHANGED vars
  BY <1>1, <1>5 DEF BeginTools, Tool, ToolReturns, ToolRaises, Quiet, vars, workerVars
<1>6. CASE Process
  BY <1>6 DEF Process, Shutdown, Exit, Crash, Wipe, Boot
<1> QED
  BY <1>2, <1>3, <1>4, <1>5, <1>6 DEF Next, Worker, Turn

(***************************************************************************)
(* Facts are mentioned                                                     *)
(***************************************************************************)

MentionInv == StoppedInv /\ Within(Unmentioned, Cost)

\* A step mentions what it adds, or costs a fault or a stop.
Mentions ==
  \/ Unmentioned' \subseteq Unmentioned
  \/ Unmentioned' \subseteq Unmentioned \cup {current} /\ Cost' = Cost + 1

LEMMA StepMentions ==
  ASSUME TypeInv, TypeInv', StoppedInv, [Next]_vars
  PROVE  Mentions
<1>0. faults \in Nat /\ stops \in Nat /\ facts \subseteq Messages
  <2>1. BoundType /\ OtherType
    BY TypeParts DEF TypeInv
  <2> QED
    BY <2>1, CoreAssumption DEF BoundType, OtherType
<1>1. \A m \in Messages : Heard(m) => Heard(m)'
  <2>1. \A m \in Messages : Heard(m) =>
           \E i \in DOMAIN db'[SessionOf[m]] : db'[SessionOf[m]][i] = Conversation!UserTurn(m)
    BY HeldIsKept DEF Heard
  <2> QED
    BY <2>1 DEF Heard, Conversation!Holds, Conversation!UserTurn
<1>2. ASSUME UNCHANGED facts, pc # "command" \/ UNCHANGED <<pc, current>>
      PROVE  Mentions
  BY <1>0, <1>1, <1>2 DEF Mentions, Unmentioned, Heard
<1>3. ASSUME UNCHANGED facts, Cost' = Cost + 1
      PROVE  Mentions
  BY <1>0, <1>1, <1>3 DEF Mentions, Unmentioned, Heard
<1>4. ASSUME NEW m \in Messages, Channel(m)
      PROVE  Mentions
  BY <1>2, <1>4 DEF Channel, Post, Forbid, Respond, ReplyTimeout, Disconnect, Leave, workerVars
<1>5. CASE Dequeue \/ LoadFails
  BY <1>2, <1>5 DEF Dequeue, LoadFails
<1>6. CASE Command
  <2>1. CASE facts' = facts \cup {current} /\ Goto("command")
    <3>1. pc = "begin" /\ pc' = "command" /\ current' = current
      BY <1>6, <2>1 DEF Command, Goto
    <3> QED
      BY <1>0, <1>1, <2>1, <3>1 DEF Mentions, Unmentioned, Heard
  <2>2. CASE UNCHANGED facts
    BY <1>2, <1>6, <2>2 DEF Command
  <2> QED
    BY <1>6, <2>1, <2>2 DEF Command
<1>7. CASE Hear
  <2>1. CASE HearFails
    <3>1. Cost' = Cost + 1
      BY <1>0, <2>1 DEF HearFails, Raises, Cost
    <3> QED
      BY <1>3, <1>7, <3>1 DEF Hear
  <2>2. CASE Store!AddTurn(Session, Conversation!UserTurn(current))
    <3>1. current \in Messages /\ Session \in Sessions
      BY <1>7, InHandIsMessage DEF Hear, TypeInv
    <3> DEFINE d == db[Session]
               t == Conversation!UserTurn(current)
    <3>2. d \in Seq(Conversation!Turns) /\ t \in Conversation!Turns
      BY <3>1 DEF TypeInv, TypeOK, Store!TypeOK, Conversation!UserTurn, Conversation!Turns
    <3>3. db'[Session] = Append(d, t)
      BY <2>2, <3>1 DEF Store!AddTurn, TypeInv, TypeOK, Store!TypeOK
    <3> HIDE DEF d, t
    <3>4. \E i \in DOMAIN db'[Session] : db'[Session][i] = t
      BY <3>2, <3>3
    <3>5. \E i \in DOMAIN db'[SessionOf[current]] :
             db'[SessionOf[current]][i] = Conversation!UserTurn(current)
      BY <3>4 DEF t, Session
    <3>6. \A m \in Messages : m = current => Heard(m)'
      BY <3>5 DEF Heard, Conversation!Holds, Conversation!UserTurn
    <3> QED
      BY <1>0, <1>1, <1>7, <3>6 DEF Hear, Mentions, Unmentioned, Heard
  <2> QED
    BY <1>7, <2>1, <2>2 DEF Hear
<1>8. CASE Model \/ ProviderReturns
  BY <1>2, <1>8 DEF Model, BudgetVerdict, BudgetRefuses, BudgetAllows, BudgetWarns, BeginCall,
       RecordCall, RecordError, RecordRaises, ProviderReturns
<1>9. CASE BeginTools \/ Tool \/ Answer
  BY <1>2, <1>9 DEF BeginTools, Tool, ToolReturns, ToolRaises, Answer
<1>10. CASE Shutdown \/ Boot \/ Quiet \/ UNCHANGED vars
  BY <1>2, <1>10 DEF Shutdown, LoopFree, Boot, Quiet, vars, workerVars
<1>11. CASE Exit
  BY <1>2, <1>11 DEF Exit, Wipe, StoppedInv
<1>12. CASE Crash
  BY <1>0, <1>3, <1>12 DEF Crash, Wipe, Cost
<1> QED
  BY <1>4, <1>5, <1>6, <1>7, <1>8, <1>9, <1>10, <1>11, <1>12 DEF Next, Worker, Turn, Process

\* A fact no transcript mentions costs a failed INSERT or a death of the
\* process between the two writes, each of which leaves at most one (handle).
THEOREM EveryFactIsMentioned == Spec => []FactsAreMentioned
<1>1. Init => MentionInv
  <2> SUFFICES ASSUME Init PROVE MentionInv
    OBVIOUS
  <2>1. Unmentioned = {} /\ Cost = 0
    BY DEF Init, Unmentioned, Cost
  <2> QED
    BY <2>1, FS_EmptySet DEF Init, MentionInv, StoppedInv, Within
<1>2. ASSUME TypeInv, TypeInv', MentionInv, [Next]_vars
      PROVE  MentionInv'
  <2>1. Cost \in Nat /\ Cost' \in Nat /\ Cost <= Cost'
    BY <1>2, CostGrows
  <2>2. Mentions
    BY <1>2, StepMentions DEF MentionInv
  <2>3. CASE Unmentioned' \subseteq Unmentioned
    <3>1. Within(Unmentioned', Cost')
      BY <1>2, <2>1, <2>3, FewerStayWithin DEF MentionInv
    <3> QED
      BY <1>2, <3>1, StoppedStep DEF MentionInv, Within
  <2>4. CASE Unmentioned' \subseteq Unmentioned \cup {current} /\ Cost' = Cost + 1
    <3>1. Cost \in Int
      BY <2>1
    <3>2. Within(Unmentioned', Cost + 1)
      BY <1>2, <2>4, <3>1, OneMoreStaysWithin DEF MentionInv
    <3> QED
      BY <1>2, <2>4, <3>2, StoppedStep DEF MentionInv, Within
  <2> QED
    BY <2>2, <2>3, <2>4 DEF Mentions
<1>3. MentionInv => FactsAreMentioned
  BY DEF MentionInv, Within, Cost, FactsAreMentioned
<1> QED
  BY <1>1, <1>2, <1>3, NextTyped, AlwaysTyped, PTL DEF Spec

(***************************************************************************)
(* Model calls: how many, and how many of them without a record            *)
(***************************************************************************)

Lost == {m \in Messages : Unrecorded(m) = 1}

\* A message that is not the worker's has its calls recorded, one excepted; one
\* in hand, or never taken, has them all recorded but the one in flight.
LostInv ==
  /\ StoppedInv
  /\ \A m \in Messages : Unrecorded(m) \in {0, 1}
  /\ \A m \in Messages : Unrecorded(m) = 1 => Left(m) /\ current # m
  /\ Within(Lost, Cost)

\* A step loses no record, or that of the message in hand, which is then over.
Loses ==
  \/ \A m \in Messages : Unrecorded(m)' = Unrecorded(m)
  \/ \E c \in Messages :
       /\ current = c /\ current' = None
       /\ Unrecorded(c)' = Unrecorded(c) + 1
       /\ \A m \in Messages : m # c => Unrecorded(m)' = Unrecorded(m)
       /\ Cost' = Cost + 1

LEMMA StepLoses ==
  ASSUME TypeInv, TypeInv', StoppedInv, [Next]_vars
  PROVE  Loses
<1>0. /\ begun \in [Messages -> Nat] /\ recorded \in [Messages -> Nat]
      /\ faults \in Nat /\ stops \in Nat
  <2>1. AuditType /\ BoundType
    BY TypeParts DEF TypeInv
  <2> QED
    BY <2>1 DEF AuditType, BoundType
<1> USE DEF Unrecorded, InFlight
<1>1. ASSUME UNCHANGED <<begun, recorded>>,
             \/ UNCHANGED <<pc, current>>
             \/ pc \notin {"model", "record"} /\ pc' \notin {"model", "record"}
      PROVE  Loses
  BY <1>1 DEF Loses
<1>2. ASSUME NEW m \in Messages, Channel(m)
      PROVE  Loses
  BY <1>1, <1>2 DEF Channel, Post, Forbid, Respond, ReplyTimeout, Disconnect, Leave, workerVars,
       auditVars
<1>3. CASE Dequeue \/ LoadFails \/ Command \/ Hear \/ Answer
  BY <1>1, <1>3
  DEF Dequeue, LoadFails, Command, Hear, HearFails, Answer, FailTurn, EndTurn, Goto, AfterHear,
      auditVars
<1>4. CASE BudgetVerdict
  <2>1. pc = "turn" /\ current \in Messages
    BY <1>4, InHandIsMessage DEF BudgetVerdict, TypeInv
  <2>2. CASE BeginCall
    <3>1. /\ begun' = [begun EXCEPT ![current] = @ + 1] /\ recorded' = recorded
          /\ pc' = "model" /\ current' = current
      BY <2>2 DEF BeginCall, Goto
    <3> QED
      BY <1>0, <2>1, <3>1 DEF Loses
  <2>3. CASE FailTurn /\ UNCHANGED auditVars
    BY <1>1, <2>1, <2>3 DEF FailTurn, EndTurn, auditVars
  <2> QED
    BY <1>4, <2>2, <2>3 DEF BudgetVerdict, BudgetRefuses, BudgetAllows, BudgetWarns
<1>5. CASE ProviderReturns
  BY <1>5 DEF ProviderReturns, Loses
<1>6. CASE RecordCall \/ RecordError
  <2>1. pc = "record" /\ current \in Messages
    BY <1>6, InHandIsMessage DEF RecordCall, RecordError, TypeInv
  <2>2. /\ recorded' = [recorded EXCEPT ![current] = @ + 1] /\ begun' = begun
        /\ pc' \notin {"model", "record"}
    BY <1>6 DEF RecordCall, RecordError, NoteCall, Goto, FailTurn, EndTurn
  <2> QED
    BY <1>0, <2>1, <2>2 DEF Loses
<1>7. ASSUME pc \in {"model", "record"}, pc' \notin {"model", "record"}, current' = None,
             UNCHANGED <<begun, recorded>>, Cost' = Cost + 1
      PROVE  Loses
  <2>1. current \in Messages
    BY <1>7, InHandIsMessage DEF TypeInv
  <2> QED
    BY <1>0, <1>7, <2>1 DEF Loses
<1>8. CASE RecordRaises
  <2>1. Cost' = Cost + 1
    BY <1>0, <1>8 DEF RecordRaises, Raises, Cost
  <2> QED
    BY <1>7, <1>8, <2>1 DEF RecordRaises, FailTurn, EndTurn, auditVars
<1>9. CASE BeginTools \/ Tool
  BY <1>1, <1>9 DEF BeginTools, Tool, ToolReturns, ToolRaises, AskAgain, FailTurn, EndTurn,
       auditVars
<1>10. CASE Shutdown \/ Crash
  <2>1. Cost' = Cost + 1 /\ UNCHANGED <<begun, recorded>>
    BY <1>0, <1>10 DEF Shutdown, Crash, Wipe, Cost, auditVars
  <2>2. pc' \notin {"model", "record"} /\ current' = None
    BY <1>10 DEF Shutdown, Crash, Wipe
  <2> QED
    BY <1>1, <1>7, <2>1, <2>2
<1>11. CASE Exit
  BY <1>1, <1>11 DEF Exit, Wipe, StoppedInv
<1>12. CASE Boot \/ Quiet \/ UNCHANGED vars
  BY <1>1, <1>12 DEF Boot, Quiet, vars, workerVars, auditVars
<1> QED
  BY <1>2, <1>3, <1>4, <1>5, <1>6, <1>8, <1>9, <1>10, <1>11, <1>12
  DEF Next, Worker, Turn, Model, Process

LEMMA LostStep ==
  ASSUME TypeInv, TypeInv', PlacesInv, LostInv, [Next]_vars
  PROVE  LostInv'
<1>1. Moves
  BY StepMoves DEF PlacesInv
<1>2. Loses /\ StoppedInv'
  BY StepLoses, StoppedStep DEF LostInv
<1>3. Cost \in Nat /\ Cost' \in Nat /\ Cost <= Cost'
  BY CostGrows
<1>4. CASE \A m \in Messages : Unrecorded(m)' = Unrecorded(m)
  <2>1. Within(Lost', Cost')
    BY <1>3, <1>4, FewerStayWithin DEF LostInv, Lost
  <2>2. \A m \in Messages : Unrecorded(m)' = 1 => (Left(m) /\ current # m)'
    BY <1>1, <1>4 DEF LostInv, Moves
  <2> QED
    BY <1>2, <1>4, <2>1, <2>2 DEF LostInv, Within, Lost
<1>5. ASSUME NEW c \in Messages, current = c, current' = None,
             Unrecorded(c)' = Unrecorded(c) + 1,
             \A m \in Messages : m # c => Unrecorded(m)' = Unrecorded(m),
             Cost' = Cost + 1
      PROVE  LostInv'
  <2>1. Unrecorded(c) = 0
    BY <1>5 DEF LostInv
  <2>2. Left(c)
    BY <1>5 DEF PlacesInv, OnePlace, Left
  <2>3. \A m \in Messages : Unrecorded(m)' \in {0, 1}
    BY <1>5, <2>1 DEF LostInv
  <2>4. \A m \in Messages : Unrecorded(m)' = 1 => (Left(m) /\ current # m)'
    BY <1>1, <1>5, <2>2, CoreAssumption DEF LostInv, Moves
  <2>5. Lost' \subseteq Lost \cup {c}
    BY <1>5 DEF Lost
  <2>6. Cost \in Int
    BY <1>3
  <2>7. Within(Lost', Cost + 1)
    BY <2>5, <2>6, OneMoreStaysWithin DEF LostInv
  <2> QED
    BY <1>2, <1>5, <2>3, <2>4, <2>7 DEF LostInv, Within
<1> QED
  BY <1>2, <1>4, <1>5 DEF Loses

LEMMA AlwaysAccounted == Spec => []LostInv
<1>1. Init => LostInv
  <2> SUFFICES ASSUME Init PROVE LostInv
    OBVIOUS
  <2>1. \A m \in Messages : Unrecorded(m) = 0
    BY DEF Init, Unrecorded, InFlight
  <2>2. Lost = {} /\ Cost = 0
    BY <2>1 DEF Init, Lost, Cost
  <2> QED
    BY <2>1, <2>2, FS_EmptySet DEF Init, LostInv, StoppedInv, Within
<1> QED
  BY <1>1, LostStep, NextTyped, AlwaysPlaced, PTL DEF Spec

\* A provider call is without its model_call record only where a sink raised or
\* the process was stopped: one record at most for each, and for each message
\* (call_model).
THEOREM CallsAreRecorded == Spec => []UnrecordedByFaultOnly
<1>1. LostInv => UnrecordedByFaultOnly
  BY DEF LostInv, Within, Lost, Cost, UnrecordedByFaultOnly
<1> QED
  BY <1>1, AlwaysAccounted, PTL

\* What the model was asked for a message in hand is counted by its rounds.
CallsInv ==
  /\ pc \notin {"turn", "model", "record", "act", "tools"} => rounds = 0
  /\ current # None =>
       begun[current] = rounds + IF pc \in {"model", "record", "act"} THEN 1 ELSE 0
  /\ \A m \in Messages : ~Left(m) => begun[m] = 0
  /\ \A m \in Messages : begun[m] <= MaxToolRounds + 1

LEMMA CallsStep ==
  ASSUME TypeInv, TypeInv', PlacesInv, CallsInv, [Next]_vars
  PROVE  CallsInv'
<1>0. /\ rounds \in 0 .. MaxToolRounds /\ MaxToolRounds \in Nat /\ begun \in [Messages -> Nat]
      /\ None \notin Messages
  <2>1. WorkerType /\ AuditType
    BY TypeParts DEF TypeInv
  <2> QED
    BY <2>1, CoreAssumption DEF WorkerType, AuditType
<1>1. \A m \in Messages : ~Left(m)' => ~Left(m)
  BY StepMoves DEF PlacesInv, Moves
<1> USE DEF CallsInv
<1>2. ASSUME UNCHANGED <<begun, rounds, current, pc>>
      PROVE  CallsInv'
  BY <1>1, <1>2
<1>3. ASSUME UNCHANGED begun, current' = None, rounds' = 0,
             pc' \notin {"turn", "model", "record", "act", "tools"}
      PROVE  CallsInv'
  BY <1>1, <1>3
<1>4. ASSUME FailTurn \/ EndTurn, UNCHANGED begun
      PROVE  CallsInv'
  BY <1>3, <1>4 DEF FailTurn, EndTurn
\* The worker goes on with the message, between two calls or within one.
<1>5. ASSUME UNCHANGED <<begun, rounds, current>>,
             \/ pc \in {"begin", "command"} /\ pc' \in {"command", "confirm", "turn"}
             \/ pc \in {"model", "record"} /\ pc' \in {"record", "act"}
             \/ pc = "tools" /\ pc' \in {"tools", "turn"}
      PROVE  CallsInv'
  BY <1>1, <1>5
<1>6. ASSUME NEW m \in Messages, Channel(m)
      PROVE  CallsInv'
  BY <1>2, <1>6 DEF Channel, Post, Forbid, Respond, ReplyTimeout, Disconnect, Leave, workerVars,
       auditVars
<1>7. CASE Dequeue
  <2>1. current' = Head(queue) /\ pc' = "begin" /\ pc \in {"idle", "get"}
        /\ UNCHANGED <<begun, rounds>>
    BY <1>7 DEF Dequeue, auditVars
  <2>2. current' \in Messages /\ ~Left(current')
    <3>1. queue \in Seq(Messages) /\ queue # <<>>
      BY <1>7 DEF Dequeue, TypeInv, TypeOK
    <3>2. 1 \in DOMAIN queue /\ queue[1] = current' /\ queue[1] \in Messages
      BY <2>1, <3>1
    <3> QED
      BY <3>2 DEF Left, Queued
  <2> QED
    BY <1>1, <2>1, <2>2
<1>8. CASE LoadFails \/ Command \/ Hear
  BY <1>4, <1>5, <1>8 DEF LoadFails, Command, Hear, HearFails, Goto, AfterHear, auditVars
<1>9. CASE BudgetVerdict
  <2>1. pc = "turn" /\ current \in Messages
    BY <1>9, InHandIsMessage DEF BudgetVerdict, TypeInv
  <2>2. CASE BeginCall
    <3>1. /\ begun' = [begun EXCEPT ![current] = @ + 1] /\ rounds' = rounds
          /\ pc' = "model" /\ current' = current
      BY <2>2 DEF BeginCall, Goto
    <3>2. begun[current] = rounds /\ begun'[current] = rounds + 1
      BY <1>0, <2>1, <3>1
    <3>3. \A m \in Messages : m # current => begun'[m] = begun[m]
      BY <1>0, <2>1, <3>1
    <3>4. Left(current)
      BY <2>1 DEF PlacesInv, OnePlace, Left
    <3> QED
      BY <1>0, <1>1, <2>1, <3>1, <3>2, <3>3, <3>4
  <2>3. CASE FailTurn /\ UNCHANGED auditVars
    BY <1>4, <2>3 DEF auditVars
  <2> QED
    BY <1>9, <2>2, <2>3 DEF BudgetVerdict, BudgetRefuses, BudgetAllows, BudgetWarns
<1>10. CASE ProviderReturns \/ RecordCall
  BY <1>5, <1>10 DEF ProviderReturns, RecordCall, Goto
<1>11. CASE RecordError \/ RecordRaises \/ Answer
  BY <1>4, <1>11 DEF RecordError, RecordRaises, Answer, auditVars
<1>12. CASE BeginTools
  <2>1. CASE FailTurn
    BY <1>4, <1>12, <2>1 DEF BeginTools, auditVars
  <2>2. CASE rounds' = rounds + 1 /\ pc' = "tools" /\ UNCHANGED current
    <3>1. pc = "act" /\ current \in Messages /\ UNCHANGED begun
      BY <1>12, InHandIsMessage DEF BeginTools, TypeInv, auditVars
    <3> QED
      BY <1>0, <1>1, <2>2, <3>1
  <2> QED
    BY <1>12, <2>1, <2>2 DEF BeginTools
<1>13. CASE Tool
  BY <1>4, <1>5, <1>13 DEF Tool, ToolReturns, ToolRaises, AskAgain, auditVars
<1>14. CASE Shutdown \/ Exit \/ Crash
  BY <1>3, <1>14 DEF Shutdown, Exit, Crash, Wipe, auditVars
<1>15. CASE Boot \/ Quiet \/ UNCHANGED vars
  BY <1>2, <1>15 DEF Boot, Quiet, vars, workerVars, auditVars
<1> QED
  BY <1>6, <1>7, <1>8, <1>9, <1>10, <1>11, <1>12, <1>13, <1>14, <1>15
  DEF Next, Worker, Turn, Model, Process

LEMMA AlwaysCounted == Spec => [](TypeInv /\ PlacesInv /\ CallsInv)
<1>1. Init => CallsInv
  BY CoreAssumption DEF Init, CallsInv
<1> QED
  BY <1>1, CallsStep, NextTyped, AlwaysPlaced, PTL DEF Spec

=============================================================================
