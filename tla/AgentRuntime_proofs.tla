------------------------ MODULE AgentRuntime_proofs ------------------------
(***************************************************************************)
(* The whole agent process, for any messages, calls, deciders and bounds:  *)
(* it implements the core and the executor it is composed of, and its      *)
(* tools keep to the rounds and to the recorded calls of the core.         *)
(***************************************************************************)
EXTENDS AgentRuntime, AgentCore_proofs

(***************************************************************************)
(* Core and executor in the composition                                    *)
(***************************************************************************)

LEMMA RuntimeStep ==
  ASSUME [RuntimeNext]_allVars
  PROVE  [Next]_vars
<1>1. CASE CoreStep
  BY <1>1 DEF CoreStep, Next, Worker, Process
<1>2. ASSUME NEW c \in Calls, ExecuteReturns(c) \/ ExecuteRaises(c)
      PROVE  [Next]_vars
  BY <1>2 DEF ExecuteReturns, ExecuteRaises, Next, Worker, Tool
<1>3. ASSUME NEW c \in Calls, ExecuteRuns(c) \/ Resolve(c) \/ ResolveRecords(c)
      PROVE  [Next]_vars
  BY <1>3 DEF ExecuteRuns, Resolve, ResolveRecords
<1>4. CASE Ends
  BY <1>4 DEF Ends, Next, Process
<1>5. CASE UNCHANGED allVars
  BY <1>5 DEF allVars
<1> QED
  BY <1>1, <1>2, <1>3, <1>4, <1>5 DEF RuntimeNext

\* Composed with the executor and the approval routes the core does nothing it
\* would not do alone: what is proved of it holds in the runtime.
THEOREM RuntimeImplementsCore == RuntimeSpec => Spec
<1>1. RuntimeInit => Init
  BY DEF RuntimeInit
<1> QED
  BY <1>1, RuntimeStep, PTL DEF RuntimeSpec, Spec

\* The executor's theorems, about the calls of the runtime.
Proved ==
  INSTANCE ToolExecutor_proofs WITH
    Triggers   <- Messages,
    SinkRaises <- "sink" \in FaultKinds,
    faults     <- toolFaults,
    stops      <- ends

\* A call is asked for by the message in hand, at a point where there is one.
LEMMA ExecutorStep ==
  ASSUME TypeInv, [RuntimeNext]_allVars
  PROVE  [Exec!Next]_(Exec!vars)
<1>1. ASSUME UNCHANGED callVars
      PROVE  UNCHANGED Exec!vars
  BY <1>1 DEF callVars, Exec!vars, Exec!callVars
<1>2. CASE CoreStep \/ UNCHANGED allVars
  BY <1>1, <1>2 DEF CoreStep, allVars
<1>3. ASSUME NEW c \in Calls, ExecuteReturns(c) \/ ExecuteRaises(c) \/ ExecuteRuns(c)
      PROVE  [Exec!Next]_(Exec!vars)
  <2>1. current \in Messages
    BY <1>3, InHandIsMessage
    DEF ExecuteReturns, ExecuteRaises, ExecuteRuns, ToolReturns, ToolRaises, TypeInv
  <2> QED
    BY <1>3, <2>1 DEF ExecuteReturns, ExecuteRaises, ExecuteRuns, Exec!Next
<1>4. ASSUME NEW c \in Calls, Resolve(c) \/ ResolveRecords(c)
      PROVE  [Exec!Next]_(Exec!vars)
  BY <1>4 DEF Resolve, ResolveRecords, Exec!Next
<1>5. CASE Ends
  BY <1>5 DEF Ends, Exec!Next
<1> QED
  BY <1>2, <1>3, <1>4, <1>5 DEF RuntimeNext

LEMMA RuntimeTyped == RuntimeSpec => [](TypeInv /\ PlacesInv /\ CallsInv /\ LostInv)
BY RuntimeImplementsCore, AlwaysCounted, AlwaysAccounted, PTL

\* The approval routes and the tool rounds drive the executor as its
\* specification allows: what is proved of it holds in the runtime.
THEOREM RuntimeImplementsExecutor == RuntimeSpec => Exec!Spec
<1>1. RuntimeInit => Exec!Init
  BY DEF RuntimeInit
<1> QED
  BY <1>1, ExecutorStep, RuntimeTyped, PTL DEF RuntimeSpec, Exec!Spec

LEMMA ExecutorAssumed ==
  /\ Ungranted \subseteq Calls
  /\ AutoApproved \subseteq Calls \ Ungranted
  /\ Policy \notin Deciders
  /\ None \notin Calls \cup Messages \cup Deciders \cup {Policy}
  /\ ("sink" \in FaultKinds) \in BOOLEAN
  /\ MaxFaults \in Nat
  /\ MaxStops \in Nat
BY RuntimeAssumption DEF Exec!ExecutorAssumption

LEMMA ExecutorIsProved == RuntimeSpec => Proved!Spec
<1>1. Exec!Init <=> Proved!Init
  BY DEF Exec!Init, Proved!Init
<1>2. [Exec!Next]_(Exec!vars) => [Proved!Next]_(Proved!vars)
  <2> USE DEF Exec!Take, Proved!Take, Exec!Audit, Proved!Audit, Exec!Raises, Proved!Raises,
         Exec!Appends, Proved!Appends, Exec!ToolCall, Proved!ToolCall, Exec!Idle, Proved!Idle,
         Exec!RunTool, Proved!RunTool, Exec!Decide, Proved!Decide, Exec!RunRecord,
         Proved!RunRecord, Exec!Outcomes, Proved!Outcomes
  <2>1. \A c, t, r : Exec!DenyAtLookup(c, t, r) <=> Proved!DenyAtLookup(c, t, r)
    BY DEF Exec!DenyAtLookup, Proved!DenyAtLookup
  <2>2. \A c, t, r : Exec!Park(c, t, r) <=> Proved!Park(c, t, r)
    BY DEF Exec!Park, Proved!Park
  <2>3. \A c, t : Exec!RunAtOnce(c, t) <=> Proved!RunAtOnce(c, t)
    BY DEF Exec!RunAtOnce, Proved!RunAtOnce
  <2>4. \A c, who : Exec!Approve(c, who) <=> Proved!Approve(c, who)
    BY DEF Exec!Approve, Proved!Approve
  <2>5. \A c, who, r : Exec!Deny(c, who, r) <=> Proved!Deny(c, who, r)
    BY DEF Exec!Deny, Proved!Deny
  <2>6. \A c, r : Exec!RecordRun(c, r) <=> Proved!RecordRun(c, r)
    BY DEF Exec!RecordRun, Proved!RecordRun, Exec!callVars, Proved!callVars
  <2>7. Exec!Restart <=> Proved!Restart
    BY DEF Exec!Restart, Proved!Restart
  <2>8. UNCHANGED Exec!vars <=> UNCHANGED Proved!vars
    BY DEF Exec!vars, Proved!vars, Exec!callVars, Proved!callVars
  <2>9. Exec!Quiet => UNCHANGED Proved!vars
    BY <2>8 DEF Exec!Quiet
  <2> QED
    BY <2>1, <2>2, <2>3, <2>4, <2>5, <2>6, <2>7, <2>8, <2>9 DEF Exec!Next, Proved!Next
<1> QED
  BY <1>1, <1>2, RuntimeImplementsExecutor, PTL DEF Exec!Spec, Proved!Spec

\* In the runtime too every record of a call names the turn that asked for it,
\* though the decision comes while another turn is in hand
\* (PendingCall.trigger).
THEOREM RuntimeRecordsAreAttributed == RuntimeSpec => []RecordsNameAskerAndDecider
<1>1. Proved!Spec => []Proved!RecordsNameAskerAndDecider
  BY ExecutorAssumed, Proved!RecordsAreAttributed
<1>2. Proved!RecordsNameAskerAndDecider <=> RecordsNameAskerAndDecider
  BY DEF Proved!RecordsNameAskerAndDecider, RecordsNameAskerAndDecider,
         Exec!RecordsNameAskerAndDecider
<1> QED
  BY <1>1, <1>2, ExecutorIsProved, PTL

(***************************************************************************)
(* Tool calls, rounds and recorded model calls                             *)
(***************************************************************************)

LEMMA ProductGrows ==
  ASSUME NEW a \in Nat, NEW b \in Nat, NEW c \in Nat, b <= c
  PROVE  /\ a * b \in Nat /\ a * c \in Nat
         /\ a * b <= a * c
         /\ a * (b + 1) = a * b + a
OBVIOUS

LEMMA RoundHasRoom ==
  ASSUME NEW a \in Nat, NEW b \in Nat, NEW t \in Nat, t <= b
  PROVE  a \in Int /\ a + b - t \in Int /\ a <= a + b - t
OBVIOUS

\* The calls the message in hand can have had asked for: MaxCalls a round, but
\* for those left of this one.  A tool that runs is counted by its call before
\* its result counts it off.
Asked ==
  IF pc = "tools" THEN MaxCalls * rounds - todo + (IF running = None THEN 0 ELSE 1)
  ELSE MaxCalls * rounds

CallsTyped == trigger \in [Calls -> Messages \cup {None}]

AskedInv == \A m \in Messages : current = m => Within(CallsOf(m), Asked)

\* A message the worker has not taken has no calls, and each its rounds' and its
\* recorded model calls' worth at most.
RoomInv ==
  \A m \in Messages :
    /\ ~Left(m) => CallsOf(m) = {}
    /\ Within(CallsOf(m), MaxCalls * MaxToolRounds)
    /\ Within(CallsOf(m), MaxCalls * recorded[m])

CoreInv == TypeInv /\ PlacesInv /\ CallsInv /\ LostInv

LEMMA CoreNumbers ==
  ASSUME CoreInv
  PROVE  /\ rounds \in Nat /\ rounds <= MaxToolRounds /\ MaxToolRounds \in Nat
         /\ todo \in Nat /\ todo <= MaxCalls /\ MaxCalls \in Nat \ {0}
         /\ pc = "tools" => todo > 0
         /\ recorded \in [Messages -> Nat]
<1>1. WorkerType /\ AuditType /\ CallsInHand
  BY TypeParts DEF CoreInv, TypeInv
<1> QED
  BY <1>1, CoreAssumption DEF WorkerType, AuditType, CallsInHand

\* In a round the calls of the rounds so far are recorded, every one.
LEMMA RoundsAreRecorded ==
  ASSUME CoreInv, NEW m \in Messages, current = m, pc \in {"turn", "tools"}
  PROVE  recorded[m] = rounds
<1>1. begun[m] = rounds
  BY CoreAssumption, CoreNumbers DEF CoreInv, CallsInv
<1>2. Unrecorded(m) = 0
  BY DEF CoreInv, LostInv
<1>3. begun[m] \in Nat /\ recorded[m] \in Nat
  <2>1. AuditType
    BY TypeParts DEF CoreInv, TypeInv
  <2> QED
    BY <2>1 DEF AuditType
<1> QED
  BY <1>1, <1>2, <1>3 DEF Unrecorded, InFlight

\* What a message is allowed only grows, so one whose calls a step leaves alone
\* keeps within it.
LEMMA RecordsGrow ==
  ASSUME CoreInv, CoreInv', [Next]_vars, NEW m \in Messages
  PROVE  recorded[m] <= recorded'[m]
<1>0. recorded \in [Messages -> Nat]
  BY CoreNumbers
<1>1. ASSUME UNCHANGED recorded
      PROVE  recorded[m] <= recorded'[m]
  BY <1>0, <1>1
<1>2. ASSUME NEW x \in Messages, Channel(x)
      PROVE  recorded[m] <= recorded'[m]
  BY <1>1, <1>2 DEF Channel, Post, Forbid, Respond, ReplyTimeout, Disconnect, Leave, auditVars
<1>3. CASE Dequeue \/ LoadFails \/ Command \/ Hear \/ Answer
  BY <1>1, <1>3 DEF Dequeue, LoadFails, Command, Hear, Answer, auditVars
<1>4. CASE BudgetVerdict \/ ProviderReturns \/ RecordRaises
  BY <1>1, <1>4 DEF BudgetVerdict, BudgetRefuses, BudgetAllows, BudgetWarns, BeginCall,
       ProviderReturns, RecordRaises, auditVars
<1>5. CASE RecordCall \/ RecordError
  BY <1>0, <1>5 DEF RecordCall, RecordError, NoteCall
<1>6. CASE BeginTools \/ Tool
  BY <1>1, <1>6 DEF BeginTools, Tool, ToolReturns, ToolRaises, auditVars
<1>7. CASE Process \/ Quiet \/ UNCHANGED vars
  BY <1>1, <1>7 DEF Process, Shutdown, Exit, Crash, Wipe, Boot, Quiet, vars, auditVars
<1> QED
  BY <1>2, <1>3, <1>4, <1>5, <1>6, <1>7 DEF Next, Worker, Turn, Model

LEMMA NotLeftBefore ==
  ASSUME CoreInv, [Next]_vars, NEW m \in Messages, ~Left(m)'
  PROVE  ~Left(m) /\ current # m
BY StepMoves DEF CoreInv, PlacesInv, Moves, OnePlace, Left

\* A step that asks for no call.
LEMMA UnaskedKeeps ==
  ASSUME CoreInv, CoreInv', RoomInv, [Next]_vars, UNCHANGED trigger
  PROVE  RoomInv'
<1> SUFFICES ASSUME NEW m \in Messages
             PROVE  /\ ~Left(m)' => CallsOf(m) = {}
                    /\ Within(CallsOf(m), MaxCalls * MaxToolRounds)
                    /\ Within(CallsOf(m), MaxCalls * recorded'[m])
  BY DEF RoomInv, CallsOf, Within
<1>1. recorded[m] \in Nat /\ recorded'[m] \in Nat /\ recorded[m] <= recorded'[m]
  <2>1. (AuditType)'
    BY TypePartsNext DEF CoreInv, TypeInv
  <2> QED
    BY <2>1, CoreNumbers, RecordsGrow DEF AuditType
<1>2. /\ MaxCalls * recorded[m] \in Int /\ MaxCalls * recorded'[m] \in Int
      /\ MaxCalls * recorded[m] <= MaxCalls * recorded'[m]
  <2>1. MaxCalls \in Nat
    BY CoreAssumption
  <2> QED
    BY <1>1, <2>1, ProductGrows
<1>3. Within(CallsOf(m), MaxCalls * recorded'[m])
  BY <1>2, FewerStayWithin DEF RoomInv
<1> QED
  BY <1>3, NotLeftBefore DEF RoomInv

\* A step that asks for one call more in a round.
LEMMA OneMoreAsked ==
  ASSUME CoreInv, AskedInv, RoomInv, CallsTyped, [Next]_vars, pc = "tools", running = None,
         NEW c \in Calls, trigger' = [trigger EXCEPT ![c] = current], UNCHANGED recorded
  PROVE  /\ RoomInv'
         /\ \A m \in Messages : current = m => Within(CallsOf(m)', Asked + 1)
<1> DEFINE room == MaxCalls * rounds
<1>1. \A m \in Messages : IF current = m THEN CallsOf(m)' \subseteq CallsOf(m) \cup {c}
                                         ELSE CallsOf(m)' \subseteq CallsOf(m)
  BY DEF CallsOf, CallsTyped
<1>2. room \in Nat /\ room <= MaxCalls * MaxToolRounds /\ MaxCalls * MaxToolRounds \in Nat
  BY CoreNumbers, ProductGrows
<1>3. todo \in Nat /\ todo > 0 /\ Asked = room - todo
  BY CoreNumbers DEF Asked
<1> HIDE DEF room
<1>4. Asked \in Int /\ Asked + 1 <= room /\ Asked + 1 \in Int /\ room \in Int
      /\ MaxCalls * MaxToolRounds \in Int
  BY <1>2, <1>3
<1>5. ASSUME NEW m \in Messages, current = m
      PROVE  /\ Within(CallsOf(m)', Asked + 1)
             /\ Within(CallsOf(m)', MaxCalls * MaxToolRounds)
             /\ Within(CallsOf(m)', MaxCalls * recorded[m])
  <2>1. Within(CallsOf(m)', Asked + 1)
    BY <1>1, <1>4, <1>5, OneMoreStaysWithin DEF AskedInv
  <2>2. Within(CallsOf(m)', room)
    BY <1>4, <2>1, FewerStayWithin
  <2>3. Within(CallsOf(m)', MaxCalls * MaxToolRounds)
    BY <1>2, <1>4, <2>2, FewerStayWithin
  <2>4. room = MaxCalls * recorded[m]
    BY <1>5, RoundsAreRecorded DEF room
  <2> QED
    BY <2>1, <2>2, <2>3, <2>4
<1>6. ASSUME NEW m \in Messages, current # m
      PROVE  /\ Within(CallsOf(m)', MaxCalls * MaxToolRounds)
             /\ Within(CallsOf(m)', MaxCalls * recorded[m])
             /\ ~Left(m) => CallsOf(m)' = {}
  <2>1. recorded[m] \in Nat /\ MaxCalls \in Nat
    BY CoreNumbers
  <2>2. MaxCalls * recorded[m] \in Int
    BY <2>1, ProductGrows
  <2>3. CallsOf(m)' \subseteq CallsOf(m)
    BY <1>1, <1>6
  <2>4. /\ Within(CallsOf(m)', MaxCalls * MaxToolRounds)
        /\ Within(CallsOf(m)', MaxCalls * recorded[m])
    BY <1>4, <2>2, <2>3, FewerStayWithin DEF RoomInv
  <2> QED
    BY <2>3, <2>4 DEF RoomInv
<1>7. \A m \in Messages : ~Left(m)' => ~Left(m) /\ current # m
  BY NotLeftBefore
<1>8. RoomInv'
  BY <1>5, <1>6, <1>7 DEF RoomInv, Within
<1> QED
  BY <1>5, <1>8

\* What the message in hand may have asked for only grows with its steps, and is
\* nothing when the worker takes it.
LEMMA CoreStepAsks ==
  ASSUME CoreInv, CoreInv', AskedInv, RoomInv, CoreStep
  PROVE  AskedInv'
<1>1. running = None /\ running' = None /\ UNCHANGED trigger
  BY DEF CoreStep, Exec!Idle, callVars
<1>2. \A m \in Messages : CallsOf(m)' = CallsOf(m)
  BY <1>1 DEF CallsOf
<1>3. /\ rounds \in Nat /\ MaxCalls \in Nat /\ todo \in Nat /\ None \notin Messages
      /\ MaxCalls * rounds \in Nat /\ MaxCalls * (rounds + 1) = MaxCalls * rounds + MaxCalls
      /\ MaxCalls * 0 = 0
  BY CoreNumbers, CoreAssumption, ProductGrows
<1>4. ASSUME current' = None
      PROVE  AskedInv'
  BY <1>3, <1>4 DEF AskedInv
<1>5. ASSUME UNCHANGED <<current, rounds>>, pc # "tools", pc' # "tools"
      PROVE  AskedInv'
  BY <1>2, <1>5 DEF AskedInv, Asked, Within
<1>6. ASSUME UNCHANGED <<current, rounds, pc, todo>>
      PROVE  AskedInv'
  BY <1>1, <1>2, <1>6 DEF AskedInv, Asked, Within
<1>7. ASSUME NEW m \in Messages, Channel(m)
      PROVE  AskedInv'
  BY <1>6, <1>7 DEF Channel, Post, Forbid, Respond, ReplyTimeout, Disconnect, Leave, workerVars
<1>8. CASE Dequeue
  <2>1. current' = Head(queue) /\ pc' = "begin" /\ pc \in {"idle", "get"} /\ rounds' = rounds
    BY <1>8 DEF Dequeue
  <2>2. rounds = 0
    BY <2>1 DEF CoreInv, CallsInv
  <2>3. \A m \in Messages : current' = m => CallsOf(m) = {}
    <3>1. queue \in Seq(Messages) /\ queue # <<>>
      BY <1>8 DEF Dequeue, CoreInv, TypeInv, TypeOK
    <3>2. 1 \in DOMAIN queue /\ queue[1] = current'
      BY <2>1, <3>1
    <3> QED
      BY <3>2 DEF RoomInv, Left, Queued
  <2>4. Asked' = 0 /\ Within({}, 0)
    BY <1>3, <2>1, <2>2, FS_EmptySet DEF Asked, Within
  <2> QED
    BY <1>2, <2>3, <2>4 DEF AskedInv, Within
<1>9. CASE LoadFails \/ Command \/ Hear \/ Answer
  BY <1>4, <1>5, <1>9 DEF LoadFails, Command, Hear, HearFails, Answer, FailTurn, EndTurn, Goto,
       AfterHear
<1>10. CASE Model \/ ProviderReturns
  BY <1>4, <1>5, <1>10
  DEF Model, BudgetVerdict, BudgetRefuses, BudgetAllows, BudgetWarns, BeginCall, RecordCall,
      RecordError, RecordRaises, ProviderReturns, FailTurn, EndTurn, Goto
<1>11. CASE BeginTools
  <2>1. CASE FailTurn
    BY <1>4, <2>1 DEF FailTurn, EndTurn
  <2>2. CASE rounds' = rounds + 1 /\ todo' \in 1 .. MaxCalls /\ pc' = "tools" /\ current' = current
    <3>1. Asked = MaxCalls * rounds
      BY <1>11 DEF BeginTools, Asked
    <3>2. Asked' = MaxCalls * rounds + MaxCalls - todo'
      BY <1>1, <1>3, <2>2 DEF Asked
    <3>3. Asked \in Int /\ Asked' \in Int /\ Asked <= Asked'
      <4>1. todo' \in Nat /\ todo' <= MaxCalls
        BY <1>3, <2>2
      <4> QED
        BY <1>3, <3>1, <3>2, <4>1, RoundHasRoom
    <3> QED
      BY <1>2, <2>2, <3>3, FewerStayWithin DEF AskedInv, Within
  <2> QED
    BY <1>11, <2>1, <2>2 DEF BeginTools
<1>12. CASE Shutdown
  BY <1>4, <1>12 DEF Shutdown
<1>13. CASE Boot \/ Quiet
  BY <1>6, <1>13 DEF Boot, Quiet, vars, workerVars
<1> QED
  BY <1>7, <1>8, <1>9, <1>10, <1>11, <1>12, <1>13 DEF CoreStep, Turn

LEMMA RoomStep ==
  ASSUME CoreInv, CoreInv', CallsTyped, AskedInv, RoomInv, [RuntimeNext]_allVars
  PROVE  AskedInv' /\ RoomInv'
<1>1. [Next]_vars
  BY RuntimeStep
<1>2. UNCHANGED trigger => RoomInv'
  BY <1>1, UnaskedKeeps
<1>3. ASSUME UNCHANGED <<trigger, current, rounds, todo, pc>>, pc # "tools" \/ UNCHANGED running
      PROVE  AskedInv' /\ RoomInv'
  BY <1>2, <1>3 DEF AskedInv, Asked, CallsOf, Within
<1>4. CASE CoreStep
  BY <1>2, <1>4, CoreStepAsks DEF CoreStep, callVars
<1>5. ASSUME NEW c \in Calls, pc = "tools",
             Exec!DenyAtLookup(c, current, FALSE) \/ Exec!Park(c, current, FALSE)
               \/ Exec!DenyAtLookup(c, current, TRUE) \/ Exec!Park(c, current, TRUE)
               \/ Exec!RunAtOnce(c, current),
             UNCHANGED recorded
      PROVE  RoomInv' /\ \A m \in Messages : current = m => Within(CallsOf(m)', Asked + 1)
  <2>1. running = None /\ trigger' = [trigger EXCEPT ![c] = current]
    BY <1>5 DEF Exec!DenyAtLookup, Exec!Park, Exec!RunAtOnce, Exec!Take, Exec!Idle
  <2> QED
    BY <1>1, <1>5, <2>1, OneMoreAsked
<1>6. /\ rounds \in Nat /\ todo \in Nat /\ MaxCalls * rounds \in Nat
      /\ pc = "tools" => todo > 0
      /\ None \notin Messages /\ None \notin Calls
  BY CoreNumbers, CoreAssumption, ProductGrows, ExecutorAssumed
<1>7. ASSUME NEW c \in Calls, ExecuteReturns(c)
      PROVE  AskedInv' /\ RoomInv'
  <2>1. /\ pc = "tools" /\ todo' = todo - 1 /\ UNCHANGED <<recorded, current, rounds>>
        /\ pc' = IF todo = 1 THEN "turn" ELSE "tools"
    BY <1>7 DEF ExecuteReturns, ToolReturns, AskAgain, auditVars
  <2>2. CASE Exec!DenyAtLookup(c, current, FALSE) \/ Exec!Park(c, current, FALSE)
    <3>1. running = None /\ running' = None
      BY <2>2 DEF Exec!DenyAtLookup, Exec!Park, Exec!Take, Exec!Idle
    <3>2. Asked' = Asked + 1
      BY <1>6, <2>1, <3>1 DEF Asked
    <3> QED
      BY <1>5, <2>1, <2>2, <3>2 DEF AskedInv, Within
  <2>3. CASE Exec!RecordRun(c, FALSE)
    <3>1. running # None /\ running' = None /\ UNCHANGED trigger
      BY <1>6, <2>3 DEF Exec!RecordRun, Exec!callVars
    <3>2. Asked' = Asked
      BY <1>6, <2>1, <3>1 DEF Asked
    <3> QED
      BY <1>2, <2>1, <3>1, <3>2 DEF AskedInv, CallsOf, Within
  <2> QED
    BY <1>7, <2>2, <2>3 DEF ExecuteReturns
<1>8. ASSUME NEW c \in Calls, ExecuteRaises(c)
      PROVE  AskedInv' /\ RoomInv'
  <2>1. pc = "tools" /\ current' = None /\ UNCHANGED recorded
    BY <1>8 DEF ExecuteRaises, ToolRaises, FailTurn, EndTurn, auditVars
  <2>2. RoomInv'
    BY <1>2, <1>5, <1>8, <2>1 DEF ExecuteRaises, Exec!RecordRun, Exec!callVars
  <2> QED
    BY <1>6, <2>1, <2>2 DEF AskedInv
<1>9. ASSUME NEW c \in Calls, ExecuteRuns(c)
      PROVE  AskedInv' /\ RoomInv'
  <2>1. pc = "tools" /\ Exec!RunAtOnce(c, current)
        /\ UNCHANGED <<recorded, current, rounds, todo, pc>>
    BY <1>9 DEF ExecuteRuns, vars, workerVars, auditVars
  <2>2. running = None /\ running' # None
    BY <1>6, <2>1 DEF Exec!RunAtOnce, Exec!Take, Exec!Idle, Exec!RunTool
  <2>3. Asked' = Asked + 1
    BY <1>6, <2>1, <2>2 DEF Asked
  <2> QED
    BY <1>5, <2>1, <2>3 DEF AskedInv, Within
<1>10. ASSUME NEW c \in Calls, Resolve(c) \/ ResolveRecords(c)
       PROVE  AskedInv' /\ RoomInv'
  <2>1. LoopFree /\ UNCHANGED <<vars, trigger>>
    BY <1>10 DEF Resolve, ResolveRecords, Exec!Approve, Exec!Deny, Exec!Decide, Exec!RecordRun,
         Exec!callVars
  <2> QED
    BY <1>3, <2>1 DEF LoopFree, vars, workerVars
<1>11. CASE Ends
  BY <1>2, <1>6, <1>11 DEF Ends, Crash, Exit, Wipe, Exec!Restart, AskedInv
<1>12. CASE UNCHANGED allVars
  BY <1>3, <1>12 DEF allVars, vars, workerVars, callVars
<1> QED
  BY <1>4, <1>7, <1>8, <1>9, <1>10, <1>11, <1>12 DEF RuntimeNext

LEMMA AlwaysCallsTyped == RuntimeSpec => []CallsTyped
<1>1. Proved!Spec => []Proved!TypeOK
  BY ExecutorAssumed, Proved!TypeCorrect
<1>2. Proved!TypeOK => CallsTyped
  BY DEF Proved!TypeOK, CallsTyped
<1> QED
  BY <1>1, <1>2, ExecutorIsProved, PTL

LEMMA AlwaysRoom == RuntimeSpec => [](CoreInv /\ RoomInv)
<1>1. RuntimeInit => AskedInv /\ RoomInv
  <2> SUFFICES ASSUME RuntimeInit PROVE AskedInv /\ RoomInv
    OBVIOUS
  <2>1. \A m \in Messages : CallsOf(m) = {} /\ recorded[m] = 0 /\ current # m
    BY CoreAssumption, ExecutorAssumed DEF RuntimeInit, Init, Exec!Init, CallsOf
  <2>2. MaxCalls * 0 \in Nat /\ MaxCalls * MaxToolRounds \in Nat
    BY CoreAssumption, ProductGrows
  <2>3. Within({}, MaxCalls * 0) /\ Within({}, MaxCalls * MaxToolRounds)
    BY <2>2, FS_EmptySet DEF Within
  <2> QED
    BY <2>1, <2>3 DEF AskedInv, RoomInv
<1>2. RuntimeSpec => []CoreInv
  BY RuntimeTyped, PTL DEF CoreInv
<1> QED
  BY <1>1, <1>2, RoomStep, AlwaysCallsTyped, PTL DEF RuntimeSpec

\* Every tool call of a turn was asked for by a model call that is in the audit
\* log, whatever append raises (call_model appends before it returns).
THEOREM ToolsFollowRecords == RuntimeSpec => []ToolsFollowARecordedCall
<1>1. RoomInv => ToolsFollowARecordedCall
  BY DEF RoomInv, Within, ToolsFollowARecordedCall
<1> QED
  BY <1>1, AlwaysRoom, PTL

\* A message costs MAX_TOOL_ROUNDS rounds of tool calls and one model call more
\* at most.
THEOREM RoundsAreBounded == RuntimeSpec => []RoundsBoundCalls
<1>1. CoreInv /\ RoomInv => RoundsBoundCalls
  BY DEF CoreInv, CallsInv, RoomInv, Within, RoundsBoundCalls
<1> QED
  BY <1>1, AlwaysRoom, PTL

\* Charges, records and the order of the router's calls are kept while approval
\* routes and tools interleave with the turns.
THEOREM RuntimeKeepsBudgetAndRecords ==
  RuntimeSpec => /\ []ChargedIsAudited
                 /\ []UnrecordedByFaultOnly
                 /\ KeepsRouterProtocol
                 /\ []OneCallOvershoot
BY RuntimeImplementsCore, ChargesAreAudited, CallsAreRecorded, ProtocolIsKept, CoreBudgetHolds

(***************************************************************************)
(* Every tool run, from the transcript to the decision                     *)
(***************************************************************************)

\* A tool runs once at most, for a turn whose message is in its transcript, and
\* either names an autoApprove tool or was approved by a named person.
RunsAreAccountable ==
  \A c \in Calls : runs[c] > 0 =>
    /\ runs[c] = 1
    /\ trigger[c] \in Messages /\ Heard(trigger[c])
    /\ c \in AutoApproved \/ (phase[c] = "approved" /\ decider[c] \in Deciders)

\* The message of a turn that asked for a call is in the file.
AskersAreHeard == \A c \in Calls : trigger[c] \in Messages => Heard(trigger[c])

\* A message whose tool round is under way has been heard.
LEMMA RoundsAreHeard ==
  ASSUME TypeInv, TellingInv, pc = "tools"
  PROVE  current \in Messages /\ Heard(current)
<1>1. current \in Messages /\ SessionOf[current] \in Sessions
  BY InHandIsMessage, CoreAssumption DEF TypeInv
<1>2. OpenExchange = current /\ current # None
  BY <1>1, CoreAssumption DEF OpenExchange
<1> DEFINE d == db[SessionOf[current]]
<1>3. d \in Seq(Conversation!Turns)
  BY <1>1 DEF TypeInv, TypeOK, Store!TypeOK
<1>4. Len(d) > 0 /\ d[Len(d)] = Conversation!UserTurn(current)
  BY <1>2 DEF TellingInv, OpenIsLast
<1>5. Len(d) \in DOMAIN d
  BY <1>3, <1>4
<1> QED
  BY <1>1, <1>4, <1>5 DEF Heard, Conversation!Holds

LEMMA HeardStays ==
  ASSUME TypeInv, [Next]_vars, NEW m \in Messages, Heard(m)
  PROVE  Heard(m)'
BY HeldIsKept DEF Heard, Conversation!Holds, Conversation!UserTurn

\* A step takes a call up for the message in hand, or for none.
LEMMA StepTakesUp ==
  ASSUME CallsTyped, [RuntimeNext]_allVars
  PROVE  \A c \in Calls : trigger'[c] = trigger[c] \/ (pc = "tools" /\ trigger'[c] = current)
<1>1. ASSUME UNCHANGED trigger
      PROVE  \A c \in Calls : trigger'[c] = trigger[c]
  BY <1>1
<1>2. CASE CoreStep \/ UNCHANGED allVars
  BY <1>2 DEF CoreStep, allVars, callVars
<1>3. ASSUME NEW c \in Calls, ExecuteReturns(c) \/ ExecuteRaises(c) \/ ExecuteRuns(c)
      PROVE  \A x \in Calls : trigger'[x] = trigger[x] \/ (pc = "tools" /\ trigger'[x] = current)
  BY <1>3 DEF ExecuteReturns, ExecuteRaises, ExecuteRuns, ToolReturns, ToolRaises, CallsTyped,
       Exec!DenyAtLookup, Exec!Park, Exec!RunAtOnce, Exec!Take, Exec!RecordRun, Exec!callVars
<1>4. ASSUME NEW c \in Calls, Resolve(c) \/ ResolveRecords(c)
      PROVE  UNCHANGED trigger
  BY <1>4 DEF Resolve, ResolveRecords, Exec!Approve, Exec!Deny, Exec!Decide, Exec!RecordRun,
       Exec!callVars
<1>5. CASE Ends
  BY <1>5 DEF Ends, Exec!Restart
<1> QED
  BY <1>1, <1>2, <1>3, <1>4, <1>5 DEF RuntimeNext

LEMMA AskersStep ==
  ASSUME TypeInv, TellingInv, CallsTyped, AskersAreHeard, [RuntimeNext]_allVars
  PROVE  AskersAreHeard'
<1>1. [Next]_vars
  BY RuntimeStep
<1>2. ASSUME NEW c \in Calls, NEW m \in Messages, trigger'[c] = m
      PROVE  Heard(m)'
  <2>1. Heard(m)
    BY <1>2, StepTakesUp, RoundsAreHeard DEF AskersAreHeard
  <2> QED
    BY <1>1, <2>1, HeardStays
<1> QED
  BY <1>2 DEF AskersAreHeard, Heard, Conversation!Holds, Conversation!UserTurn

LEMMA AlwaysAskersHeard == RuntimeSpec => []AskersAreHeard
<1>1. RuntimeInit => AskersAreHeard
  BY ExecutorAssumed DEF RuntimeInit, Exec!Init, AskersAreHeard
<1>2. RuntimeSpec => [](TypeInv /\ TellingInv)
  BY RuntimeImplementsCore, AlwaysTelling, PTL DEF TranscriptInv
<1> QED
  BY <1>1, <1>2, AskersStep, AlwaysCallsTyped, PTL DEF RuntimeSpec

\* A tool runs at most once, for a turn whose message is in the file, and with
\* the spec's or a named person's approval: through decisions that come while
\* another turn is in hand, failed appends and inserts, SIGTERM, crash and
\* reboot (handle, execute, resolve).
THEOREM RuntimeRunsAreAccountable == RuntimeSpec => []RunsAreAccountable
<1>1. Proved!Spec => [](Proved!IInv /\ Proved!AutoIsListed)
  BY ExecutorAssumed, Proved!Soundness, Proved!AlwaysListed, PTL
<1>2. ASSUME Proved!IInv, Proved!AutoIsListed, AskersAreHeard
      PROVE  RunsAreAccountable
  <2> SUFFICES ASSUME NEW c \in Calls, runs[c] > 0
               PROVE  /\ runs[c] = 1
                      /\ trigger[c] \in Messages /\ Heard(trigger[c])
                      /\ c \in AutoApproved \/ (phase[c] = "approved" /\ decider[c] \in Deciders)
    BY DEF RunsAreAccountable
  <2>1. Proved!Sound(phase[c], trigger[c], decider[c], runs[c], log[c])
    BY <1>2 DEF Proved!IInv, Proved!CallSound
  <2>2. runs[c] \in Nat
    BY <1>2 DEF Proved!IInv, Proved!TypeOK
  <2>3. runs[c] = 1 /\ phase[c] \in {"auto", "approved"} /\ trigger[c] \in Messages
    BY <2>1, <2>2 DEF Proved!Sound
  <2>4. phase[c] = "approved" => decider[c] \in Deciders
    BY <2>1 DEF Proved!Sound
  <2>5. phase[c] = "auto" => c \in AutoApproved
    BY <1>2 DEF Proved!AutoIsListed
  <2> QED
    BY <1>2, <2>3, <2>4, <2>5 DEF AskersAreHeard
<1> QED
  BY <1>1, <1>2, ExecutorIsProved, AlwaysAskersHeard, PTL

=============================================================================
