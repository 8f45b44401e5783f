------------------------ MODULE ToolExecutor_proofs ------------------------
(***************************************************************************)
(* ToolExecutor for any sets of calls, triggers and deciders: a call runs  *)
(* at most once and only by the policy or a decision, its records name who *)
(* asked and who decided and tell one story, and the executor implements   *)
(* ApprovalGate.                                                           *)
(***************************************************************************)
EXTENDS ToolExecutor, FiniteSetTheorems, TLAPS

(***************************************************************************)
(* The inductive invariant.  What it says of one call depends on nothing   *)
(* but that call, so a step disturbs it for the call it is about only.     *)
(***************************************************************************)

\* No tool_call record yet: the call's story has not ended.
Unended(l) == \A i \in DOMAIN l : l[i].event = "approval"

\* A call in phase p, asked for by t, decided by d, that ran n times and left
\* the records l.
Sound(p, t, d, n, l) ==
  /\ n <= 1
  /\ n = 1 => p \in {"auto", "approved"}
  /\ p = "new" => l = <<>>
  /\ p # "new" => t \in Triggers
  /\ p \in {"approved", "refused"} => d \in Deciders
  /\ p = "pending" => Unended(l)
  /\ \A i \in DOMAIN l :
       /\ l[i].trigger = t
       /\ l[i].event = "approval" => i = 1
       /\ l[i].event = "tool_call" =>
            /\ i = Len(l)
            /\ (l[i].status = "denied") <=> (n = 0)
            /\ l[i].required => l[i].decided_by = d
            /\ ~l[i].required => l[i].decided_by = Policy

CallSound(c) == Sound(phase[c], trigger[c], decider[c], runs[c], log[c])

\* The call whose tool has returned: its record is still to come.
RunningSound ==
  running # None =>
    /\ phase[running] \in {"auto", "approved"}
    /\ outcome \in Outcomes
    /\ (outcome = "denied") <=> (runs[running] = 0)
    /\ Unended(log[running])

IInv == TypeOK /\ (\A c \in Calls : CallSound(c)) /\ RunningSound

(***************************************************************************)
(* Lemmas about one call's records                                         *)
(***************************************************************************)

\* The approval event is the first record of a call (execute, the park path).
LEMMA ParkIsSound ==
  ASSUME NEW t \in Triggers, NEW d, NEW r \in Record,
         r.event = "approval", r.trigger = t
  PROVE  /\ Sound("pending", t, d, 0, <<>>)
         /\ Sound("pending", t, d, 0, Append(<<>>, r))
<1>1. Append(<<>>, r) = <<r>>
  OBVIOUS
<1>2. \A i \in DOMAIN <<r>> : i = 1 /\ <<r>>[i] = r
  OBVIOUS
<1>3. r.event # "tool_call"
  OBVIOUS
<1>4. Unended(<<r>>) /\ Unended(<<>>)
  BY <1>2 DEF Unended
<1> QED
  BY <1>1, <1>2, <1>3, <1>4 DEF Sound

\* A tool_call record ends the story of a call that has none (_audit_call).
LEMMA EndIsSound ==
  ASSUME NEW p, NEW t, NEW d, NEW n, NEW l \in Seq(Record), NEW r \in Record,
         Sound(p, t, d, n, l), p \notin {"new", "pending"}, Unended(l),
         r.event = "tool_call", r.trigger = t,
         (r.status = "denied") <=> (n = 0),
         r.required => r.decided_by = d,
         ~r.required => r.decided_by = Policy
  PROVE  Sound(p, t, d, n, Append(l, r))
<1> DEFINE m == Append(l, r)
<1>1. Len(m) = Len(l) + 1 /\ DOMAIN m = 1 .. Len(m) /\ DOMAIN l = 1 .. Len(l)
  OBVIOUS
<1>2. m[Len(m)] = r /\ \A i \in DOMAIN l : m[i] = l[i]
  OBVIOUS
<1>3. \A i \in DOMAIN m : i = Len(m) \/ i \in DOMAIN l
  BY <1>1
<1>4. \A i \in DOMAIN l : /\ m[i].event = "approval" /\ i = 1
                          /\ m[i].trigger = t
  BY <1>2 DEF Sound, Unended
<1> HIDE DEF m
<1> QED
  BY <1>2, <1>3, <1>4 DEF Sound, m

\* What one append does to the log, written or raised.
LEMMA AuditLogs ==
  ASSUME TypeOK, NEW c \in Calls, NEW r \in Record, NEW raises \in BOOLEAN,
         Audit(c, r, raises)
  PROVE  /\ log' \in [Calls -> Seq(Record)]
         /\ log'[c] = log[c] \/ log'[c] = Append(log[c], r)
         /\ \A x \in Calls : x # c => log'[x] = log[x]
         /\ faults' \in 0 .. MaxFaults
<1>1. CASE raises
  BY <1>1, ExecutorAssumption DEF Audit, Raises, TypeOK
<1>2. CASE ~raises
  <2>1. log' = [log EXCEPT ![c] = Append(log[c], r)] /\ faults' = faults
    BY <1>2 DEF Audit, Appends
  <2>2. Append(log[c], r) \in Seq(Record)
    BY DEF TypeOK
  <2> QED
    BY <2>1, <2>2 DEF TypeOK
<1> QED
  BY <1>1, <1>2

\* What taking up a call does (_lookup, execute).
LEMMA TakeTakes ==
  ASSUME TypeOK, NEW c \in Calls, NEW t \in Triggers, NEW to, Take(c, t, to)
  PROVE  /\ running = None /\ phase[c] = "new"
         /\ phase'[c] = to /\ trigger'[c] = t
         /\ \A x \in Calls : x # c => phase'[x] = phase[x] /\ trigger'[x] = trigger[x]
         /\ trigger' \in [Calls -> Triggers \cup {None}]
         /\ stops' = stops
BY DEF Take, Idle, TypeOK

\* What a decision does (resolve).
LEMMA DecideDecides ==
  ASSUME TypeOK, NEW c \in Calls, NEW who \in Deciders, NEW to, Decide(c, to, who)
  PROVE  /\ running = None /\ phase[c] = "pending"
         /\ phase'[c] = to /\ decider'[c] = who
         /\ \A x \in Calls : x # c => phase'[x] = phase[x] /\ decider'[x] = decider[x]
         /\ decider' \in [Calls -> Deciders \cup {None}]
         /\ trigger' = trigger /\ stops' = stops
BY DEF Decide, Idle, TypeOK

\* What the return of a tool does (_run).
LEMMA RunToolRuns ==
  ASSUME TypeOK, NEW c \in Calls, runs[c] = 0, RunTool(c)
  PROVE  /\ running' = c /\ outcome' \in Outcomes
         /\ runs'[c] \in {0, 1}
         /\ (outcome' = "denied") <=> (runs'[c] = 0)
         /\ \A x \in Calls : x # c => runs'[x] = runs[x]
         /\ runs' \in [Calls -> Nat]
<1>1. PICK result \in Outcomes :
        /\ running' = c
        /\ outcome' = result
        /\ runs' = IF result = "denied" THEN runs ELSE [runs EXCEPT ![c] = @ + 1]
  BY DEF RunTool
<1>2. CASE result = "denied"
  BY <1>1, <1>2 DEF TypeOK
<1>3. CASE result # "denied"
  BY <1>1, <1>3 DEF TypeOK
<1> QED
  BY <1>2, <1>3

(***************************************************************************)
(* The invariant is inductive                                              *)
(***************************************************************************)

\* A call that a step leaves alone stays sound.
LEMMA OthersStaySound ==
  ASSUME NEW x \in Calls, CallSound(x),
         phase'[x] = phase[x], trigger'[x] = trigger[x], decider'[x] = decider[x],
         runs'[x] = runs[x], log'[x] = log[x]
  PROVE  CallSound(x)'
<1>1. Sound(phase'[x], trigger'[x], decider'[x], runs'[x], log'[x])
  BY DEF CallSound
<1> QED
  BY <1>1 DEF CallSound

\* A new call has no record and has not run.
LEMMA NewIsFresh ==
  ASSUME IInv, NEW c \in Calls, phase[c] = "new"
  PROVE  log[c] = <<>> /\ runs[c] = 0
<1>1. CallSound(c) /\ runs[c] \in Nat
  BY DEF IInv, TypeOK
<1>2. log[c] = <<>> /\ runs[c] <= 1 /\ runs[c] # 1
  BY <1>1 DEF CallSound, Sound
<1> QED
  BY <1>1, <1>2

\* execute refuses the call at lookup.
LEMMA DenyAtLookupKeeps ==
  ASSUME IInv, NEW c \in Calls, NEW t \in Triggers, NEW raises \in BOOLEAN,
         DenyAtLookup(c, t, raises)
  PROVE  IInv'
<1> DEFINE r == ToolCall("denied", t, FALSE, Policy)
<1>1. TypeOK /\ r \in Record
  BY DEF IInv, ToolCall, Record, Outcomes
<1>2. Take(c, t, "denied") /\ Audit(c, r, raises) /\ UNCHANGED <<decider, running, outcome, runs>>
  BY DEF DenyAtLookup
<1>3. /\ running = None /\ phase[c] = "new" /\ phase'[c] = "denied" /\ trigger'[c] = t
      /\ \A x \in Calls : x # c => phase'[x] = phase[x] /\ trigger'[x] = trigger[x]
      /\ trigger' \in [Calls -> Triggers \cup {None}] /\ stops' = stops
  BY <1>1, <1>2, TakeTakes
<1>4. /\ log' \in [Calls -> Seq(Record)]
      /\ log'[c] = log[c] \/ log'[c] = Append(log[c], r)
      /\ \A x \in Calls : x # c => log'[x] = log[x]
      /\ faults' \in 0 .. MaxFaults
  BY <1>1, <1>2, AuditLogs
<1>5. log[c] = <<>> /\ runs[c] = 0
  BY <1>3, NewIsFresh
<1>6. Sound("denied", t, decider[c], 0, <<>>) /\ Unended(<<>>)
  <2>1. \A i \in DOMAIN <<>> : FALSE
    OBVIOUS
  <2>2. 0 <= 1 /\ 0 # 1
    OBVIOUS
  <2> QED
    BY <2>1, <2>2 DEF Sound, Unended
<1>7. Sound("denied", t, decider[c], 0, Append(<<>>, r))
  <2>1. /\ r.event = "tool_call" /\ r.trigger = t /\ r.status = "denied"
        /\ ~r.required /\ r.decided_by = Policy
    BY DEF ToolCall
  <2>2. <<>> \in Seq(Record) /\ "denied" \notin {"new", "pending"}
    OBVIOUS
  <2> HIDE DEF r
  <2> QED
    BY <1>1, <1>6, <2>1, <2>2, EndIsSound
<1> HIDE DEF r
<1>8. CallSound(c)'
  BY <1>2, <1>3, <1>4, <1>5, <1>6, <1>7 DEF CallSound
<1>9. \A x \in Calls : CallSound(x)'
  BY <1>2, <1>3, <1>4, <1>8, OthersStaySound DEF IInv
<1>10. TypeOK'
  BY <1>1, <1>2, <1>3, <1>4 DEF TypeOK, Take
<1> QED
  BY <1>2, <1>3, <1>9, <1>10 DEF IInv, RunningSound

\* execute parks the call: its approval event is the first record it has.
LEMMA ParkKeeps ==
  ASSUME IInv, NEW c \in Calls, NEW t \in Triggers, NEW raises \in BOOLEAN,
         Park(c, t, raises)
  PROVE  IInv'
<1> DEFINE r == [event |-> "approval", status |-> "pending_approval", trigger |-> t]
<1>1. TypeOK /\ r \in Record
  BY DEF IInv, Record
<1>2. Take(c, t, "pending") /\ Audit(c, r, raises) /\ UNCHANGED <<decider, running, outcome, runs>>
  BY DEF Park
<1>3. /\ running = None /\ phase[c] = "new" /\ phase'[c] = "pending" /\ trigger'[c] = t
      /\ \A x \in Calls : x # c => phase'[x] = phase[x] /\ trigger'[x] = trigger[x]
      /\ trigger' \in [Calls -> Triggers \cup {None}] /\ stops' = stops
  BY <1>1, <1>2, TakeTakes
<1>4. /\ log' \in [Calls -> Seq(Record)]
      /\ log'[c] = log[c] \/ log'[c] = Append(log[c], r)
      /\ \A x \in Calls : x # c => log'[x] = log[x]
      /\ faults' \in 0 .. MaxFaults
  BY <1>1, <1>2, AuditLogs
<1>5. log[c] = <<>> /\ runs[c] = 0
  BY <1>3, NewIsFresh
<1>6. r.event = "approval" /\ r.trigger = t
  OBVIOUS
<1> HIDE DEF r
<1>7. /\ Sound("pending", t, decider[c], 0, <<>>)
      /\ Sound("pending", t, decider[c], 0, Append(<<>>, r))
  BY <1>1, <1>6, ParkIsSound
<1>8. CallSound(c)'
  BY <1>2, <1>3, <1>4, <1>5, <1>7 DEF CallSound
<1>9. \A x \in Calls : CallSound(x)'
  BY <1>2, <1>3, <1>4, <1>8, OthersStaySound DEF IInv
<1>10. TypeOK'
  BY <1>1, <1>2, <1>3, <1>4 DEF TypeOK, Take
<1> QED
  BY <1>2, <1>3, <1>9, <1>10 DEF IInv, RunningSound

\* execute runs an autoApprove tool.
LEMMA RunAtOnceKeeps ==
  ASSUME IInv, NEW c \in Calls, NEW t \in Triggers, RunAtOnce(c, t)
  PROVE  IInv'
<1>1. TypeOK /\ Take(c, t, "auto") /\ RunTool(c) /\ UNCHANGED <<decider, log, faults>>
  BY DEF IInv, RunAtOnce
<1>2. /\ running = None /\ phase[c] = "new" /\ phase'[c] = "auto" /\ trigger'[c] = t
      /\ \A x \in Calls : x # c => phase'[x] = phase[x] /\ trigger'[x] = trigger[x]
      /\ trigger' \in [Calls -> Triggers \cup {None}] /\ stops' = stops
  BY <1>1, TakeTakes
<1>3. log[c] = <<>> /\ runs[c] = 0
  BY <1>2, NewIsFresh
<1>4. /\ running' = c /\ outcome' \in Outcomes /\ runs'[c] \in {0, 1}
      /\ (outcome' = "denied") <=> (runs'[c] = 0)
      /\ \A x \in Calls : x # c => runs'[x] = runs[x]
      /\ runs' \in [Calls -> Nat]
  BY <1>1, <1>3, RunToolRuns
<1>5. Sound("auto", t, decider[c], runs'[c], <<>>) /\ Unended(<<>>)
  BY <1>4 DEF Sound, Unended
<1>6. CallSound(c)'
  BY <1>1, <1>2, <1>3, <1>5 DEF CallSound
<1>7. \A x \in Calls : CallSound(x)'
  BY <1>1, <1>2, <1>4, <1>6, OthersStaySound DEF IInv
<1>8. TypeOK'
  BY <1>1, <1>2, <1>4 DEF TypeOK, Take
<1>9. RunningSound'
  BY <1>1, <1>2, <1>3, <1>4, <1>5 DEF RunningSound
<1> QED
  BY <1>7, <1>8, <1>9 DEF IInv

\* What is known of a call that is decided: no tool_call record, no run.
LEMMA PendingIsOpen ==
  ASSUME IInv, NEW c \in Calls, phase[c] = "pending"
  PROVE  /\ runs[c] = 0 /\ Unended(log[c])
         /\ \A who \in Deciders, p \in {"approved", "refused"} :
              Sound(p, trigger[c], who, 0, log[c])
<1>1. CallSound(c) /\ TypeOK
  BY DEF IInv
<1>2. runs[c] = 0 /\ Unended(log[c])
  BY <1>1 DEF CallSound, Sound, TypeOK
<1>3. \A i \in DOMAIN log[c] : log[c][i].event # "tool_call"
  BY <1>2 DEF Unended
<1> QED
  BY <1>1, <1>2, <1>3 DEF CallSound, Sound

\* A parked call is refused by a decider.
LEMMA DenyKeeps ==
  ASSUME IInv, NEW c \in Calls, NEW who \in Deciders, NEW raises \in BOOLEAN,
         Deny(c, who, raises)
  PROVE  IInv'
<1> DEFINE r == ToolCall("denied", trigger[c], TRUE, who)
<1>1. Decide(c, "refused", who) /\ Audit(c, r, raises) /\ UNCHANGED <<running, outcome, runs>>
  BY DEF Deny
<1>2. TypeOK
  BY DEF IInv
<1>3. /\ running = None /\ phase[c] = "pending" /\ phase'[c] = "refused" /\ decider'[c] = who
      /\ \A x \in Calls : x # c => phase'[x] = phase[x] /\ decider'[x] = decider[x]
      /\ decider' \in [Calls -> Deciders \cup {None}]
      /\ trigger' = trigger /\ stops' = stops
  BY <1>1, <1>2, DecideDecides
<1>4. /\ runs[c] = 0 /\ Unended(log[c]) /\ log[c] \in Seq(Record)
      /\ Sound("refused", trigger[c], who, 0, log[c])
  BY <1>2, <1>3, PendingIsOpen DEF TypeOK
<1>5. trigger[c] \in Triggers
  BY <1>4 DEF Sound
<1>6. r \in Record
  BY <1>5 DEF ToolCall, Record, Outcomes
<1>7. /\ r.event = "tool_call" /\ r.trigger = trigger[c] /\ r.status = "denied"
      /\ r.required /\ r.decided_by = who
  BY DEF ToolCall
<1> HIDE DEF r
<1>8. Sound("refused", trigger[c], who, 0, Append(log[c], r))
  BY <1>4, <1>6, <1>7, EndIsSound
<1>9. /\ log' \in [Calls -> Seq(Record)]
      /\ log'[c] = log[c] \/ log'[c] = Append(log[c], r)
      /\ \A x \in Calls : x # c => log'[x] = log[x]
      /\ faults' \in 0 .. MaxFaults
  BY <1>1, <1>2, <1>6, AuditLogs
<1>10. CallSound(c)'
  BY <1>1, <1>3, <1>4, <1>8, <1>9 DEF CallSound
<1>11. \A x \in Calls : CallSound(x)'
  BY <1>1, <1>3, <1>9, <1>10, OthersStaySound DEF IInv
<1>12. TypeOK'
  BY <1>1, <1>2, <1>3, <1>9 DEF TypeOK, Decide
<1> QED
  BY <1>1, <1>3, <1>11, <1>12 DEF IInv, RunningSound

\* A parked call is approved and its tool runs.
LEMMA ApproveKeeps ==
  ASSUME IInv, NEW c \in Calls, NEW who \in Deciders, Approve(c, who)
  PROVE  IInv'
<1>1. TypeOK /\ Decide(c, "approved", who) /\ RunTool(c) /\ UNCHANGED <<log, faults>>
  BY DEF IInv, Approve
<1>2. /\ running = None /\ phase[c] = "pending" /\ phase'[c] = "approved" /\ decider'[c] = who
      /\ \A x \in Calls : x # c => phase'[x] = phase[x] /\ decider'[x] = decider[x]
      /\ decider' \in [Calls -> Deciders \cup {None}]
      /\ trigger' = trigger /\ stops' = stops
  BY <1>1, DecideDecides
<1>3. /\ runs[c] = 0 /\ Unended(log[c])
      /\ Sound("approved", trigger[c], who, 0, log[c])
  BY <1>2, PendingIsOpen
<1>4. /\ running' = c /\ outcome' \in Outcomes /\ runs'[c] \in {0, 1}
      /\ (outcome' = "denied") <=> (runs'[c] = 0)
      /\ \A x \in Calls : x # c => runs'[x] = runs[x]
      /\ runs' \in [Calls -> Nat]
  BY <1>1, <1>3, RunToolRuns
<1>5. \A i \in DOMAIN log[c] : log[c][i].event # "tool_call"
  BY <1>3 DEF Unended
<1>6. Sound("approved", trigger[c], who, runs'[c], log[c])
  BY <1>3, <1>4, <1>5 DEF Sound
<1>7. CallSound(c)'
  BY <1>1, <1>2, <1>6 DEF CallSound
<1>8. \A x \in Calls : CallSound(x)'
  BY <1>1, <1>2, <1>4, <1>7, OthersStaySound DEF IInv
<1>9. TypeOK'
  BY <1>1, <1>2, <1>4 DEF TypeOK, Decide
<1>10. RunningSound'
  BY <1>1, <1>2, <1>3, <1>4 DEF RunningSound
<1> QED
  BY <1>8, <1>9, <1>10 DEF IInv

\* The record of a tool that has returned.
LEMMA RecordRunKeeps ==
  ASSUME IInv, NEW c \in Calls, NEW raises \in BOOLEAN, RecordRun(c, raises)
  PROVE  IInv'
<1> DEFINE r == RunRecord(c)
<1>1. /\ running = c /\ Audit(c, r, raises) /\ running' = None /\ outcome' = None
      /\ UNCHANGED <<callVars, runs, stops>>
  BY DEF RecordRun
<1>2. TypeOK /\ CallSound(c) /\ c # None
  BY ExecutorAssumption DEF IInv
<1>3. /\ phase[c] \in {"auto", "approved"} /\ outcome \in Outcomes
      /\ (outcome = "denied") <=> (runs[c] = 0)
      /\ Unended(log[c])
  BY <1>1, <1>2 DEF IInv, RunningSound
<1>4. trigger[c] \in Triggers /\ (phase[c] = "approved" => decider[c] \in Deciders)
  BY <1>2, <1>3 DEF CallSound, Sound
<1>5. r \in Record
  BY <1>3, <1>4 DEF RunRecord, ToolCall, Record
<1>6. /\ r.event = "tool_call" /\ r.trigger = trigger[c] /\ r.status = outcome
      /\ r.required => r.decided_by = decider[c]
      /\ ~r.required => r.decided_by = Policy
  BY DEF RunRecord, ToolCall
<1> HIDE DEF r
<1>7. log[c] \in Seq(Record) /\ phase[c] \notin {"new", "pending"}
  BY <1>2, <1>3 DEF TypeOK
<1>8. (r.status = "denied") <=> (runs[c] = 0)
  BY <1>3, <1>6
<1>9. Sound(phase[c], trigger[c], decider[c], runs[c], Append(log[c], r))
  BY <1>2, <1>3, <1>5, <1>6, <1>7, <1>8, EndIsSound DEF CallSound
<1>10. /\ log' \in [Calls -> Seq(Record)]
       /\ log'[c] = log[c] \/ log'[c] = Append(log[c], r)
       /\ \A x \in Calls : x # c => log'[x] = log[x]
       /\ faults' \in 0 .. MaxFaults
  BY <1>1, <1>2, <1>5, AuditLogs
<1>11. UNCHANGED <<phase, trigger, decider, runs, stops>>
  BY <1>1 DEF callVars
<1>12. CallSound(c)'
  BY <1>2, <1>9, <1>10, <1>11 DEF CallSound
<1>13. \A x \in Calls : CallSound(x)'
  BY <1>10, <1>11, <1>12, OthersStaySound DEF IInv
<1>14. TypeOK'
  BY <1>1, <1>2, <1>10, <1>11 DEF TypeOK
<1> QED
  BY <1>1, <1>13, <1>14 DEF IInv, RunningSound

\* A restart loses what was parked and the tool that was running.
LEMMA RestartKeeps ==
  ASSUME IInv, Restart
  PROVE  IInv'
<1>1. /\ TypeOK
      /\ phase' = [c \in Calls |-> IF phase[c] = "pending" THEN "lost" ELSE phase[c]]
      /\ running' = None /\ outcome' = None
      /\ UNCHANGED <<trigger, decider, runs, log, faults>>
      /\ stops < MaxStops /\ stops' = stops + 1
  BY DEF IInv, Restart
<1>2. ASSUME NEW x \in Calls
      PROVE  CallSound(x)'
  <2>1. CallSound(x)
    BY DEF IInv
  <2>2. CASE phase[x] = "pending"
    <3>1. phase'[x] = "lost"
      BY <1>1, <2>2
    <3> QED
      BY <1>1, <2>1, <2>2, <3>1 DEF CallSound, Sound
  <2>3. CASE phase[x] # "pending"
    BY <1>1, <2>1, <2>3, OthersStaySound
  <2> QED
    BY <2>2, <2>3
<1>3. TypeOK'
  BY <1>1, ExecutorAssumption DEF TypeOK
<1> QED
  BY <1>1, <1>2, <1>3 DEF IInv, RunningSound

LEMMA InitSound == Init => IInv
<1> SUFFICES ASSUME Init PROVE IInv
  OBVIOUS
<1>1. TypeOK
  BY ExecutorAssumption DEF Init, TypeOK
<1>2. \A c \in Calls : CallSound(c)
  BY DEF Init, CallSound, Sound
<1> QED
  BY <1>1, <1>2 DEF Init, IInv, RunningSound

LEMMA NextKeeps == IInv /\ [Next]_vars => IInv'
<1> SUFFICES ASSUME IInv, [Next]_vars PROVE IInv'
  OBVIOUS
<1>1. CASE UNCHANGED vars
  BY <1>1 DEF vars, callVars, IInv, TypeOK, CallSound, RunningSound
<1> QED
  BY <1>1, DenyAtLookupKeeps, ParkKeeps, RunAtOnceKeeps, ApproveKeeps, DenyKeeps,
     RecordRunKeeps, RestartKeeps
  DEF Next, Quiet

(***************************************************************************)
(* What follows for every reachable state                                  *)
(***************************************************************************)

\* IInv holds in every reachable state.
THEOREM Soundness == Spec => []IInv
BY InitSound, NextKeeps, PTL DEF Spec

\* The executor's state has its type in every reachable state.
THEOREM TypeCorrect == Spec => []TypeOK
<1>1. IInv => TypeOK
  BY DEF IInv
<1> QED
  BY <1>1, Soundness, PTL

\* However often a call is decided, its tool runs at most once, and only by the
\* policy or after a decision (resolve's state check, before the tool runs).
THEOREM NoCallRunsTwice == Spec => []RunsAtMostOnce
<1>1. IInv => RunsAtMostOnce
  BY DEF IInv, CallSound, Sound, RunsAtMostOnce
<1> QED
  BY <1>1, Soundness, PTL

\* Every record of a call names the turn that asked for it, and the person who
\* decided it or the policy (PendingCall.trigger, _run).
THEOREM RecordsAreAttributed == Spec => []RecordsNameAskerAndDecider
<1>1. IInv => RecordsNameAskerAndDecider
  BY DEF IInv, CallSound, Sound, RecordsNameAskerAndDecider
<1> QED
  BY <1>1, Soundness, PTL

\* The records of a call tell one story, and it is what happened: at most one
\* approval event, then at most one tool_call, a denial exactly when the tool
\* did not run (execute, resolve, _run).
THEOREM OneStoryIsTold == Spec => []OneStoryPerCall
<1>1. IInv => OneStoryPerCall
  BY DEF IInv, CallSound, Sound, OneStoryPerCall
<1> QED
  BY <1>1, Soundness, PTL

(***************************************************************************)
(* The executor implements the approval gate                               *)
(***************************************************************************)

\* The initial states are the gate's.
LEMMA GateInit == Init => Gate!Init
BY DEF Init, Gate!Init, GateOf, OpenedBy

\* A call refused at lookup, or by a decider, is shut.
LEMMA ShutsGate ==
  ASSUME IInv, NEW c \in Calls, NEW to \in {"denied", "refused"},
         phase[c] \in {"new", "pending"}, phase'[c] = to,
         \A x \in Calls : x # c => phase'[x] = phase[x] /\ decider'[x] = decider[x],
         runs' = runs
  PROVE  Gate!Shut(c)
<1>1. GateOf[phase[c]] \in {"none", "parked"} /\ GateOf[phase'[c]] = "shut"
  BY DEF GateOf
<1>2. \A x \in Calls : x # c => OpenedBy(x)' = OpenedBy(x)
  BY DEF OpenedBy
<1>3. OpenedBy(c) = None /\ OpenedBy(c)' = None
  BY DEF OpenedBy
<1> QED
  BY <1>1, <1>2, <1>3 DEF Gate!Shut

\* A call the policy or a decider lets through opens the gate once.
LEMMA OpensGate ==
  ASSUME IInv, NEW c \in Calls, NEW who,
         \/ c \in AutoApproved /\ phase[c] = "new" /\ phase'[c] = "auto" /\ who = Policy
         \/ /\ phase[c] = "pending" /\ phase'[c] = "approved"
            /\ who \in Deciders /\ who = decider'[c],
         \A x \in Calls : x # c => phase'[x] = phase[x] /\ decider'[x] = decider[x],
         \A x \in Calls : x # c => runs'[x] = runs[x],
         runs[c] = 0, runs'[c] \in {0, 1}
  PROVE  Gate!Open(c, who)
<1>1. GateOf[phase'[c]] = "open"
  BY DEF GateOf
<1>2. \/ GateOf[phase[c]] = "none" /\ c \in AutoApproved /\ who = Policy
      \/ GateOf[phase[c]] = "parked" /\ who \in Deciders
  BY DEF GateOf
<1>3. \A x \in Calls : x # c => OpenedBy(x)' = OpenedBy(x)
  BY DEF OpenedBy
<1>4. OpenedBy(c)' = who
  BY DEF OpenedBy
<1>5. {x \in Calls : runs'[x] > 0} \in
        {{x \in Calls : runs[x] > 0}, {x \in Calls : runs[x] > 0} \cup {c}}
  <2>1. CASE runs'[c] = 0
    BY <2>1
  <2>2. CASE runs'[c] = 1
    BY <2>2
  <2> QED
    BY <2>1, <2>2
<1> QED
  BY <1>1, <1>2, <1>3, <1>4, <1>5 DEF Gate!Open

\* A parked call waits at the gate.
LEMMA ParksGate ==
  ASSUME IInv, NEW c \in Calls, c \notin AutoApproved,
         phase[c] = "new", phase'[c] = "pending",
         \A x \in Calls : x # c => phase'[x] = phase[x],
         decider' = decider, runs' = runs
  PROVE  Gate!Park(c)
<1>1. GateOf[phase[c]] = "none" /\ GateOf[phase'[c]] = "parked"
  BY DEF GateOf
<1>2. \A x \in Calls : OpenedBy(x)' = OpenedBy(x)
  BY DEF OpenedBy
<1> QED
  BY <1>1, <1>2 DEF Gate!Park

\* A restart shuts what was parked.
LEMMA LosesGate == IInv /\ Restart => Gate!Lose
<1> SUFFICES ASSUME IInv, Restart PROVE Gate!Lose
  OBVIOUS
<1>1. /\ phase' = [c \in Calls |-> IF phase[c] = "pending" THEN "lost" ELSE phase[c]]
      /\ decider' = decider /\ runs' = runs
      /\ phase \in [Calls -> {"new", "denied", "auto", "pending", "approved",
                              "refused", "lost"}]
  BY DEF Restart, IInv, TypeOK
<1>2. \A x \in Calls : OpenedBy(x)' = OpenedBy(x)
  BY <1>1 DEF OpenedBy
<1>3. \A x \in Calls :
        GateOf[phase'[x]] = IF GateOf[phase[x]] = "parked" THEN "shut" ELSE GateOf[phase[x]]
  BY <1>1 DEF GateOf
<1> QED
  BY <1>1, <1>2, <1>3 DEF Gate!Lose

\* Every step of the executor is a step of the gate or leaves it alone.
LEMMA GateStep == IInv /\ [Next]_vars => [Gate!Next]_(Gate!vars)
<1> SUFFICES ASSUME IInv, [Next]_vars PROVE [Gate!Next]_(Gate!vars)
  OBVIOUS
<1>0. TypeOK
  BY DEF IInv
<1>1. ASSUME NEW c \in Calls, NEW t \in Triggers, NEW raises \in BOOLEAN,
             DenyAtLookup(c, t, raises)
      PROVE  Gate!Next
  <2>1. Take(c, t, "denied") /\ decider' = decider /\ runs' = runs
    BY <1>1 DEF DenyAtLookup
  <2>2. Gate!Shut(c)
    BY <1>0, <2>1, TakeTakes, ShutsGate
  <2> QED
    BY <2>2 DEF Gate!Next
<1>2. ASSUME NEW c \in Calls, NEW t \in Triggers, NEW raises \in BOOLEAN,
             Park(c, t, raises)
      PROVE  Gate!Next
  <2>1. Take(c, t, "pending") /\ decider' = decider /\ runs' = runs /\ c \notin AutoApproved
    BY <1>2 DEF Park
  <2>2. Gate!Park(c)
    BY <1>0, <2>1, TakeTakes, ParksGate
  <2> QED
    BY <2>2 DEF Gate!Next
<1>3. ASSUME NEW c \in Calls, NEW t \in Triggers, RunAtOnce(c, t)
      PROVE  Gate!Next
  <2>1. Take(c, t, "auto") /\ RunTool(c) /\ decider' = decider /\ c \in AutoApproved
    BY <1>3 DEF RunAtOnce
  <2>2. phase[c] = "new" /\ phase'[c] = "auto" /\ \A x \in Calls : x # c => phase'[x] = phase[x]
    BY <1>0, <2>1, TakeTakes
  <2>3. runs[c] = 0
    BY <2>2, NewIsFresh
  <2>4. runs'[c] \in {0, 1} /\ \A x \in Calls : x # c => runs'[x] = runs[x]
    BY <1>0, <2>1, <2>3, RunToolRuns
  <2>5. Gate!Open(c, Policy)
    BY <2>1, <2>2, <2>3, <2>4, OpensGate
  <2> QED
    BY <2>5 DEF Gate!Next
<1>4. ASSUME NEW c \in Calls, NEW who \in Deciders, Approve(c, who)
      PROVE  Gate!Next
  <2>1. Decide(c, "approved", who) /\ RunTool(c)
    BY <1>4 DEF Approve
  <2>2. /\ phase[c] = "pending" /\ phase'[c] = "approved" /\ decider'[c] = who
        /\ \A x \in Calls : x # c => phase'[x] = phase[x] /\ decider'[x] = decider[x]
    BY <1>0, <2>1, DecideDecides
  <2>3. runs[c] = 0
    BY <2>2, PendingIsOpen
  <2>4. runs'[c] \in {0, 1} /\ \A x \in Calls : x # c => runs'[x] = runs[x]
    BY <1>0, <2>1, <2>3, RunToolRuns
  <2>5. Gate!Open(c, who)
    BY <2>2, <2>3, <2>4, OpensGate
  <2> QED
    BY <2>5 DEF Gate!Next
<1>5. ASSUME NEW c \in Calls, NEW who \in Deciders, NEW raises \in BOOLEAN,
             Deny(c, who, raises)
      PROVE  Gate!Next
  <2>1. Decide(c, "refused", who) /\ runs' = runs
    BY <1>5 DEF Deny
  <2>2. Gate!Shut(c)
    BY <1>0, <2>1, DecideDecides, ShutsGate
  <2> QED
    BY <2>2 DEF Gate!Next
<1>6. ASSUME NEW c \in Calls, NEW raises \in BOOLEAN, RecordRun(c, raises)
      PROVE  UNCHANGED Gate!vars
  BY <1>6 DEF RecordRun, callVars, Gate!vars, OpenedBy
<1>7. CASE Restart
  BY <1>7, LosesGate DEF Gate!Next
<1>8. CASE UNCHANGED vars
  BY <1>8 DEF vars, callVars, Gate!vars, OpenedBy
<1> QED
  BY <1>1, <1>2, <1>3, <1>4, <1>5, <1>6, <1>7, <1>8 DEF Next, Quiet

\* The executor is an approval gate: a gated call reaches its tool at most once,
\* by the decision of a named person, and a refused or lost one never does,
\* whatever appends fail and whenever the process ends.
THEOREM ExecutorIsApprovalGate == Spec => IsApprovalGate
BY GateInit, GateStep, Soundness, PTL DEF Spec, IsApprovalGate, Gate!Spec

(***************************************************************************)
(* Tool runs without a record                                              *)
(***************************************************************************)

\* Runs whose record is missing are no more than the appends that raised and
\* the process ends, and finitely many even of infinitely many calls.
MissingInv ==
  /\ IsFiniteSet(RanUnrecorded)
  /\ UnrecordedByFaultOnly

\* The call c ran, is not running, and no tool_call record says so.
Missing(c) ==
  /\ runs[c] > 0 /\ running # c
  /\ \A i \in DOMAIN log[c] : log[c][i].event # "tool_call"

\* A step that adds no missing run keeps the bound.
LEMMA NoneMissing ==
  ASSUME TypeOK, TypeOK', MissingInv,
         \A x \in Calls : Missing(x)' => Missing(x),
         faults' >= faults, stops' >= stops
  PROVE  MissingInv'
<1>1. RanUnrecorded' \subseteq RanUnrecorded
  BY DEF RanUnrecorded, Missing
<1>2. /\ IsFiniteSet(RanUnrecorded')
      /\ Cardinality(RanUnrecorded') <= Cardinality(RanUnrecorded)
      /\ Cardinality(RanUnrecorded') \in Nat /\ Cardinality(RanUnrecorded) \in Nat
  BY <1>1, FS_Subset, FS_CardinalityType DEF MissingInv
<1>3. faults \in Nat /\ stops \in Nat /\ faults' \in Nat /\ stops' \in Nat
  BY DEF TypeOK
<1> QED
  BY <1>2, <1>3 DEF MissingInv, UnrecordedByFaultOnly

LEMMA BoundGrows ==
  ASSUME NEW i \in Nat, NEW j \in Nat, NEW k \in Nat, NEW n \in Nat, NEW m \in Nat,
         i <= j, j <= k + 1, k <= n, m = n + 1
  PROVE  i <= m
OBVIOUS

\* A step that adds one, with one append that raised or one process end, does.
LEMMA OneMissing ==
  ASSUME TypeOK, TypeOK', MissingInv, NEW c,
         \A x \in Calls : x # c /\ Missing(x)' => Missing(x),
         faults' + stops' = faults + stops + 1
  PROVE  MissingInv'
<1>1. RanUnrecorded' \subseteq RanUnrecorded \cup {c}
  BY DEF RanUnrecorded, Missing
<1>2. /\ IsFiniteSet(RanUnrecorded \cup {c})
      /\ Cardinality(RanUnrecorded \cup {c}) <= Cardinality(RanUnrecorded) + 1
      /\ Cardinality(RanUnrecorded) \in Nat
  BY FS_AddElement, FS_CardinalityType DEF MissingInv
<1>3. /\ IsFiniteSet(RanUnrecorded')
      /\ Cardinality(RanUnrecorded') <= Cardinality(RanUnrecorded \cup {c})
      /\ Cardinality(RanUnrecorded') \in Nat /\ Cardinality(RanUnrecorded \cup {c}) \in Nat
  BY <1>1, <1>2, FS_Subset, FS_CardinalityType
<1>4. faults \in Nat /\ stops \in Nat /\ faults' \in Nat /\ stops' \in Nat
  BY DEF TypeOK
<1>5. Cardinality(RanUnrecorded) <= faults + stops
  BY DEF MissingInv, UnrecordedByFaultOnly
<1>6. faults' + stops' \in Nat /\ faults + stops \in Nat
  <2>1. \A x, y \in Nat : x + y \in Nat
    OBVIOUS
  <2> QED
    BY <1>4, <2>1
<1> DEFINE i == Cardinality(RanUnrecorded')
           j == Cardinality(RanUnrecorded \cup {c})
           k == Cardinality(RanUnrecorded)
           n == faults + stops
           m == faults' + stops'
<1>7. i \in Nat /\ j \in Nat /\ k \in Nat /\ n \in Nat /\ m \in Nat
  BY <1>2, <1>3, <1>6
<1>8. i <= j /\ j <= k + 1 /\ k <= n /\ m = n + 1
  BY <1>2, <1>3, <1>5
<1> HIDE DEF i, j, k, n, m
<1>9. i <= m
  BY <1>7, <1>8, BoundGrows
<1> QED
  BY <1>3, <1>9 DEF MissingInv, UnrecordedByFaultOnly, i, m

\* An append adds a record or counts a fault; it takes no record away.
LEMMA AuditKeepsRecords ==
  ASSUME TypeOK, NEW c \in Calls, NEW r \in Record, NEW raises \in BOOLEAN,
         Audit(c, r, raises)
  PROVE  /\ faults' >= faults /\ (raises => faults' = faults + 1)
         /\ \A x \in Calls : \A i \in DOMAIN log[x] :
              i \in DOMAIN log'[x] /\ log'[x][i] = log[x][i]
         /\ ~raises => \E i \in DOMAIN log'[c] : log'[c][i] = r
<1>1. faults \in Nat /\ log \in [Calls -> Seq(Record)]
  BY DEF TypeOK
<1>2. CASE raises
  BY <1>1, <1>2 DEF Audit, Raises
<1>3. CASE ~raises
  <2>1. log' = [log EXCEPT ![c] = Append(log[c], r)] /\ faults' = faults
    BY <1>3 DEF Audit, Appends
  <2>2. log[c] \in Seq(Record)
    BY <1>1
  <2>3. \A i \in DOMAIN log[c] : i \in DOMAIN Append(log[c], r) /\ Append(log[c], r)[i] = log[c][i]
    BY <2>2
  <2>4. Len(log[c]) + 1 \in DOMAIN Append(log[c], r) /\ Append(log[c], r)[Len(log[c]) + 1] = r
    BY <2>2
  <2>5. log'[c] = Append(log[c], r) /\ \A x \in Calls : x # c => log'[x] = log[x]
    BY <1>1, <2>1
  <2> QED
    BY <1>1, <1>3, <2>1, <2>3, <2>4, <2>5
<1> QED
  BY <1>2, <1>3

\* Where no call is running, an append leaves no run missing.
LEMMA AuditMissesNone ==
  ASSUME TypeOK, NEW c \in Calls, NEW r \in Record, NEW raises \in BOOLEAN,
         Audit(c, r, raises), running = None, running' = None, runs' = runs
  PROVE  \A x \in Calls : Missing(x)' => Missing(x)
<1>1. \A x \in Calls : \A i \in DOMAIN log[x] :
        i \in DOMAIN log'[x] /\ log'[x][i] = log[x][i]
  BY AuditKeepsRecords
<1>2. \A x \in Calls : running # x
  BY ExecutorAssumption
<1> QED
  BY <1>1, <1>2 DEF Missing

LEMMA MissingInit == Init => MissingInv
<1> SUFFICES ASSUME Init PROVE MissingInv
  OBVIOUS
<1>1. RanUnrecorded = {}
  BY DEF Init, RanUnrecorded
<1>2. IsFiniteSet({}) /\ Cardinality({}) = 0
  BY FS_EmptySet
<1> QED
  BY <1>1, <1>2 DEF Init, MissingInv, UnrecordedByFaultOnly

LEMMA MissingStep == IInv /\ IInv' /\ MissingInv /\ [Next]_vars => MissingInv'
<1> SUFFICES ASSUME IInv, IInv', MissingInv, [Next]_vars PROVE MissingInv'
  OBVIOUS
<1>0. TypeOK /\ TypeOK' /\ faults \in Nat /\ stops \in Nat
  BY DEF IInv, TypeOK
<1>1. ASSUME NEW c \in Calls, NEW t \in Triggers, NEW raises \in BOOLEAN,
             DenyAtLookup(c, t, raises)
      PROVE  MissingInv'
  <2> DEFINE r == ToolCall("denied", t, FALSE, Policy)
  <2>1. r \in Record
    BY DEF ToolCall, Record, Outcomes
  <2>2. Audit(c, r, raises) /\ running = None /\ running' = None /\ runs' = runs /\ stops' = stops
    BY <1>1 DEF DenyAtLookup, Take, Idle
  <2> HIDE DEF r
  <2>3. (\A x \in Calls : Missing(x)' => Missing(x)) /\ faults' >= faults
    BY <1>0, <2>1, <2>2, AuditMissesNone, AuditKeepsRecords
  <2> QED
    BY <1>0, <2>2, <2>3, NoneMissing
<1>2. ASSUME NEW c \in Calls, NEW t \in Triggers, NEW raises \in BOOLEAN,
             Park(c, t, raises)
      PROVE  MissingInv'
  <2> DEFINE r == [event |-> "approval", status |-> "pending_approval", trigger |-> t]
  <2>1. r \in Record
    BY DEF Record
  <2>2. Audit(c, r, raises) /\ running = None /\ running' = None /\ runs' = runs /\ stops' = stops
    BY <1>2 DEF Park, Take, Idle
  <2> HIDE DEF r
  <2>3. (\A x \in Calls : Missing(x)' => Missing(x)) /\ faults' >= faults
    BY <1>0, <2>1, <2>2, AuditMissesNone, AuditKeepsRecords
  <2> QED
    BY <1>0, <2>2, <2>3, NoneMissing
<1>3. ASSUME NEW c \in Calls, running = None, RunTool(c), log' = log,
             faults' = faults, stops' = stops
      PROVE  MissingInv'
  <2>1. running' = c /\ \A x \in Calls : x # c => runs'[x] = runs[x]
    BY <1>0, <1>3 DEF RunTool, TypeOK
  <2>2. \A x \in Calls : running # x
    BY <1>3, ExecutorAssumption
  <2>3. \A x \in Calls : Missing(x)' => Missing(x)
    BY <1>3, <2>1, <2>2 DEF Missing
  <2> QED
    BY <1>0, <1>3, <2>3, NoneMissing
<1>4. ASSUME NEW c \in Calls, NEW who \in Deciders, NEW raises \in BOOLEAN,
             Deny(c, who, raises)
      PROVE  MissingInv'
  <2> DEFINE r == ToolCall("denied", trigger[c], TRUE, who)
  <2>1. /\ Audit(c, r, raises) /\ running = None /\ running' = None /\ runs' = runs
        /\ stops' = stops /\ phase[c] = "pending"
    BY <1>4 DEF Deny, Decide, Idle
  <2>2. Sound("refused", trigger[c], who, 0, log[c])
    BY <2>1, PendingIsOpen
  <2>3. r \in Record
    BY <2>2 DEF Sound, ToolCall, Record, Outcomes
  <2> HIDE DEF r
  <2>4. (\A x \in Calls : Missing(x)' => Missing(x)) /\ faults' >= faults
    BY <1>0, <2>1, <2>3, AuditMissesNone, AuditKeepsRecords
  <2> QED
    BY <1>0, <2>1, <2>4, NoneMissing
<1>5. ASSUME NEW c \in Calls, NEW raises \in BOOLEAN, RecordRun(c, raises)
      PROVE  MissingInv'
  <2> DEFINE r == RunRecord(c)
  <2>1. /\ running = c /\ running' = None /\ Audit(c, r, raises)
        /\ runs' = runs /\ stops' = stops
    BY <1>5 DEF RecordRun
  <2>2. c # None /\ CallSound(c) /\ phase[c] \in {"auto", "approved"} /\ outcome \in Outcomes
    BY <2>1, ExecutorAssumption DEF IInv, RunningSound
  <2>3. trigger[c] \in Triggers /\ (phase[c] = "approved" => decider[c] \in Deciders)
    BY <2>2 DEF CallSound, Sound
  <2>4. r \in Record
    BY <2>2, <2>3 DEF RunRecord, ToolCall, Record
  <2>5. r.event = "tool_call"
    BY DEF RunRecord, ToolCall
  <2> HIDE DEF r
  <2>6. /\ faults' >= faults /\ (raises => faults' = faults + 1)
        /\ \A x \in Calls : \A i \in DOMAIN log[x] :
             i \in DOMAIN log'[x] /\ log'[x][i] = log[x][i]
        /\ ~raises => \E i \in DOMAIN log'[c] : log'[c][i] = r
    BY <1>0, <2>1, <2>4, AuditKeepsRecords
  <2>7. \A x \in Calls : x # c /\ Missing(x)' => Missing(x)
    BY <2>1, <2>6 DEF Missing
  <2>8. CASE raises
    BY <1>0, <2>1, <2>6, <2>7, <2>8, OneMissing
  <2>9. CASE ~raises
    <3>1. ~Missing(c)'
      BY <2>5, <2>6, <2>9 DEF Missing
    <3> QED
      BY <1>0, <2>1, <2>6, <2>7, <3>1, NoneMissing
  <2> QED
    BY <2>8, <2>9
<1>6. CASE Restart
  <2>1. runs' = runs /\ log' = log /\ faults' = faults /\ stops' = stops + 1
    BY <1>6 DEF Restart
  <2>2. \A x \in Calls : x # running /\ Missing(x)' => Missing(x)
    BY <2>1 DEF Missing
  <2>3. faults' + stops' = faults + stops + 1
    BY <1>0, <2>1
  <2> QED
    BY <1>0, <2>2, <2>3, OneMissing
<1>7. CASE UNCHANGED vars
  BY <1>7 DEF vars, MissingInv, RanUnrecorded, UnrecordedByFaultOnly
<1>8. ASSUME NEW c \in Calls, NEW t \in Triggers, RunAtOnce(c, t)
      PROVE  MissingInv'
  BY <1>3, <1>8 DEF RunAtOnce, Take, Idle
<1>9. ASSUME NEW c \in Calls, NEW who \in Deciders, Approve(c, who)
      PROVE  MissingInv'
  BY <1>3, <1>9 DEF Approve, Decide, Idle
<1> QED
  BY <1>1, <1>2, <1>4, <1>5, <1>6, <1>7, <1>8, <1>9 DEF Next, Quiet

\* A tool's run is missing from the audit log only where an append raised or
\* the process ended between the run and its record, one run for each
\* (_run, _audit_call).
THEOREM RunsAreRecorded == Spec => []UnrecordedByFaultOnly
<1>1. MissingInv => UnrecordedByFaultOnly
  BY DEF MissingInv
<1> QED
  BY <1>1, MissingInit, MissingStep, Soundness, PTL DEF Spec

(***************************************************************************)
(* Runs without a decision                                                 *)
(***************************************************************************)

\* A call that runs without a decision names an autoApprove tool.
AutoIsListed == \A c \in Calls : phase[c] = "auto" => c \in AutoApproved

LEMMA AlwaysListed == Spec => []AutoIsListed
<1>1. Init => AutoIsListed
  BY DEF Init, AutoIsListed
<1>2. ASSUME TypeOK, AutoIsListed, [Next]_vars
      PROVE  AutoIsListed'
  <2>0. phase \in [Calls -> {"new", "denied", "auto", "pending", "approved", "refused", "lost"}]
    BY <1>2 DEF TypeOK
  <2> USE <1>2, <2>0 DEF AutoIsListed
  <2>1. ASSUME NEW c \in Calls, NEW t \in Triggers, NEW raises \in BOOLEAN,
               DenyAtLookup(c, t, raises) \/ Park(c, t, raises)
        PROVE  AutoIsListed'
    BY <2>1 DEF DenyAtLookup, Park, Take
  <2>2. ASSUME NEW c \in Calls, NEW t \in Triggers, RunAtOnce(c, t)
        PROVE  AutoIsListed'
    BY <2>2 DEF RunAtOnce, Take
  <2>3. ASSUME NEW c \in Calls, NEW who \in Deciders, NEW raises \in BOOLEAN,
               Approve(c, who) \/ Deny(c, who, raises)
        PROVE  AutoIsListed'
    BY <2>3 DEF Approve, Deny, Decide
  <2>4. ASSUME NEW c \in Calls, NEW raises \in BOOLEAN, RecordRun(c, raises)
        PROVE  AutoIsListed'
    BY <2>4 DEF RecordRun, callVars
  <2>5. CASE Restart
    BY <2>5 DEF Restart
  <2>6. CASE Quiet \/ UNCHANGED vars
    BY <2>6 DEF Quiet, vars, callVars
  <2> QED
    BY <2>1, <2>2, <2>3, <2>4, <2>5, <2>6 DEF Next
<1> QED
  BY <1>1, <1>2, TypeCorrect, PTL DEF Spec

=============================================================================
