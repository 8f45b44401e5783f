---------------------------- MODULE ToolExecutor ----------------------------
(***************************************************************************)
(* agent_runtime/executor.py: the tool calls a model asks for.  A call is  *)
(* refused at lookup (no such grant, or a pinned argument overridden), run *)
(* at once (autoApprove), or parked until somebody decides it through      *)
(* POST /approve/{id}.                                                     *)
(*                                                                         *)
(* A tool runs inside the event loop: between its return and the append of *)
(* its record nothing else happens (`running`), except a crash.  What the  *)
(* process holds of a call is in memory and ends with it.                  *)
(***************************************************************************)
EXTENDS Naturals, Sequences, FiniteSets

CONSTANTS
  Calls,         \* tool calls, one identity each (uuid4)
  Ungranted,     \* those refused at lookup: unknown tool, or a pin overridden
  AutoApproved,  \* those of the others that name an autoApprove tool
  Triggers,      \* the messages whose turns ask for calls
  Deciders,      \* who can decide through the approval route
  Policy,        \* POLICY_AUTO
  SinkRaises,    \* the audit sink may raise
  MaxFaults,     \* bound: appends that raise in one behaviour
  MaxStops,      \* bound: process ends in one behaviour
  None

ASSUME ExecutorAssumption ==
  /\ Ungranted \subseteq Calls
  /\ AutoApproved \subseteq Calls \ Ungranted
  /\ Policy \notin Deciders
  /\ None \notin Calls \cup Triggers \cup Deciders \cup {Policy}
  /\ SinkRaises \in BOOLEAN
  /\ MaxFaults \in Nat
  /\ MaxStops \in Nat

VARIABLES
  phase,    \* where each call is
  trigger,  \* PendingCall.trigger: the message whose turn asked for it
  decider,  \* PendingCall.decided_by, or None
  running,  \* the call whose tool has returned and has no record yet, or None
  outcome,  \* what that tool returned: "ok", "error", "denied", or None
  runs,     \* history: times each call reached its tool
  log,      \* the audit records of each call, in order
  faults,   \* appends that raised so far
  stops     \* process ends so far

callVars == <<phase, trigger, decider>>
vars == <<callVars, running, outcome, runs, log, faults, stops>>

Outcomes == {"ok", "error", "denied"}

\* required and decided_by are the record's approval block; the approval event
\* of a parked call has none.
Record ==
  [event : {"tool_call"}, status : Outcomes, trigger : Triggers,
   required : BOOLEAN, decided_by : Deciders \cup {Policy}]
  \cup [event : {"approval"}, status : {"pending_approval"}, trigger : Triggers]

TypeOK ==
  /\ phase \in [Calls -> {"new", "denied", "auto", "pending", "approved",
                          "refused", "lost"}]
  /\ trigger \in [Calls -> Triggers \cup {None}]
  /\ decider \in [Calls -> Deciders \cup {None}]
  /\ running \in Calls \cup {None}
  /\ outcome \in Outcomes \cup {None}
  /\ runs \in [Calls -> Nat]
  /\ log \in [Calls -> Seq(Record)]
  /\ faults \in 0 .. MaxFaults
  /\ stops \in 0 .. MaxStops

Init ==
  /\ phase = [c \in Calls |-> "new"]
  /\ trigger = [c \in Calls |-> None]
  /\ decider = [c \in Calls |-> None]
  /\ running = None
  /\ outcome = None
  /\ runs = [c \in Calls |-> 0]
  /\ log = [c \in Calls |-> <<>>]
  /\ faults = 0
  /\ stops = 0

Raises ==
  /\ SinkRaises
  /\ faults < MaxFaults
  /\ faults' = faults + 1
  /\ UNCHANGED log

Appends(c, record) ==
  /\ log' = [log EXCEPT ![c] = Append(@, record)]
  /\ UNCHANGED faults

ToolCall(status, t, required, who) ==
  [event |-> "tool_call", status |-> status, trigger |-> t,
   required |-> required, decided_by |-> who]

\* Mutant of Audit: a run that failed leaves no record.
AuditSuccess(c, record, raises) ==
  IF raises THEN Raises
  ELSE IF record.status = "error" THEN UNCHANGED <<log, faults>>
  ELSE Appends(c, record)

\* One audit append: it writes the record, or raises out of the executor.
Audit(c, record, raises) ==
  IF raises THEN Raises ELSE Appends(c, record)

Idle == running = None

\* Take up a new call on behalf of turn t.
Take(c, t, to) ==
  /\ Idle
  /\ phase[c] = "new"
  /\ phase' = [phase EXCEPT ![c] = to]
  /\ trigger' = [trigger EXCEPT ![c] = t]
  /\ UNCHANGED stops

\* tool.run returned; a denial at the tool's own boundary ran nothing.
RunTool(c) ==
  \E result \in Outcomes :
    /\ running' = c
    /\ outcome' = result
    /\ runs' = IF result = "denied" THEN runs ELSE [runs EXCEPT ![c] = @ + 1]

----------------------------------------------------------------------------
(* execute *)

DenyAtLookup(c, t, raises) ==
  /\ c \in Ungranted
  /\ Take(c, t, "denied")
  /\ Audit(c, ToolCall("denied", t, FALSE, Policy), raises)
  /\ UNCHANGED <<decider, running, outcome, runs>>

\* Mutant of RunAtOnce: every granted tool runs at once.
RunUnasked(c, t) ==
  /\ c \notin Ungranted
  /\ Take(c, t, "auto")
  /\ RunTool(c)
  /\ UNCHANGED <<decider, log, faults>>

RunAtOnce(c, t) ==
  /\ c \in AutoApproved
  /\ Take(c, t, "auto")
  /\ RunTool(c)
  /\ UNCHANGED <<decider, log, faults>>

\* The call enters _pending before its approval record is written: a sink that
\* raises here leaves it decidable.
Park(c, t, raises) ==
  /\ c \notin Ungranted \cup AutoApproved
  /\ Take(c, t, "pending")
  /\ Audit(c, [event |-> "approval", status |-> "pending_approval", trigger |-> t], raises)
  /\ UNCHANGED <<decider, running, outcome, runs>>

----------------------------------------------------------------------------
(* resolve: anything but a pending call is refused (404, 409) *)

\* Mutant of Decide: a settled call is decided again.
DecideAgain(c, to, who) ==
  /\ Idle
  /\ phase[c] \in {"pending", "approved", "refused"}
  /\ phase' = [phase EXCEPT ![c] = to]
  /\ decider' = [decider EXCEPT ![c] = who]
  /\ UNCHANGED <<trigger, stops>>

Decide(c, to, who) ==
  /\ Idle
  /\ phase[c] = "pending"
  /\ phase' = [phase EXCEPT ![c] = to]
  /\ decider' = [decider EXCEPT ![c] = who]
  /\ UNCHANGED <<trigger, stops>>

Deny(c, who, raises) ==
  /\ Decide(c, "refused", who)
  /\ Audit(c, ToolCall("denied", trigger[c], TRUE, who), raises)
  /\ UNCHANGED <<running, outcome, runs>>

Approve(c, who) ==
  /\ Decide(c, "approved", who)
  /\ RunTool(c)
  /\ UNCHANGED <<log, faults>>

----------------------------------------------------------------------------
(* _run after the tool has returned *)

\* Mutant of RunRecord: the record always names the policy.
RecordByPolicy(c) ==
  ToolCall(outcome, trigger[c], phase[c] = "approved", Policy)

RunRecord(c) ==
  ToolCall(outcome, trigger[c], phase[c] = "approved",
           IF phase[c] = "approved" THEN decider[c] ELSE Policy)

RecordRun(c, raises) ==
  /\ running = c
  /\ Audit(c, RunRecord(c), raises)
  /\ running' = None
  /\ outcome' = None
  /\ UNCHANGED <<callVars, runs, stops>>

\* The process ends between two calls, or after a tool and before its record.
Restart ==
  /\ stops < MaxStops
  /\ stops' = stops + 1
  /\ phase' = [c \in Calls |-> IF phase[c] = "pending" THEN "lost" ELSE phase[c]]
  /\ running' = None
  /\ outcome' = None
  /\ UNCHANGED <<trigger, decider, runs, log, faults>>

\* Every call asked for has been settled or awaits a decision.
Quiet == Idle /\ (\A c \in Calls : phase[c] # "new") /\ UNCHANGED vars

Next ==
  \/ \E c \in Calls, t \in Triggers, raises \in BOOLEAN :
       DenyAtLookup(c, t, raises) \/ Park(c, t, raises)
  \/ \E c \in Calls, t \in Triggers : RunAtOnce(c, t)
  \/ \E c \in Calls, who \in Deciders : Approve(c, who)
  \/ \E c \in Calls, who \in Deciders, raises \in BOOLEAN : Deny(c, who, raises)
  \/ \E c \in Calls, raises \in BOOLEAN : RecordRun(c, raises)
  \/ Restart
  \/ Quiet

Spec == Init /\ [][Next]_vars

----------------------------------------------------------------------------
(* Properties *)

\* The gate as each phase has left it, and who opened it.
GateOf ==
  [new |-> "none", pending |-> "parked", auto |-> "open", approved |-> "open",
   denied |-> "shut", refused |-> "shut", lost |-> "shut"]

OpenedBy(c) ==
  IF phase[c] = "auto" THEN Policy
  ELSE IF phase[c] = "approved" THEN decider[c] ELSE None

Gate ==
  INSTANCE ApprovalGate WITH
    gate <- [c \in Calls |-> GateOf[phase[c]]],
    by   <- [c \in Calls |-> OpenedBy(c)],
    ran  <- {c \in Calls : runs[c] > 0}

\* The executor is an approval gate: parking, decisions, failed appends and
\* restarts never let a call through that nobody opened, nor a refused one.
IsApprovalGate == Gate!Spec

\* However often a call is decided, its tool runs at most once, and not before
\* a decision (resolve's state check, set before the tool runs).
RunsAtMostOnce ==
  \A c \in Calls : runs[c] <= 1 /\ (runs[c] = 1 => phase[c] \in {"auto", "approved"})

\* Every record of a call carries the turn that asked for it, and every record
\* of a decision the person who made it, however late the decision is and
\* whatever turn is then in hand ("keeps its ORIGINAL trigger").
RecordsNameAskerAndDecider ==
  \A c \in Calls : \A i \in DOMAIN log[c] :
    LET r == log[c][i] IN
      /\ r.trigger = trigger[c]
      /\ r.event = "tool_call" /\ r.required => r.decided_by = decider[c]
      /\ r.event = "tool_call" /\ ~r.required => r.decided_by = Policy

\* The records of a call tell one story: at most one approval event, then at
\* most one tool_call, which says "ok" or "error" exactly when the tool ran.
OneStoryPerCall ==
  \A c \in Calls : \A i \in DOMAIN log[c] :
    /\ log[c][i].event = "approval" => i = 1
    /\ log[c][i].event = "tool_call" =>
         /\ i = Len(log[c])
         /\ (log[c][i].status = "denied") <=> (runs[c] = 0)

RanUnrecorded ==
  {c \in Calls : runs[c] > 0 /\ running # c
                   /\ \A i \in DOMAIN log[c] : log[c][i].event # "tool_call"}

\* A tool's run is missing from the audit log only where an append raised or
\* the process ended, one run for each.
UnrecordedByFaultOnly == Cardinality(RanUnrecorded) <= faults + stops

=============================================================================
