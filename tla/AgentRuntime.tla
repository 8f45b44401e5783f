---------------------------- MODULE AgentRuntime ----------------------------
(***************************************************************************)
(* The whole agent process: AgentCore with ToolExecutor behind its tool    *)
(* rounds, and the approval routes that decide parked calls on the same    *)
(* event loop while turns are handled.  A tool call of a turn is a step of *)
(* both; a decision is a step of the executor at a point where the worker  *)
(* has given up the loop; the process ends for both at once.               *)
(***************************************************************************)
EXTENDS AgentCore

CONSTANTS
  Calls, Ungranted, AutoApproved, Deciders, Policy  \* ToolExecutor

VARIABLES
  phase, trigger, decider, running, outcome, runs, log,  \* ToolExecutor
  toolFaults,  \* its appends that raised
  ends         \* its process ends

callVars == <<phase, trigger, decider, running, outcome, runs, log, toolFaults, ends>>
allVars  == <<vars, callVars>>

Exec ==
  INSTANCE ToolExecutor WITH
    Triggers   <- Messages,
    SinkRaises <- "sink" \in FaultKinds,
    faults     <- toolFaults,
    stops      <- ends

ASSUME RuntimeAssumption == Exec!ExecutorAssumption

RuntimeInit == Init /\ Exec!Init

\* Bound: the model asks for tools only while Calls has some for a whole round.
CallsLeft == Cardinality({c \in Calls : phase[c] = "new"}) >= MaxCalls

\* Everything of the core but its tool calls and its end; a tool that runs
\* holds the loop.
CoreStep ==
  /\ Exec!Idle
  /\ \/ \E m \in Messages : Channel(m)
     \/ Turn \/ Shutdown \/ Boot \/ Quiet
     \/ ProviderReturns /\ (got'.kind = "tools" => CallsLeft)
  /\ UNCHANGED callVars

\* Mutant of ExecuteReturns: a parked call holds its turn.
ExecuteWaits(c) ==
  \/ Exec!Park(c, current, FALSE) /\ pc = "tools" /\ UNCHANGED vars
  \/ /\ ToolReturns
     /\ Exec!DenyAtLookup(c, current, FALSE) \/ Exec!RecordRun(c, FALSE)

\* executor.execute inside _tool_round, with this turn's trigger.
ExecuteReturns(c) ==
  /\ ToolReturns
  /\ \/ Exec!DenyAtLookup(c, current, FALSE)
     \/ Exec!Park(c, current, FALSE)
     \/ Exec!RecordRun(c, FALSE)

ExecuteRaises(c) ==
  /\ ToolRaises
  /\ \/ Exec!DenyAtLookup(c, current, TRUE)
     \/ Exec!Park(c, current, TRUE)
     \/ Exec!RecordRun(c, TRUE)

ExecuteRuns(c) ==
  /\ pc = "tools"
  /\ Exec!RunAtOnce(c, current)
  /\ UNCHANGED vars

\* POST /approve/{id}, between two steps of the worker.
Resolve(c) ==
  /\ life # "down" /\ LoopFree
  /\ \E who \in Deciders :
       \/ Exec!Approve(c, who)
       \/ \E raises \in BOOLEAN : Exec!Deny(c, who, raises)
  /\ UNCHANGED vars

ResolveRecords(c) ==
  /\ LoopFree
  /\ \E raises \in BOOLEAN : Exec!RecordRun(c, raises)
  /\ UNCHANGED vars

\* A drain ends only when no handler runs; a crash cuts a running tool off.
Ends ==
  /\ Crash \/ (Exec!Idle /\ Exit)
  /\ Exec!Restart

RuntimeNext ==
  \/ CoreStep
  \/ \E c \in Calls :
       \/ ExecuteReturns(c) \/ ExecuteRaises(c) \/ ExecuteRuns(c)
       \/ Resolve(c) \/ ResolveRecords(c)
  \/ Ends

RuntimeSpec == RuntimeInit /\ [][RuntimeNext]_allVars

WorkerStep ==
  \/ CoreStep /\ Turn
  \/ \E c \in Calls : ExecuteReturns(c) \/ ExecuteRuns(c)

\* The steps of the worker, of a tool and of a handler whose future is settled
\* are plain code; the reply timer fires; the supervisor boots what died.  Nobody
\* has to decide a parked call, to post, or to go away, and the provider need not
\* answer (see CallsEnd of ProviderCall).
RuntimeFairSpec ==
  /\ RuntimeSpec
  /\ WF_allVars(WorkerStep)
  /\ WF_allVars(\E c \in Calls : ResolveRecords(c))
  /\ WF_allVars(CoreStep /\ \E m \in Messages : Respond(m) \/ ReplyTimeout(m))
  /\ WF_allVars((Ends /\ Exit) \/ (CoreStep /\ Boot))

----------------------------------------------------------------------------
(* Properties *)

CallsOf(m) == {c \in Calls : trigger[c] = m}

\* Each tool call of a turn was asked for by a model call that is in the audit
\* log: a call whose record could not be written fails the turn before any tool
\* it asked for (call_model appends before it returns to handle).
ToolsFollowARecordedCall ==
  \A m \in Messages : Cardinality(CallsOf(m)) <= MaxCalls * recorded[m]

\* A message costs at most MAX_TOOL_ROUNDS rounds of tool calls and one model
\* call more, whatever the model asks for and however its calls end.
RoundsBoundCalls ==
  \A m \in Messages :
    /\ begun[m] <= MaxToolRounds + 1
    /\ Cardinality(CallsOf(m)) <= MaxCalls * MaxToolRounds

\* The audit log joins a tool run to the turn that asked for it even when the
\* decision comes while another turn is in hand (PendingCall.trigger).
RecordsNameAskerAndDecider == Exec!RecordsNameAskerAndDecider

\* No turn, and no message behind it, waits for a human: unless one provider call
\* never returns, each is dealt with in the end though parked calls are never
\* decided (execute returns at once).
ParkedCallsHoldNoTurn == <>[](pc = "model") \/ EveryMessageIsHandled

=============================================================================
