--------------------------- MODULE WebhookChannel ---------------------------
(***************************************************************************)
(* A webhook channel: each connection of the HttpReceiver carries one      *)
(* delivery, and the handler behind it drops or takes it in as             *)
(* ChannelLifecycle does.  The platform sends a delivery again whenever it *)
(* likes, on a connection of its own, also when the first answer was lost. *)
(*                                                                         *)
(* The adapter between the two is not in this repository; it does what     *)
(* channel_lifecycle.py documents: recognise, queue, acknowledge, without  *)
(* an await between them.                                                  *)
(***************************************************************************)
EXTENDS HttpReceiver, ChannelLifecycle

ASSUME OneDeliveryPerConnection == Deliveries = Conns /\ {200, 202} \subseteq Statuses

vars == <<receiverVars, lifecycleVars>>

TypeOK == ReceiverTypeOK /\ LifecycleTypeOK

Init == ReceiverInit /\ LifecycleInit

\* Mutant of Handle: the id is recorded by a handler that then raises.
RecordsThenRaises(c) ==
  \/ HandlerReturns(c, 200) /\ Drop(c)
  \/ HandlerReturns(c, 202) /\ TakeIn(c)
  \/ /\ HandlerRaises(c)
     /\ seen' = Recorded(IdOf[c])
     /\ UNCHANGED <<now, turn, delivery, taken, closed>>

Handle(c) ==
  \/ HandlerReturns(c, 200) /\ Drop(c)
  \/ HandlerReturns(c, 202) /\ TakeIn(c)
  \/ HandlerRaises(c) /\ UNCHANGED lifecycleVars

\* After a stop the worker is gone; deliveries go on waiting until aclose,
\* which comes when the last connection is closed.
Shutdown ==
  \/ StopListening /\ UNCHANGED lifecycleVars
  \/ Drained /\ CancelInflight /\ UNCHANGED receiverVars

Quiet == closed /\ UNCHANGED vars

Next ==
  \/ \E c \in Conns :
       \/ ReceiverStep(c) /\ UNCHANGED lifecycleVars
       \/ Handle(c)
       \/ listening /\ TurnEnds(c) /\ UNCHANGED receiverVars
       \/ Background(c) /\ UNCHANGED receiverVars
  \/ Tick /\ UNCHANGED receiverVars
  \/ Shutdown
  \/ Quiet

Spec == Init /\ [][Next]_vars

\* Deadlines end a parse and a write, and the handler has no await.  Nothing
\* makes a peer read, nor the worker answer.
Fairness ==
  \A c \in Conns :
    /\ WF_vars(Task(c) /\ UNCHANGED lifecycleVars)
    /\ WF_vars(Handle(c))

FairSpec == Spec /\ Fairness

----------------------------------------------------------------------------
(* Properties *)

\* Once aclose has cancelled the deliveries no task is left that could post or
\* end ("no orphan"), and no connection's handler is there to start another.
NothingPostedOnceClosed ==
  [][closed => delivery' = delivery]_vars

\* What the platform is told is safe with the channel has a turn: its own, or
\* the one of an earlier delivery of the same id.  A redelivery may follow an
\* answer that was lost, a cancelled handler or a 500.
AcknowledgedHasATurn ==
  \A c \in Conns : status[c] \in {200, 202} =>
    \E i \in DOMAIN taken : IdOf[taken[i].delivery] = IdOf[c]

\* Whatever its peer does, stalls or sends again, a connection gives its slot
\* back: the parse has a deadline, the handler answers at once, and the slot is
\* released before the close is waited for.
SlotsComeBack == \A c \in Conns : []<>(phase[c] \notin Serviced)

=============================================================================
