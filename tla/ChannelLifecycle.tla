-------------------------- MODULE ChannelLifecycle --------------------------
(***************************************************************************)
(* components/channel_lifecycle.py: what a webhook channel does with a     *)
(* delivery.  A redelivered id is recognised by the bounded SeenIdCache    *)
(* and dropped; a new one is queued, acknowledged at once, and its reply   *)
(* is posted by a background task of ReplyDelivery, which gives up after   *)
(* the reply timeout and is cancelled at shutdown.                         *)
(*                                                                         *)
(* Time is a bounded clock that the cache reads.  The queue and the worker *)
(* behind it are seen through the reply future only.                       *)
(***************************************************************************)
EXTENDS Integers, Sequences, FiniteSets

CONSTANTS
  Deliveries,  \* webhook deliveries, each of a message id
  Ids,         \* the platform's message ids
  IdOf,        \* delivery -> id
  MaxSize,     \* SeenIdCache.max_size
  Ttl,         \* SeenIdCache.ttl_seconds, in ticks
  MaxTime      \* bound: ticks of the clock in one behaviour

ASSUME LifecycleAssumption ==
  /\ IsFiniteSet(Deliveries)
  /\ IdOf \in [Deliveries -> Ids]
  /\ MaxSize \in Nat \ {0}
  /\ Ttl \in Nat \ {0}
  /\ MaxTime \in Nat

VARIABLES
  now,       \* the monotonic clock
  seen,      \* SeenIdCache._seen: [id, at], oldest first
  turn,      \* the reply future: "none", "pending", "replied", "failed", "over"
  delivery,  \* the background task: "none", "waiting", "sending", "ended", "cancelled"
  taken,     \* history: the deliveries taken in, [delivery, at], in order
  closed     \* cancel_inflight has run

lifecycleVars == <<now, seen, turn, delivery, taken, closed>>

LifecycleTypeOK ==
  /\ now \in 0 .. MaxTime
  /\ seen \in Seq([id : Ids, at : 0 .. MaxTime])
  /\ turn \in [Deliveries -> {"none", "pending", "replied", "failed", "over"}]
  /\ delivery \in [Deliveries -> {"none", "waiting", "sending", "ended", "cancelled"}]
  /\ taken \in Seq([delivery : Deliveries, at : 0 .. MaxTime])
  /\ closed \in BOOLEAN

LifecycleInit ==
  /\ now = 0
  /\ seen = <<>>
  /\ turn = [d \in Deliveries |-> "none"]
  /\ delivery = [d \in Deliveries |-> "none"]
  /\ taken = <<>>
  /\ closed = FALSE

Tick ==
  /\ now < MaxTime
  /\ now' = now + 1
  /\ UNCHANGED <<seen, turn, delivery, taken, closed>>

----------------------------------------------------------------------------
(* SeenIdCache *)

Expired(entry) == now - entry.at >= Ttl

\* _evict_expired: from the front, up to the first entry inside the window.
Live(cache) ==
  LET stale == {n \in 0 .. Len(cache) : \A i \in 1 .. n : Expired(cache[i])}
      cut == CHOOSE n \in stale : \A k \in stale : k <= n
  IN SubSeq(cache, cut + 1, Len(cache))

Holds(cache, id) == \E i \in DOMAIN cache : cache[i].id = id

\* Mutant of Bounded: the newest entry is the one to go.
BoundedAtBack(cache) == SubSeq(cache, 1, MaxSize)

\* The size cap: the oldest entries go.
Bounded(cache) ==
  IF Len(cache) > MaxSize THEN SubSeq(cache, Len(cache) - MaxSize + 1, Len(cache))
  ELSE cache

\* The cache after seen_then_record(id); an id it holds keeps its place and time.
Recorded(id) ==
  IF Holds(Live(seen), id) THEN Live(seen)
  ELSE Bounded(Append(Live(seen), [id |-> id, at |-> now]))

----------------------------------------------------------------------------
(* ReplyDelivery *)

\* A redelivery inside the window: dropped, answered as a success.
Drop(d) ==
  /\ Holds(Live(seen), IdOf[d])
  /\ seen' = Recorded(IdOf[d])
  /\ UNCHANGED <<now, turn, delivery, taken, closed>>

\* First sight: queue the message, start the delivery, answer 202.
TakeIn(d) ==
  /\ ~Holds(Live(seen), IdOf[d])
  /\ seen' = Recorded(IdOf[d])
  /\ turn' = [turn EXCEPT ![d] = "pending"]
  /\ delivery' = [delivery EXCEPT ![d] = "waiting"]
  /\ taken' = Append(taken, [delivery |-> d, at |-> now])
  /\ UNCHANGED <<now, closed>>

\* The worker settles the future, unless it is done.
TurnEnds(d) ==
  /\ turn[d] = "pending"
  /\ \E outcome \in {"replied", "failed"} : turn' = [turn EXCEPT ![d] = outcome]
  /\ UNCHANGED <<now, seen, delivery, taken, closed>>

\* The background task wakes, and the future is done with.
Wakes(d, next) ==
  /\ delivery[d] = "waiting"
  /\ delivery' = [delivery EXCEPT ![d] = next]
  /\ turn' = [turn EXCEPT ![d] = "over"]
  /\ UNCHANGED <<now, seen, taken, closed>>

\* There is a reply: send_reply is called.
Posts(d) == turn[d] = "replied" /\ Wakes(d, "sending")

TurnFailed(d) == turn[d] = "failed" /\ Wakes(d, "ended")

\* The timer cancels the future; one that was settled in the same tick is lost.
GivesUp(d) == Wakes(d, "ended")

\* send_reply returns or raises: the task ends.
PostEnds(d) ==
  /\ delivery[d] = "sending"
  /\ delivery' = [delivery EXCEPT ![d] = "ended"]
  /\ UNCHANGED <<now, seen, turn, taken, closed>>

\* Mutant of InFlight: only the tasks that wait for their turn.
AwaitingTurn == {d \in Deliveries : delivery[d] = "waiting"}

\* _reply_tasks: a task is discarded when it is done.
InFlight == {d \in Deliveries : delivery[d] \in {"waiting", "sending"}}

\* aclose: every task that is left is cancelled, its future with it.
CancelInflight ==
  /\ ~closed
  /\ closed' = TRUE
  /\ delivery' = [d \in Deliveries |->
                    IF d \in InFlight THEN "cancelled" ELSE delivery[d]]
  /\ turn' = [d \in Deliveries |-> IF d \in InFlight THEN "over" ELSE turn[d]]
  /\ UNCHANGED <<now, seen, taken>>

Background(d) == Posts(d) \/ TurnFailed(d) \/ GivesUp(d) \/ PostEnds(d)

----------------------------------------------------------------------------
(* Properties *)

\* A message gets two turns only if its id was forgotten between them: they
\* are a window apart, or as many messages as the cache holds were taken in
\* between them ("at most one turn per delivery inside the window").
OneTurnPerWindow ==
  \A i, j \in DOMAIN taken :
    i < j /\ IdOf[taken[i].delivery] = IdOf[taken[j].delivery] =>
      taken[j].at - taken[i].at >= Ttl \/ j - i > MaxSize

=============================================================================
