------------------------ MODULE WebhookChannel_proofs ------------------------
(***************************************************************************)
(* WebhookChannel for any number of connections, any ceiling, any sizes of *)
(* the cache and its window, and any bounds on time and on flaky peers.    *)
(***************************************************************************)
EXTENDS WebhookChannel, TLAPS, FiniteSetTheorems, SequenceTheorems, WellFoundedInduction

(***************************************************************************)
(* What a step of the channel is for each of its two parts                 *)
(***************************************************************************)

ReceiverNext ==
  \/ \E c \in Conns : ReceiverStep(c) \/ \E code \in {200, 202, 500} : HandlerReturns(c, code)
  \/ StopListening
  \/ UNCHANGED receiverVars

LifecycleNext ==
  \/ \E d \in Deliveries : Drop(d) \/ TakeIn(d) \/ TurnEnds(d) \/ Background(d)
  \/ Tick \/ CancelInflight
  \/ UNCHANGED <<now, turn, delivery, taken, closed, seen>>

LEMMA ReceiverPart == [Next]_vars => ReceiverNext
BY DEF Next, vars, Handle, HandlerRaises, Shutdown, Quiet, ReceiverNext

LEMMA LifecyclePart == [Next]_vars => LifecycleNext
BY OneDeliveryPerConnection
   DEF Next, vars, lifecycleVars, Handle, Shutdown, Quiet, LifecycleNext

(***************************************************************************)
(* The receiver                                                            *)
(***************************************************************************)

ReceiverInv == ReceiverTypeOK /\ NoOrphanHandler /\ SlotsAreConnections

LEMMA ReceiverTypeStep ==
  ASSUME ReceiverTypeOK, SlotsAreConnections, ReceiverNext
  PROVE  ReceiverTypeOK'
<1> USE DEF ReceiverTypeOK
<1>1. ASSUME NEW c \in Conns, Refuse(c) \/ Accept(c) PROVE ReceiverTypeOK'
  BY <1>1 DEF Refuse, Accept, To, Serviced
<1>2. ASSUME NEW c \in Conns,
             ParseFails(c) \/ ParseCutShort(c) \/ Dispatch(c) \/ HandlerFirst(c) \/ WatchFirst(c)
      PROVE  ReceiverTypeOK'
  BY <1>2 DEF ParseFails, ParseCutShort, Dispatch, HandlerFirst, WatchFirst, To, Serviced
<1>3. ASSUME NEW c \in Conns, Settle(c) PROVE ReceiverTypeOK'
  <2>1. c \in InService
    BY <1>3 DEF Settle, InService, Serviced
  <2>2. active # 0
    BY <2>1, ReceiverAssumption, FS_Subset, FS_EmptySet DEF InService, SlotsAreConnections
  <2> QED
    BY <1>3, <2>2 DEF Settle, To, Serviced
<1>4. ASSUME NEW c \in Conns, Close(c) PROVE ReceiverTypeOK'
  BY <1>4 DEF Close, To, Serviced
<1>5. ASSUME NEW c \in Conns, WatchEnds(c) PROVE ReceiverTypeOK'
  <2>1. watched' = [watched EXCEPT ![c] = TRUE]
    BY <1>5 DEF WatchEnds
  <2>2. watched' \in [Conns -> BOOLEAN]
    BY <2>1, Zenon
  <2> QED
    BY <1>5, <2>2 DEF WatchEnds
<1>6. ASSUME NEW c \in Conns, NEW to \in {"stuck", "gone"}, PeerTurns(c, to)
      PROVE  ReceiverTypeOK'
  BY <1>6 DEF PeerTurns
<1>7. ASSUME NEW c \in Conns, NEW code \in {200, 202, 500}, HandlerReturns(c, code)
      PROVE  ReceiverTypeOK'
  BY <1>7, OneDeliveryPerConnection DEF HandlerReturns
<1>8. ASSUME StopListening \/ UNCHANGED receiverVars PROVE ReceiverTypeOK'
  <2>1. CASE StopListening
    BY <2>1 DEF StopListening
  <2>2. CASE UNCHANGED receiverVars
    BY <2>2 DEF receiverVars
  <2> QED
    BY <1>8, <2>1, <2>2
<1> QED
  BY <1>1, <1>2, <1>3, <1>4, <1>5, <1>6, <1>7, <1>8 DEF ReceiverNext, ReceiverStep, Task

LEMMA NoOrphanStep ==
  ASSUME ReceiverTypeOK, NoOrphanHandler, ReceiverNext
  PROVE  NoOrphanHandler'
<1> USE DEF ReceiverTypeOK, NoOrphanHandler
<1>1. ASSUME NEW c \in Conns, Refuse(c) \/ Accept(c) \/ Settle(c) \/ Close(c)
      PROVE  NoOrphanHandler'
  BY <1>1 DEF Refuse, Accept, Settle, Close, To
<1>2. ASSUME NEW c \in Conns,
             ParseFails(c) \/ ParseCutShort(c) \/ Dispatch(c) \/ HandlerFirst(c) \/ WatchFirst(c)
      PROVE  NoOrphanHandler'
  BY <1>2 DEF ParseFails, ParseCutShort, Dispatch, HandlerFirst, WatchFirst, To
<1>3. ASSUME NEW c \in Conns,
             \/ WatchEnds(c) \/ \E to \in {"stuck", "gone"} : PeerTurns(c, to)
             \/ \E code \in {200, 202, 500} : HandlerReturns(c, code)
      PROVE  NoOrphanHandler'
  BY <1>3 DEF WatchEnds, PeerTurns, HandlerReturns
<1>4. ASSUME StopListening \/ UNCHANGED receiverVars PROVE NoOrphanHandler'
  BY <1>4 DEF StopListening, receiverVars
<1> QED
  BY <1>1, <1>2, <1>3, <1>4 DEF ReceiverNext, ReceiverStep, Task

LEMMA InServiceIsFinite == IsFiniteSet(InService) /\ Cardinality(InService) \in Nat
<1>1. InService \subseteq Conns
  BY DEF InService
<1> QED
  BY <1>1, ReceiverAssumption, FS_Subset, FS_CardinalityType

LEMMA SlotsStep ==
  ASSUME ReceiverTypeOK, SlotsAreConnections, ReceiverNext
  PROVE  SlotsAreConnections'
<1> USE DEF SlotsAreConnections
<1>1. ASSUME InService' = InService, UNCHANGED active PROVE SlotsAreConnections'
  BY <1>1
<1>2. ASSUME NEW c \in Conns, Accept(c) PROVE SlotsAreConnections'
  <2>1. c \notin InService /\ InService' = InService \cup {c}
    BY <1>2 DEF Accept, To, InService, Serviced, ReceiverTypeOK
  <2>2. Cardinality(InService') = Cardinality(InService) + 1
    BY <2>1, InServiceIsFinite, FS_AddElement
  <2>3. active \in Nat /\ active' = active + 1 /\ active < MaxConns
    BY <1>2, ReceiverAssumption DEF Accept, Full, ReceiverTypeOK
  <2> QED
    BY <2>2, <2>3, ReceiverAssumption
<1>3. ASSUME NEW c \in Conns, Settle(c) PROVE SlotsAreConnections'
  <2>1. c \in InService /\ InService' = InService \ {c}
    BY <1>3 DEF Settle, To, InService, Serviced, ReceiverTypeOK
  <2>2. Cardinality(InService') = Cardinality(InService) - 1
    BY <2>1, InServiceIsFinite, FS_RemoveElement
  <2>3. active \in Nat /\ active' = active - 1
    BY <1>3 DEF Settle, ReceiverTypeOK
  <2> QED
    BY <2>2, <2>3, ReceiverAssumption
<1>4. ASSUME NEW c \in Conns, Refuse(c) \/ Close(c) PROVE SlotsAreConnections'
  <2>1. InService' = InService /\ UNCHANGED active
    BY <1>4 DEF Refuse, Close, To, InService, Serviced, ReceiverTypeOK
  <2> QED
    BY <2>1, <1>1
<1>5. ASSUME NEW c \in Conns,
             ParseFails(c) \/ ParseCutShort(c) \/ Dispatch(c) \/ HandlerFirst(c) \/ WatchFirst(c)
      PROVE  SlotsAreConnections'
  <2>1. InService' = InService /\ UNCHANGED active
    BY <1>5 DEF ParseFails, ParseCutShort, Dispatch, HandlerFirst, WatchFirst, To, InService,
                Serviced, ReceiverTypeOK
  <2> QED
    BY <2>1, <1>1
<1>6. ASSUME \/ StopListening \/ UNCHANGED receiverVars
             \/ \E c \in Conns : \/ WatchEnds(c)
                                 \/ \E to \in {"stuck", "gone"} : PeerTurns(c, to)
                                 \/ \E code \in {200, 202, 500} : HandlerReturns(c, code)
      PROVE  SlotsAreConnections'
  <2>1. UNCHANGED <<phase, active>>
    BY <1>6 DEF StopListening, receiverVars, WatchEnds, PeerTurns, HandlerReturns
  <2> QED
    BY <2>1, <1>1 DEF InService
<1> QED
  BY <1>2, <1>3, <1>4, <1>5, <1>6 DEF ReceiverNext, ReceiverStep, Task

LEMMA ReceiverStarts == Init => ReceiverInv
<1> SUFFICES ASSUME Init PROVE ReceiverInv
  OBVIOUS
<1>1. ReceiverTypeOK /\ NoOrphanHandler
  BY DEF Init, ReceiverInit, ReceiverTypeOK, NoOrphanHandler
<1>2. InService = {} /\ active = 0
  BY DEF Init, ReceiverInit, InService, Serviced
<1>3. SlotsAreConnections
  BY <1>2, FS_EmptySet, ReceiverAssumption DEF SlotsAreConnections
<1> QED
  BY <1>1, <1>3 DEF ReceiverInv

THEOREM ReceiverAlways == Spec => []ReceiverInv
<1>1. ReceiverInv /\ [Next]_vars => ReceiverInv'
  BY ReceiverPart, ReceiverTypeStep, NoOrphanStep, SlotsStep DEF ReceiverInv
<1> QED
  BY <1>1, ReceiverStarts, PTL DEF Spec

\* However many clients connect, stall, vanish or are refused, the slots counted
\* are the connections in service, never more than the ceiling
\* (_handle_connection and its finally).
THEOREM SlotsHold == Spec => []SlotsAreConnections
BY ReceiverAlways, PTL DEF ReceiverInv

\* No handler is ever left running without the task that awaits it (_dispatch's
\* race against the disconnect watch).
THEOREM NoHandlerIsOrphaned == Spec => []NoOrphanHandler
BY ReceiverAlways, PTL DEF ReceiverInv

(***************************************************************************)
(* The cache of seen ids                                                   *)
(***************************************************************************)

Entries == [id : Ids, at : 0 .. MaxTime]
Takings == [delivery : Deliveries, at : 0 .. MaxTime]

\* A set of positions up to n has a last one.
LEMMA LastPosition ==
  ASSUME NEW n \in Nat, NEW S, S \subseteq 0 .. n, S # {}
  PROVE  \E i \in S : \A j \in S : j <= i
<1> DEFINE T == {n - i : i \in S}
<1>0. \A i \in S : i \in Nat /\ i <= n /\ n - i \in Nat
  OBVIOUS
<1>1. T \subseteq Nat /\ T # {}
  BY <1>0
<1>2. PICK k \in T : \A j \in T : ~(<<j, k>> \in OpToRel(<, Nat))
  BY <1>1, NatLessThanWellFounded, WFMin
<1>3. \A j \in T : ~(j < k)
  BY <1>1, <1>2 DEF OpToRel
<1>4. PICK i \in S : k = n - i
  BY <1>2
<1>5. ASSUME NEW j \in S PROVE j <= i
  <2>1. ~(n - j < n - i)
    BY <1>3, <1>4
  <2>2. i \in Nat /\ j \in Nat
    BY <1>0
  <2> HIDE DEF T
  <2> QED
    BY ONLY n \in Nat, <2>1, <2>2, SMTT(30)
<1> QED
  BY <1>5

\* Eviction drops entries from the front, expired ones only.
LEMMA LiveIsATail ==
  ASSUME NEW cache \in Seq(Entries)
  PROVE  \E cut \in 0 .. Len(cache) :
           /\ Live(cache) = SubSeq(cache, cut + 1, Len(cache))
           /\ \A i \in 1 .. cut : Expired(cache[i])
<1> DEFINE stale == {n \in 0 .. Len(cache) : \A i \in 1 .. n : Expired(cache[i])}
           cut == CHOOSE n \in stale : \A k \in stale : k <= n
<1>1. Len(cache) \in Nat
  OBVIOUS
<1>2. 0 \in stale /\ stale \subseteq 0 .. Len(cache)
  BY <1>1
<1>3. \E n \in stale : \A k \in stale : k <= n
  BY <1>1, <1>2, LastPosition
<1>4. cut \in stale
  BY <1>3
<1>5. Live(cache) = SubSeq(cache, cut + 1, Len(cache))
  BY DEF Live
<1> HIDE DEF cut
<1> QED
  BY <1>4, <1>5

\* The cache is the tail of what was taken in; what is before it was taken in a
\* window ago, or has MaxSize messages after it.
Remembers(cache, log, time) ==
  /\ Len(cache) <= Len(log)
  /\ \A k \in 1 .. Len(cache) :
       /\ cache[k].id = IdOf[log[Len(log) - Len(cache) + k].delivery]
       /\ cache[k].at = log[Len(log) - Len(cache) + k].at
  /\ \A i \in 1 .. Len(log) - Len(cache) :
       time - log[i].at >= Ttl \/ Len(log) - i >= MaxSize

\* It still is when its front goes, expired or beyond its size.
LEMMA TailRemembers ==
  ASSUME NEW cache \in Seq(Entries), NEW log \in Seq(Takings), NEW time \in Nat,
         Remembers(cache, log, time), NEW cut \in 0 .. Len(cache),
         \A i \in 1 .. cut : time - cache[i].at >= Ttl \/ Len(cache) - i >= MaxSize
  PROVE  /\ SubSeq(cache, cut + 1, Len(cache)) \in Seq(Entries)
         /\ Len(SubSeq(cache, cut + 1, Len(cache))) = Len(cache) - cut
         /\ Remembers(SubSeq(cache, cut + 1, Len(cache)), log, time)
<1> DEFINE tail == SubSeq(cache, cut + 1, Len(cache))
           n == Len(log)
           m == Len(cache)
<1>1. n \in Nat /\ m \in Nat /\ m <= n /\ cut \in 0 .. m
  BY DEF Remembers
<1>2. \A i \in cut + 1 .. m : cache[i] \in Entries
  BY <1>1
<1>3. /\ tail \in Seq(Entries)
      /\ Len(tail) = m - cut
      /\ \A k \in 1 .. m - cut : tail[k] = cache[cut + k]
  <2>1. /\ tail \in Seq(Entries)
        /\ Len(tail) = IF cut + 1 <= m THEN m - (cut + 1) + 1 ELSE 0
        /\ \A i \in 1 .. m - (cut + 1) + 1 : tail[i] = cache[(cut + 1) + i - 1]
    BY <1>1, <1>2, SubSeqProperties
  <2> QED
    BY <2>1, <1>1
<1> HIDE DEF tail
<1>4. ASSUME NEW k \in 1 .. m - cut
      PROVE  /\ tail[k].id = IdOf[log[n - (m - cut) + k].delivery]
             /\ tail[k].at = log[n - (m - cut) + k].at
  <2>1. cut + k \in 1 .. m /\ n - m + (cut + k) = n - (m - cut) + k
    BY <1>1
  <2>2. /\ cache[cut + k].id = IdOf[log[n - m + (cut + k)].delivery]
        /\ cache[cut + k].at = log[n - m + (cut + k)].at
    BY <2>1 DEF Remembers
  <2> QED
    BY <2>1, <2>2, <1>3
<1>5. ASSUME NEW i \in 1 .. n - (m - cut)
      PROVE  time - log[i].at >= Ttl \/ n - i >= MaxSize
  <2>1. CASE i <= n - m
    BY <2>1, <1>1 DEF Remembers
  <2>2. CASE i > n - m
    <3> DEFINE k == i - (n - m)
    <3>1. k \in 1 .. cut /\ k \in 1 .. m /\ n - m + k = i /\ m - k = n - i
      BY <2>2, <1>1
    <3>2. cache[k].at = log[n - m + k].at
      BY <3>1 DEF Remembers
    <3> QED
      BY <3>1, <3>2
  <2> QED
    BY <2>1, <2>2, <1>1
<1>6. Remembers(tail, log, time)
  BY <1>1, <1>3, <1>4, <1>5 DEF Remembers
<1> QED
  BY <1>3, <1>6 DEF tail

LEMMA LiveRemembers ==
  ASSUME LifecycleTypeOK, Remembers(seen, taken, now)
  PROVE  Live(seen) \in Seq(Entries) /\ Remembers(Live(seen), taken, now)
<1>1. seen \in Seq(Entries) /\ taken \in Seq(Takings) /\ now \in Nat
  BY LifecycleAssumption DEF LifecycleTypeOK, Entries, Takings
<1>2. PICK cut \in 0 .. Len(seen) :
        /\ Live(seen) = SubSeq(seen, cut + 1, Len(seen))
        /\ \A i \in 1 .. cut : Expired(seen[i])
  BY <1>1, LiveIsATail
<1>3. \A i \in 1 .. cut : now - seen[i].at >= Ttl
  BY <1>2 DEF Expired
<1> QED
  BY <1>1, <1>2, <1>3, TailRemembers

LEMMA AppendRemembers ==
  ASSUME NEW cache \in Seq(Entries), NEW log \in Seq(Takings), NEW time \in 0 .. MaxTime,
         NEW d \in Deliveries, Remembers(cache, log, time)
  PROVE  LET longer == Append(cache, [id |-> IdOf[d], at |-> time])
         IN  longer \in Seq(Entries)
             /\ Remembers(longer, Append(log, [delivery |-> d, at |-> time]), time)
<1> DEFINE e == [id |-> IdOf[d], at |-> time]
           t == [delivery |-> d, at |-> time]
           longer == Append(cache, e)
           more == Append(log, t)
           n == Len(log)
           m == Len(cache)
<1>1. e \in Entries /\ t \in Takings
  BY LifecycleAssumption DEF Entries, Takings
<1>2. n \in Nat /\ m \in Nat /\ m <= n
  BY DEF Remembers
<1>3. e.id = IdOf[t.delivery] /\ e.at = t.at
  OBVIOUS
<1>4. /\ longer \in Seq(Entries) /\ Len(longer) = m + 1 /\ longer[m + 1] = e
      /\ \A k \in 1 .. m : longer[k] = cache[k]
  BY <1>1, AppendProperties
<1>5. /\ Len(more) = n + 1 /\ more[n + 1] = t
      /\ \A i \in 1 .. n : more[i] = log[i]
  BY <1>1, AppendProperties
<1> HIDE DEF e, t, longer, more
<1>6. ASSUME NEW k \in 1 .. m + 1
      PROVE  /\ longer[k].id = IdOf[more[(n + 1) - (m + 1) + k].delivery]
             /\ longer[k].at = more[(n + 1) - (m + 1) + k].at
  <2>1. (n + 1) - (m + 1) + k = n - m + k
    BY <1>2
  <2>2. CASE k = m + 1
    <3>1. n - m + k = n + 1
      BY <2>2, <1>2
    <3> QED
      BY <2>1, <2>2, <3>1, <1>3, <1>4, <1>5
  <2>3. CASE k # m + 1
    <3>1. k \in 1 .. m /\ n - m + k \in 1 .. n
      BY <2>3, <1>2
    <3>2. /\ cache[k].id = IdOf[log[n - m + k].delivery]
          /\ cache[k].at = log[n - m + k].at
      BY <3>1 DEF Remembers
    <3> QED
      BY <2>1, <3>1, <3>2, <1>4, <1>5
  <2> QED
    BY <2>2, <2>3
<1>7. ASSUME NEW i \in 1 .. (n + 1) - (m + 1)
      PROVE  time - more[i].at >= Ttl \/ (n + 1) - i >= MaxSize
  <2>1. i \in 1 .. n - m /\ i \in 1 .. n
    BY <1>2
  <2>2. time - log[i].at >= Ttl \/ n - i >= MaxSize
    BY <2>1 DEF Remembers
  <2> QED
    BY <2>1, <2>2, <1>2, <1>5, LifecycleAssumption
<1>8. Remembers(longer, more, time)
  BY <1>2, <1>4, <1>5, <1>6, <1>7 DEF Remembers
<1> QED
  BY <1>4, <1>8 DEF e, t, longer, more

LEMMA BoundedRemembers ==
  ASSUME NEW cache \in Seq(Entries), NEW log \in Seq(Takings), NEW time \in Nat,
         Remembers(cache, log, time)
  PROVE  Bounded(cache) \in Seq(Entries) /\ Remembers(Bounded(cache), log, time)
<1>1. CASE Len(cache) <= MaxSize
  <2>1. Bounded(cache) = cache
    BY <1>1, LifecycleAssumption DEF Bounded
  <2> QED
    BY <2>1
<1>2. CASE Len(cache) > MaxSize
  <2> DEFINE cut == Len(cache) - MaxSize
  <2>1. cut \in 0 .. Len(cache) /\ \A i \in 1 .. cut : Len(cache) - i >= MaxSize
    BY <1>2, LifecycleAssumption
  <2>2. Bounded(cache) = SubSeq(cache, cut + 1, Len(cache))
    BY <1>2 DEF Bounded
  <2> QED
    BY <2>1, <2>2, TailRemembers
<1>3. Len(cache) \in Nat /\ MaxSize \in Nat
  BY LifecycleAssumption
<1> QED
  BY <1>1, <1>2, <1>3

LEMMA LaterRemembers ==
  ASSUME NEW cache \in Seq(Entries), NEW log \in Seq(Takings), NEW time \in Nat,
         Remembers(cache, log, time)
  PROVE  Remembers(cache, log, time + 1)
<1>1. Len(log) \in Nat /\ Len(cache) \in Nat /\ Ttl \in Nat
  BY LifecycleAssumption
<1>2. ASSUME NEW i \in 1 .. Len(log) - Len(cache) PROVE log[i].at \in Nat
  <2>1. i \in 1 .. Len(log)
    BY <1>1
  <2>2. log[i] \in Takings
    BY <2>1
  <2> QED
    BY <2>2, LifecycleAssumption DEF Takings
<1> QED
  BY <1>1, <1>2 DEF Remembers

(***************************************************************************)
(* Deliveries                                                              *)
(***************************************************************************)

LifecycleInv == LifecycleTypeOK /\ Remembers(seen, taken, now) /\ OneTurnPerWindow

LEMMA DropStep ==
  ASSUME LifecycleInv, NEW d \in Deliveries, Drop(d)
  PROVE  LifecycleInv'
<1>1. seen' = Live(seen) /\ UNCHANGED <<now, turn, delivery, taken, closed>>
  BY DEF Drop, Recorded
<1>2. Live(seen) \in Seq(Entries) /\ Remembers(Live(seen), taken, now)
  BY LiveRemembers DEF LifecycleInv
<1>3. LifecycleTypeOK'
  BY <1>1, <1>2 DEF LifecycleInv, LifecycleTypeOK, Entries
<1>4. Remembers(seen, taken, now)'
  BY <1>1, <1>2 DEF Remembers
<1>5. OneTurnPerWindow'
  BY <1>1 DEF LifecycleInv, OneTurnPerWindow
<1> QED
  BY <1>3, <1>4, <1>5 DEF LifecycleInv

LEMMA TakeInStep ==
  ASSUME LifecycleInv, NEW d \in Deliveries, TakeIn(d)
  PROVE  LifecycleInv'
<1> DEFINE live == Live(seen)
           t == [delivery |-> d, at |-> now]
           longer == Append(live, [id |-> IdOf[d], at |-> now])
           n == Len(taken)
           m == Len(live)
<1>1. taken \in Seq(Takings) /\ now \in 0 .. MaxTime /\ now \in Nat /\ t \in Takings
  BY LifecycleAssumption DEF LifecycleInv, LifecycleTypeOK, Takings
<1>2. live \in Seq(Entries) /\ Remembers(live, taken, now)
  BY LiveRemembers DEF LifecycleInv
<1>3. ~Holds(live, IdOf[d]) /\ seen' = Bounded(longer) /\ taken' = Append(taken, t)
      /\ UNCHANGED <<now, closed>>
  BY DEF TakeIn, Recorded
<1>4. longer \in Seq(Entries) /\ Remembers(longer, taken', now)
  BY <1>1, <1>2, <1>3, AppendRemembers
<1>5. /\ taken' \in Seq(Takings) /\ Len(taken') = n + 1 /\ taken'[n + 1] = t
      /\ \A i \in 1 .. n : taken'[i] = taken[i]
  BY <1>1, <1>3, AppendProperties
<1> HIDE DEF longer
<1>6. seen' \in Seq(Entries) /\ Remembers(seen', taken', now)
  BY <1>1, <1>3, <1>4, <1>5, BoundedRemembers
<1>7. LifecycleTypeOK'
  BY <1>3, <1>5, <1>6 DEF TakeIn, LifecycleInv, LifecycleTypeOK, Entries, Takings
<1>8. Remembers(seen, taken, now)'
  BY <1>3, <1>6 DEF Remembers
<1>9. OneTurnPerWindow'
  <2> SUFFICES ASSUME NEW i \in 1 .. n + 1, NEW j \in 1 .. n + 1, i < j,
                      IdOf[taken'[i].delivery] = IdOf[taken'[j].delivery]
               PROVE  taken'[j].at - taken'[i].at >= Ttl \/ j - i > MaxSize
    BY <1>5 DEF OneTurnPerWindow
  <2>1. n \in Nat /\ m \in Nat /\ m <= n
    BY <1>1, <1>2 DEF Remembers
  <2>2. CASE j # n + 1
    <3>1. i \in 1 .. n /\ j \in 1 .. n /\ i \in DOMAIN taken /\ j \in DOMAIN taken
      BY <2>1, <2>2, <1>1
    <3> QED
      BY <3>1, <1>5 DEF LifecycleInv, OneTurnPerWindow
  <2>3. CASE j = n + 1
    <3>1. i \in 1 .. n /\ taken'[i] = taken[i] /\ taken'[j] = t
      BY <2>1, <2>3, <1>5
    <3>2. IdOf[taken[i].delivery] = IdOf[d]
      BY <3>1
    <3>3. i \notin n - m + 1 .. n
      <4> SUFFICES ASSUME i \in n - m + 1 .. n PROVE FALSE
        OBVIOUS
      <4> DEFINE k == i - (n - m)
      <4>1. k \in 1 .. m /\ k \in DOMAIN live /\ n - m + k = i
        BY <2>1, <1>2
      <4>2. live[k].id = IdOf[d]
        BY <4>1, <3>2, <1>2 DEF Remembers
      <4> QED
        BY <4>1, <4>2, <1>3 DEF Holds
    <3>4. i \in 1 .. n - m
      BY <3>1, <3>3, <2>1
    <3>5. now - taken[i].at >= Ttl \/ n - i >= MaxSize
      BY <3>4, <1>2 DEF Remembers
    <3> QED
      BY <3>1, <3>5, <2>1, <2>3, LifecycleAssumption
  <2> QED
    BY <2>2, <2>3
<1> QED
  BY <1>7, <1>8, <1>9 DEF LifecycleInv

LEMMA DeliveryStep ==
  ASSUME LifecycleInv, NEW d \in Deliveries, TurnEnds(d) \/ Background(d)
  PROVE  LifecycleInv'
<1>1. UNCHANGED <<now, seen, taken, closed>>
  BY DEF TurnEnds, Background, Posts, TurnFailed, GivesUp, PostEnds, Wakes
<1>2. LifecycleTypeOK'
  BY DEF TurnEnds, Background, Posts, TurnFailed, GivesUp, PostEnds, Wakes, LifecycleInv,
         LifecycleTypeOK
<1> QED
  BY <1>1, <1>2 DEF LifecycleInv, Remembers, OneTurnPerWindow

LEMMA TickStep ==
  ASSUME LifecycleInv, Tick
  PROVE  LifecycleInv'
<1>1. seen \in Seq(Entries) /\ taken \in Seq(Takings) /\ now \in Nat
  BY LifecycleAssumption DEF LifecycleInv, LifecycleTypeOK, Entries, Takings
<1>2. Remembers(seen, taken, now + 1)
  BY <1>1, LaterRemembers DEF LifecycleInv
<1>3. now' = now + 1 /\ UNCHANGED <<seen, turn, delivery, taken, closed>>
  BY DEF Tick
<1>4. Remembers(seen, taken, now)'
  BY <1>2, <1>3 DEF Remembers
<1>5. LifecycleTypeOK' /\ OneTurnPerWindow'
  BY <1>3, LifecycleAssumption DEF Tick, LifecycleInv, LifecycleTypeOK, OneTurnPerWindow
<1> QED
  BY <1>4, <1>5 DEF LifecycleInv

LEMMA CancelStep ==
  ASSUME LifecycleInv, CancelInflight
  PROVE  LifecycleInv'
<1>1. UNCHANGED <<now, seen, taken>> /\ closed' = TRUE
  BY DEF CancelInflight
<1>2. /\ turn' \in [Deliveries -> {"none", "pending", "replied", "failed", "over"}]
      /\ delivery' \in [Deliveries -> {"none", "waiting", "sending", "ended", "cancelled"}]
  BY DEF CancelInflight, LifecycleInv, LifecycleTypeOK
<1>3. LifecycleTypeOK'
  BY <1>1, <1>2 DEF LifecycleInv, LifecycleTypeOK
<1> QED
  BY <1>1, <1>3 DEF LifecycleInv, Remembers, OneTurnPerWindow

THEOREM LifecycleAlways == Spec => []LifecycleInv
<1>1. Init => LifecycleInv
  <2> SUFFICES ASSUME Init PROVE LifecycleInv
    OBVIOUS
  <2>1. LifecycleTypeOK
    <3>1. now \in 0 .. MaxTime
      BY LifecycleAssumption DEF Init, LifecycleInit
    <3>2. closed \in BOOLEAN
      BY DEF Init, LifecycleInit
    <3>3. /\ seen \in Seq([id : Ids, at : 0 .. MaxTime])
          /\ taken \in Seq([delivery : Deliveries, at : 0 .. MaxTime])
      BY EmptySeq DEF Init, LifecycleInit
    <3>4. /\ turn \in [Deliveries -> {"none", "pending", "replied", "failed", "over"}]
          /\ delivery \in [Deliveries -> {"none", "waiting", "sending", "ended", "cancelled"}]
      BY DEF Init, LifecycleInit
    <3> QED
      BY <3>1, <3>2, <3>3, <3>4 DEF LifecycleTypeOK
  <2>2. Len(seen) = 0 /\ Len(taken) = 0
    BY DEF Init, LifecycleInit
  <2>3. Remembers(seen, taken, now) /\ OneTurnPerWindow
    BY <2>2 DEF Init, LifecycleInit, Remembers, OneTurnPerWindow
  <2> QED
    BY <2>1, <2>3 DEF LifecycleInv
<1>2. LifecycleInv /\ [Next]_vars => LifecycleInv'
  <2> SUFFICES ASSUME LifecycleInv, LifecycleNext PROVE LifecycleInv'
    BY LifecyclePart
  <2>1. CASE UNCHANGED <<now, turn, delivery, taken, closed, seen>>
    BY <2>1 DEF LifecycleInv, LifecycleTypeOK, Remembers, OneTurnPerWindow
  <2> QED
    BY <2>1, DropStep, TakeInStep, DeliveryStep, TickStep, CancelStep DEF LifecycleNext
<1> QED
  BY <1>1, <1>2, PTL DEF Spec

\* A message gets two turns only a window apart, or with as many messages between
\* them as the cache holds (seen_then_record under its two bounds), whatever the
\* platform delivers again, and when.
THEOREM OneTurnPerMessage == Spec => []OneTurnPerWindow
BY LifecycleAlways, PTL DEF LifecycleInv

(***************************************************************************)
(* The two together                                                        *)
(***************************************************************************)

\* Once aclose has run, nothing is in service and no delivery is left.
ClosedInv ==
  closed => Drained /\ \A d \in Deliveries : delivery[d] \notin {"waiting", "sending"}

LEMMA NoHandlerOnceDrained ==
  ASSUME ReceiverInv, Drained, NEW c \in Conns
  PROVE  ~Handle(c)
BY DEF ReceiverInv, NoOrphanHandler, Drained, Handle, HandlerReturns, HandlerRaises

\* A drained receiver stays as it is, but for what its peers do.
LEMMA DrainedStays ==
  ASSUME ReceiverInv, Drained, ReceiverNext
  PROVE  Drained'
<1> USE DEF Drained
<1>1. ASSUME NEW c \in Conns, ReceiverStep(c) PROVE Drained'
  BY <1>1 DEF ReceiverStep, Task, Refuse, Accept, ParseFails, ParseCutShort, Dispatch, WatchEnds,
              HandlerFirst, WatchFirst, Settle, Close, PeerTurns, Serviced
<1>2. ASSUME NEW c \in Conns, NEW code, HandlerReturns(c, code) PROVE Drained'
  BY <1>2 DEF HandlerReturns
<1>3. ASSUME StopListening \/ UNCHANGED receiverVars PROVE Drained'
  BY <1>3 DEF StopListening, receiverVars
<1> QED
  BY <1>1, <1>2, <1>3 DEF ReceiverNext

LEMMA NothingOnceClosed ==
  ASSUME ReceiverInv, ClosedInv, [Next]_vars, closed
  PROVE  delivery' = delivery /\ closed' = closed
<1>1. \A c \in Conns : ~Handle(c)
  BY NoHandlerOnceDrained DEF ClosedInv
<1>2. \A d \in Deliveries : ~Background(d)
  BY DEF ClosedInv, Background, Posts, TurnFailed, GivesUp, PostEnds, Wakes
<1> QED
  BY <1>1, <1>2, OneDeliveryPerConnection
     DEF Next, vars, lifecycleVars, TurnEnds, Tick, Shutdown, CancelInflight, Quiet

LEMMA ClosedStep ==
  ASSUME ReceiverInv, LifecycleTypeOK, ClosedInv, [Next]_vars
  PROVE  ClosedInv'
<1>1. CASE closed
  <2>1. delivery' = delivery
    BY <1>1, NothingOnceClosed
  <2>2. Drained'
    BY <1>1, DrainedStays, ReceiverPart DEF ClosedInv
  <2> QED
    BY <1>1, <2>1, <2>2 DEF ClosedInv
<1>2. CASE ~closed
  <2>1. SUFFICES ASSUME closed' PROVE ClosedInv'
    BY DEF ClosedInv
  <2>2. Drained /\ CancelInflight /\ UNCHANGED receiverVars
    BY <1>2, <2>1
       DEF Next, vars, lifecycleVars, Handle, Drop, TakeIn, TurnEnds, Background, Posts,
           TurnFailed, GivesUp, PostEnds, Wakes, Tick, Shutdown, Quiet
  <2>3. Drained'
    BY <2>2 DEF Drained, receiverVars
  <2>4. \A d \in Deliveries : delivery'[d] \notin {"waiting", "sending"}
    BY <2>2 DEF CancelInflight, InFlight, LifecycleTypeOK
  <2> QED
    BY <2>3, <2>4 DEF ClosedInv
<1> QED
  BY <1>1, <1>2

\* After aclose no delivery is started, posted or ended (cancel_inflight, once
\* the last connection is closed).
THEOREM ClosedStaysClosed == Spec => NothingPostedOnceClosed
<1>1. Init => ClosedInv
  BY DEF Init, LifecycleInit, ClosedInv
<1>2. ReceiverInv /\ LifecycleInv /\ ClosedInv /\ [Next]_vars => ClosedInv'
  BY ClosedStep DEF LifecycleInv
<1>3. ReceiverInv /\ ClosedInv /\ [Next]_vars => [closed => delivery' = delivery]_vars
  BY NothingOnceClosed
<1> QED
  BY <1>1, <1>2, <1>3, ReceiverAlways, LifecycleAlways, PTL DEF Spec, NothingPostedOnceClosed

LEMMA TakenGrows ==
  ASSUME LifecycleTypeOK, LifecycleNext
  PROVE  \A i \in DOMAIN taken : i \in DOMAIN taken' /\ taken'[i] = taken[i]
<1>1. ASSUME NEW d \in Deliveries, TakeIn(d)
      PROVE  \A i \in DOMAIN taken : i \in DOMAIN taken' /\ taken'[i] = taken[i]
  <2>1. taken \in Seq(Takings) /\ [delivery |-> d, at |-> now] \in Takings
    BY DEF LifecycleTypeOK, Takings
  <2>2. taken' = Append(taken, [delivery |-> d, at |-> now])
    BY <1>1 DEF TakeIn
  <2> QED
    BY <2>1, <2>2, AppendProperties
<1>2. ASSUME UNCHANGED taken
      PROVE  \A i \in DOMAIN taken : i \in DOMAIN taken' /\ taken'[i] = taken[i]
  BY <1>2
<1> QED
  BY <1>1, <1>2 DEF LifecycleNext, Drop, TurnEnds, Background, Posts, TurnFailed, GivesUp, PostEnds,
                    Wakes, Tick, CancelInflight

\* A success is answered by the handler alone, which drops or takes in.
LEMMA SuccessIsAHandlers ==
  ASSUME ReceiverTypeOK, [Next]_vars, NEW c \in Conns, status'[c] \in {200, 202},
         status'[c] # status[c]
  PROVE  (HandlerReturns(c, 200) /\ Drop(c)) \/ (HandlerReturns(c, 202) /\ TakeIn(c))
<1>1. ASSUME NEW other \in Conns, ReceiverStep(other) PROVE FALSE
  <2>1. CASE Refuse(other)
    BY <2>1 DEF Refuse, ReceiverTypeOK
  <2>2. CASE ParseFails(other)
    BY <2>2 DEF ParseFails, Refusals, ReceiverTypeOK
  <2>3. CASE UNCHANGED status
    BY <2>3
  <2> QED
    BY <1>1, <2>1, <2>2, <2>3
       DEF ReceiverStep, Task, Accept, ParseCutShort, Dispatch, WatchEnds, HandlerFirst,
           WatchFirst, Settle, Close, PeerTurns
<1>2. ASSUME NEW other \in Conns, NEW code \in {200, 202, 500}, HandlerReturns(other, code)
      PROVE  other = c /\ code # 500
  BY <1>2 DEF HandlerReturns, ReceiverTypeOK
<1>3. PICK other \in Conns : Handle(other)
  <2>1. CASE UNCHANGED receiverVars
    BY <2>1 DEF receiverVars
  <2>2. CASE StopListening
    BY <2>2 DEF StopListening
  <2> QED
    BY <1>1, <2>1, <2>2 DEF Next, vars, Shutdown, Quiet
<1>4. ~HandlerRaises(other)
  BY <1>2 DEF HandlerRaises
<1>5. CASE HandlerReturns(other, 200) /\ Drop(other)
  BY <1>2, <1>5
<1>6. CASE HandlerReturns(other, 202) /\ TakeIn(other)
  BY <1>2, <1>6
<1> QED
  BY <1>3, <1>4, <1>5, <1>6 DEF Handle

\* The two success answers come from a message taken in, now or before.
LEMMA SuccessIsTakenIn ==
  ASSUME LifecycleInv, NEW c \in Conns,
         (HandlerReturns(c, 200) /\ Drop(c)) \/ (HandlerReturns(c, 202) /\ TakeIn(c))
  PROVE  \E i \in DOMAIN taken' : IdOf[taken'[i].delivery] = IdOf[c]
<1>1. c \in Deliveries /\ taken \in Seq(Takings) /\ now \in 0 .. MaxTime
  BY OneDeliveryPerConnection DEF LifecycleInv, LifecycleTypeOK, Takings
<1>2. CASE Drop(c)
  <2> DEFINE live == Live(seen)
             n == Len(taken)
             m == Len(live)
  <2>1. live \in Seq(Entries) /\ Remembers(live, taken, now)
    BY LiveRemembers DEF LifecycleInv
  <2>2. PICK k \in 1 .. m : live[k].id = IdOf[c]
    BY <1>2, <2>1 DEF Drop, Holds
  <2>3. IdOf[taken[n - m + k].delivery] = IdOf[c]
    BY <2>1, <2>2 DEF Remembers
  <2>4. n - m + k \in DOMAIN taken
    BY <1>1, <2>1, <2>2 DEF Remembers
  <2> QED
    BY <1>2, <2>3, <2>4 DEF Drop
<1>3. CASE TakeIn(c)
  <2>1. taken' = Append(taken, [delivery |-> c, at |-> now])
    BY <1>3 DEF TakeIn
  <2>2. [delivery |-> c, at |-> now] \in Takings
    BY <1>1 DEF Takings
  <2>3. Len(taken) + 1 \in DOMAIN taken' /\ taken'[Len(taken) + 1].delivery = c
    BY <1>1, <2>1, <2>2, AppendProperties
  <2> QED
    BY <2>3
<1> QED
  BY <1>2, <1>3

\* What is acknowledged has, or had, a turn under its id: a redelivery is only
\* dropped for an id the cache remembers (accept and the adapter's handler).
THEOREM AcknowledgedHadATurn == Spec => []AcknowledgedHasATurn
<1>1. Init => AcknowledgedHasATurn
  <2> SUFFICES ASSUME Init, NEW c \in Conns PROVE status[c] \notin {200, 202}
    BY DEF AcknowledgedHasATurn
  <2>1. status[c] = None
    BY DEF Init, ReceiverInit
  <2> QED
    BY <2>1, ReceiverAssumption, OneDeliveryPerConnection
<1>2. ReceiverInv /\ LifecycleInv /\ AcknowledgedHasATurn /\ [Next]_vars => AcknowledgedHasATurn'
  <2> SUFFICES ASSUME ReceiverInv, LifecycleInv, AcknowledgedHasATurn, [Next]_vars,
                      NEW c \in Conns, status'[c] \in {200, 202}
               PROVE  \E i \in DOMAIN taken' : IdOf[taken'[i].delivery] = IdOf[c]
    BY DEF AcknowledgedHasATurn
  <2>1. CASE status'[c] = status[c]
    <3>1. PICK i \in DOMAIN taken : IdOf[taken[i].delivery] = IdOf[c]
      BY <2>1 DEF AcknowledgedHasATurn
    <3> QED
      BY <3>1, LifecyclePart, TakenGrows DEF LifecycleInv
  <2>2. CASE status'[c] # status[c]
    <3>1. (HandlerReturns(c, 200) /\ Drop(c)) \/ (HandlerReturns(c, 202) /\ TakeIn(c))
      BY <2>2, SuccessIsAHandlers DEF ReceiverInv
    <3> QED
      BY <3>1, SuccessIsTakenIn
  <2> QED
    BY <2>1, <2>2
<1> QED
  BY <1>1, <1>2, ReceiverAlways, LifecycleAlways, PTL DEF Spec

=============================================================================
