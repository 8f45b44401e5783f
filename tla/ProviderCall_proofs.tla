------------------------ MODULE ProviderCall_proofs ------------------------
(***************************************************************************)
(* ProviderCall for any number of sessions, retries and tools, any backoff *)
(* and any answers: the loop of requests is one call of the router, so the *)
(* router's theorems hold of it; no call is more than MaxRetries + 1       *)
(* requests; and a reply never asks for a tool it was not offered by that  *)
(* name.                                                                   *)
(***************************************************************************)
EXTENDS ProviderCall, ModelRouter_proofs

(***************************************************************************)
(* Helpers                                                                 *)
(***************************************************************************)

\* A shapeless reply costs nothing: to the router it is a call uncharged.
LEMMA NothingIsCharged ==
  ASSUME TypeOK, Complete([in |-> 0, out |-> 0])
  PROVE  Uncharged
<1> DEFINE nothing == [in |-> 0, out |-> 0]
           s == inflight.session
           p == inflight.provider
<1>1. s \in Sessions /\ p \in Providers
  BY DEF TypeOK, Complete, Call
<1>2. Total(nothing) = 0
  BY DEF Total
<1>3. CostOf(p, nothing) = 0
  <2>1. CASE p \in DOMAIN Price
    <3>1. PICK priced \in SUBSET Providers : Price \in [priced -> [in : Nat, out : Nat]]
      BY RouterAssumption
    <3>2. Price[p] \in [in : Nat, out : Nat]
      BY <2>1, <3>1
    <3>3. Price[p].in \in Nat /\ Price[p].out \in Nat
      BY <3>2
    <3>4. \A n \in Nat : 0 * n = 0
      OBVIOUS
    <3> QED
      BY <2>1, <3>3, <3>4 DEF CostOf
  <2>2. CASE p \notin DOMAIN Price
    BY <2>2 DEF CostOf
  <2> QED
    BY <2>1, <2>2
<1>4. inflight # None /\ Charge(s, p, nothing) /\ inflight' = None /\ warned' = warned
  BY DEF Complete
<1>5. spent[s] \in Nat /\ usd[s] \in Nat
  BY <1>1 DEF TypeOK
<1> HIDE DEF nothing, s, p
<1>6. spent' = [spent EXCEPT ![s] = spent[s] + 0]
  BY <1>2, <1>4 DEF Charge
<1>7. usd' = usd \/ usd' = [usd EXCEPT ![s] = usd[s] + 0]
  BY <1>3, <1>4 DEF Charge
<1>8. spent' = spent /\ usd' = usd
  BY <1>5, <1>6, <1>7 DEF TypeOK
<1> QED
  BY <1>4, <1>8 DEF Uncharged

\* The delay before a retry is a natural number and at most the cap, whatever
\* the server asks for.
LEMMA DelayIsCapped ==
  ASSUME NEW n \in 0 .. MaxRetries, NEW ask \in Nat
  PROVE  RetryDelay(n, ask) \in Nat /\ RetryDelay(n, ask) <= Cap
<1> DEFINE backoff == Base * 2^n
<1>1. backoff \in Nat /\ Cap \in Nat
  BY CallAssumption
<1>2. RetryDelay(n, ask) =
        LET delay == IF ask > backoff THEN ask ELSE backoff
        IN IF delay > Cap THEN Cap ELSE delay
  BY DEF RetryDelay
<1> HIDE DEF backoff
<1> QED
  BY <1>1, <1>2

\* A name on the wire that was offered stands for the one granted tool of that
\* name.
LEMMA OneToolOfAName ==
  ASSUME InUse = "anthropic", ~Collides(granted), NEW w,
         NEW t \in granted, Wire[t] = w
  PROVE  Resolved(w) = t
<1> DEFINE offered == Offer(InUse, granted)
<1>1. w \in DOMAIN offered /\ offered[w] = CHOOSE u \in granted : Wire[u] = w
  BY DEF Offer
<1>2. \A u \in granted : Wire[u] = w => u = t
  BY DEF Collides
<1>3. (CHOOSE u \in granted : Wire[u] = w) = t
  BY <1>2
<1>4. Resolved(w) = IF w \in DOMAIN offered THEN offered[w] ELSE w
  BY DEF Resolved
<1> QED
  BY <1>1, <1>3, <1>4

(***************************************************************************)
(* The loop is one call of the router                                      *)
(***************************************************************************)

\* Every step of the loop is a step of the router, or none of its business.
LEMMA CallStep == TypeOK /\ [CallNext]_allVars => [Next]_vars
<1> SUFFICES ASSUME TypeOK, [CallNext]_allVars
             PROVE  [Next]_vars
  OBVIOUS
<1>1. ASSUME NEW s \in Sessions, BudgetRefuses(s)
      PROVE  Next
  BY <1>1 DEF BudgetRefuses, Next
<1>2. ASSUME NEW s \in Sessions, NEW kind \in Kinds, Begin(s, kind)
      PROVE  Next
  BY <1>2 DEF Begin, Next
<1>3. CASE PayloadRaises
  BY <1>3 DEF PayloadRaises, Next
<1>4. ASSUME NEW r \in Answers, ReplyArrives(r)
      PROVE  Next
  <2>1. PICK u \in Usage : Complete(IF r = "ok" THEN u ELSE [in |-> 0, out |-> 0])
    BY <1>4 DEF ReplyArrives
  <2>2. CASE r = "ok"
    BY <2>1, <2>2 DEF Next
  <2>3. CASE r # "ok"
    BY <2>1, <2>3, NothingIsCharged DEF Next
  <2> QED
    BY <2>2, <2>3
<1>5. ASSUME NEW r \in Answers, BacksOff(r)
      PROVE  UNCHANGED vars
  BY <1>5 DEF BacksOff
<1>6. ASSUME NEW r \in Answers, Fails(r)
      PROVE  Next
  BY <1>6 DEF Fails, Next
<1>7. CASE AnswerBegins \/ WakeUp
  BY <1>7 DEF AnswerBegins, WakeUp
<1>8. CASE Quiet \/ UNCHANGED allVars
  BY <1>8 DEF Quiet, allVars
<1> QED
  BY <1>1, <1>2, <1>3, <1>4, <1>5, <1>6, <1>7, <1>8 DEF CallNext

\* The router's types hold of the loop.
LEMMA CallTypes == CallSpec => []TypeOK
<1>1. CallInit => TypeOK
  BY DEF CallInit, Init, TypeOK, Zero
<1>2. TypeOK /\ [CallNext]_allVars => TypeOK'
  BY CallStep, TypeStep
<1> QED
  BY <1>1, <1>2, PTL DEF CallSpec

\* The providers' loop of requests implements the router: the core's one call,
\* retried, failed or answered without a message, is one allowed call charged
\* or not (the three complete methods behind ModelRouter.complete).
THEOREM CallImplementsRouter == CallSpec => Spec
<1>1. CallInit => Init
  BY DEF CallInit
<1> QED
  BY <1>1, CallStep, CallTypes, PTL DEF CallSpec, Spec

\* Under onExceed=block a session passes a ceiling by at most the one call it
\* was allowed, however often that call was sent (record_cost is reached once).
THEOREM CallsKeepTheBudget == CallSpec => []OneCallOvershoot
BY CallImplementsRouter, BudgetHolds, PTL

(***************************************************************************)
(* Requests and delays                                                     *)
(***************************************************************************)

\* What was sent follows the count of retries: level with it until a request
\* ends, one ahead while the loop sleeps.
Counted ==
  /\ stage \in {"post", "read"} => sent = attempt
  /\ stage = "sleep" => sent = attempt + 1 /\ attempt < MaxRetries
  /\ stage = "idle" => sent <= MaxRetries + 1
  /\ waited <= Cap

LoopInv == CallTypeOK /\ Counted

\* The loop begins counted.
LEMMA LoopInit == CallInit => LoopInv
BY CallAssumption DEF CallInit, LoopInv, CallTypeOK, Counted, Zero

\* A step of the loop keeps the types and the count.
LEMMA LoopStep == LoopInv /\ [CallNext]_allVars => LoopInv'
<1> SUFFICES ASSUME LoopInv, [CallNext]_allVars
             PROVE  LoopInv'
  OBVIOUS
<1> USE CallAssumption DEF LoopInv, CallTypeOK, Counted
<1>1. ASSUME NEW s \in Sessions, BudgetRefuses(s)
      PROVE  LoopInv'
  BY <1>1 DEF BudgetRefuses, callVars
<1>2. ASSUME NEW s \in Sessions, NEW kind \in Kinds, Begin(s, kind)
      PROVE  LoopInv'
  <2>1. calls' \in [Sessions -> 0 .. MaxCalls]
    BY <1>2 DEF Begin
  <2>2. stage' \in {"idle", "post"} /\ granted' \subseteq Tools
    BY <1>2 DEF Begin
  <2>3. attempt' = 0 /\ waited' = 0 /\ sent' = 0 /\ adapter' = adapter
    BY <1>2 DEF Begin
  <2> QED
    BY <2>1, <2>2, <2>3
<1>3. CASE PayloadRaises
  BY <1>3 DEF PayloadRaises, callVars
<1>4. ASSUME NEW r \in Answers, ReplyArrives(r) \/ Fails(r)
      PROVE  LoopInv'
  BY <1>4 DEF ReplyArrives, Fails, PostEnds, Sent
<1>5. ASSUME NEW r \in Answers, BacksOff(r)
      PROVE  LoopInv'
  <2>1. PICK ask \in (IF r = "transport" THEN {0} ELSE RetryAfter) :
          waited' = RetryDelay(attempt, ask)
    BY <1>5 DEF BacksOff
  <2>2. waited' \in Nat /\ waited' <= Cap
    BY <2>1, DelayIsCapped
  <2>3. /\ stage \in {"post", "read"} /\ stage' = "sleep" /\ attempt < MaxRetries
        /\ UNCHANGED <<adapter, attempt, granted, calls>>
    BY <1>5 DEF BacksOff, PostEnds, MayRetry
  <2>4. sent' = attempt + 1
    BY <1>5, <2>3 DEF BacksOff, Sent
  <2> QED
    BY <2>2, <2>3, <2>4
<1>6. CASE AnswerBegins \/ WakeUp
  BY <1>6 DEF AnswerBegins, WakeUp
<1>7. CASE Quiet \/ UNCHANGED allVars
  BY <1>7 DEF Quiet, allVars, callVars
<1> QED
  BY <1>1, <1>2, <1>3, <1>4, <1>5, <1>6, <1>7 DEF CallNext

\* The loop's variables have their types in every reachable state.
THEOREM CallTypeCorrect == CallSpec => []CallTypeOK
<1>1. LoopInv => CallTypeOK
  BY DEF LoopInv
<1> QED
  BY <1>1, LoopInit, LoopStep, PTL DEF CallSpec

\* A call is at most MaxRetries + 1 requests and no retry is waited for longer
\* than the cap, at every number of retries and whatever Retry-After asks for
\* (the `attempt` loops of the three providers, retry_delay).
THEOREM CallsAreBounded == CallSpec => []RetriesAreBounded
<1>1. LoopInv => RetriesAreBounded
  BY CallAssumption DEF LoopInv, CallTypeOK, Counted, RetriesAreBounded
<1> QED
  BY <1>1, LoopInit, LoopStep, PTL DEF CallSpec

(***************************************************************************)
(* Tool names                                                              *)
(***************************************************************************)

\* A request the Anthropic adapter has out offers no name twice: the payload
\* raised before the first of them was sent.
OffersAreDistinct ==
  stage # "idle" =>
    /\ inflight # None
    /\ InUse = "anthropic" => ~Collides(granted)

NamesInv == OffersAreDistinct /\ ToolNamesRoundTrip

\* A step of the loop keeps the offers distinct and the names one to one.
LEMMA NamesStep == NamesInv /\ [CallNext]_allVars => NamesInv'
<1> SUFFICES ASSUME NamesInv, [CallNext]_allVars
             PROVE  NamesInv'
  OBVIOUS
<1> USE DEF NamesInv
<1>1. ASSUME NEW s \in Sessions, BudgetRefuses(s)
      PROVE  NamesInv'
  BY <1>1 DEF BudgetRefuses, callVars, OffersAreDistinct, ToolNamesRoundTrip
<1>2. ASSUME NEW s \in Sessions, NEW kind \in Kinds, Begin(s, kind)
      PROVE  NamesInv'
  <2>1. asked' = None
    BY <1>2 DEF Begin
  <2>2. /\ inflight' = [session |-> s, provider |-> ProviderFor(kind)]
        /\ adapter' = adapter
    BY <1>2 DEF Begin, Allow
  <2>3. inflight' \in Call
    BY <2>2, ProviderIsOne DEF Call
  <2>4. inflight' # None
    BY <2>3, RouterAssumption
  <2>5. InUse' = adapter[ProviderFor(kind)]
    BY <2>2 DEF InUse
  <2>6. stage' = IF adapter[ProviderFor(kind)] = "anthropic" /\ Collides(granted')
                 THEN "idle" ELSE "post"
    BY <1>2 DEF Begin
  <2>7. OffersAreDistinct'
    BY <2>4, <2>5, <2>6 DEF OffersAreDistinct, Collides
  <2> QED
    BY <2>1, <2>7 DEF ToolNamesRoundTrip
<1>3. CASE PayloadRaises
  BY <1>3 DEF PayloadRaises, callVars, OffersAreDistinct, ToolNamesRoundTrip
<1>4. ASSUME NEW r \in Answers, ReplyArrives(r)
      PROVE  NamesInv'
  <2>1. stage = "read" /\ stage' = "idle" /\ granted' = granted
    BY <1>4 DEF ReplyArrives
  <2>2. CASE asked' = None
    BY <2>1, <2>2 DEF OffersAreDistinct, ToolNamesRoundTrip
  <2>3. CASE asked' # None
    <3>1. /\ InUse = "anthropic"
          /\ \E w \in WireNames : asked' = [wire |-> w, tool |-> Resolved(w)]
      BY <1>4, <2>3 DEF ReplyArrives
    <3>2. PICK w \in WireNames : asked' = [wire |-> w, tool |-> Resolved(w)]
      BY <3>1
    <3>3. ~Collides(granted)
      BY <2>1, <3>1 DEF OffersAreDistinct
    <3>4. asked'.wire = w /\ asked'.tool = Resolved(w)
      BY <3>2
    <3>5. \A t \in granted : Wire[t] = w => t = Resolved(w)
      BY <3>1, <3>3, OneToolOfAName
    <3> QED
      BY <2>1, <3>4, <3>5 DEF OffersAreDistinct, ToolNamesRoundTrip
  <2> QED
    BY <2>2, <2>3
<1>5. ASSUME NEW r \in Answers, BacksOff(r)
      PROVE  NamesInv'
  BY <1>5 DEF BacksOff, PostEnds, vars, OffersAreDistinct, ToolNamesRoundTrip, InUse
<1>6. ASSUME NEW r \in Answers, Fails(r)
      PROVE  NamesInv'
  BY <1>6 DEF Fails, OffersAreDistinct, ToolNamesRoundTrip
<1>7. CASE AnswerBegins \/ WakeUp
  BY <1>7 DEF AnswerBegins, WakeUp, vars, OffersAreDistinct, ToolNamesRoundTrip, InUse
<1>8. CASE Quiet \/ UNCHANGED allVars
  BY <1>8 DEF Quiet, allVars, callVars, vars, OffersAreDistinct,
              ToolNamesRoundTrip, InUse
<1> QED
  BY <1>1, <1>2, <1>3, <1>4, <1>5, <1>6, <1>7, <1>8 DEF CallNext

\* A reply asks for a granted tool only by the name that tool alone was offered
\* under, whatever the grants and however their names are sanitized (the
\* collision check of AnthropicProvider._payload and wire_to_spec).
THEOREM NamesAreResolved == CallSpec => []ToolNamesRoundTrip
<1>1. CallInit => NamesInv
  BY DEF CallInit, NamesInv, OffersAreDistinct, ToolNamesRoundTrip
<1>2. NamesInv => ToolNamesRoundTrip
  BY DEF NamesInv
<1> QED
  BY <1>1, <1>2, NamesStep, PTL DEF CallSpec

=============================================================================
