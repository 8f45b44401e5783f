------------------------- MODULE ModelRouter_proofs -------------------------
(***************************************************************************)
(* ModelRouter for any number of sessions, any ceilings, prices and token  *)
(* counts: the counters have their types, and under onExceed=block no      *)
(* session passes a ceiling by more than the one call it was allowed.      *)
(***************************************************************************)
EXTENDS ModelRouter, TLAPS

(***************************************************************************)
(* Helpers                                                                 *)
(***************************************************************************)

\* What a call costs is a natural number, at every rate a provider can have
\* (ModelPrice.cost).
LEMMA CostIsNat ==
  ASSUME NEW p \in Providers, NEW u \in Usage
  PROVE  Total(u) \in Nat /\ CostOf(p, u) \in Nat
<1>1. u.in \in Nat /\ u.out \in Nat
  BY RouterAssumption
<1>2. \A a, b \in Nat : a * b \in Nat
  OBVIOUS
<1>3. ASSUME p \in DOMAIN Price
      PROVE  Price[p].in \in Nat /\ Price[p].out \in Nat
  <2>1. PICK priced \in SUBSET Providers : Price \in [priced -> [in : Nat, out : Nat]]
    BY RouterAssumption
  <2>2. Price[p] \in [in : Nat, out : Nat]
    BY <1>3, <2>1
  <2> QED
    BY <2>2
<1>4. CASE p \in DOMAIN Price
  BY <1>1, <1>2, <1>3, <1>4 DEF Total, CostOf
<1>5. CASE p \notin DOMAIN Price
  BY <1>1, <1>5 DEF Total, CostOf
<1> QED
  BY <1>4, <1>5

\* The tier selected for a message is one of the two there are.
LEMMA ProviderIsOne == \A kind \in Kinds : ProviderFor(kind) \in Providers
BY DEF Kinds, ProviderFor, Providers

\* An amount below its ceiling passes it by at most the cost that is added.
LEMMA OneStepOvershoots ==
  ASSUME NEW amount \in Nat, NEW cap \in Ceilings, NEW costs, NEW c \in costs,
         c \in Nat, ~AtCap(amount, cap)
  PROVE  Overshoot(amount + c, cap, costs)
<1>1. cap # NoCap => amount < cap
  BY DEF AtCap, Ceilings
<1>2. amount + c - c = amount
  OBVIOUS
<1> QED
  BY <1>1, <1>2 DEF Overshoot

(***************************************************************************)
(* Types                                                                   *)
(***************************************************************************)

\* A step of the router keeps the types.
LEMMA TypeStep == TypeOK /\ [Next]_vars => TypeOK'
<1> SUFFICES ASSUME TypeOK, [Next]_vars
             PROVE  TypeOK'
  OBVIOUS
<1> USE DEF TypeOK
<1>1. ASSUME NEW s \in Sessions, Refuse(s)
      PROVE  TypeOK'
  BY <1>1 DEF Refuse, Ask
<1>2. ASSUME NEW s \in Sessions, NEW kind \in Kinds, Allow(s, kind)
      PROVE  TypeOK'
  BY <1>2, ProviderIsOne DEF Allow, Ask, Call
<1>3. ASSUME NEW u \in Usage, Complete(u)
      PROVE  TypeOK'
  <2> DEFINE s == inflight.session
             p == inflight.provider
  <2>1. s \in Sessions /\ p \in Providers
    BY <1>3 DEF Complete, Call
  <2>2. Total(u) \in Nat /\ CostOf(p, u) \in Nat
    BY <2>1, CostIsNat
  <2> HIDE DEF s, p
  <2>3. Charge(s, p, u) /\ inflight' = None /\ warned' = warned
    BY <1>3 DEF Complete, s, p
  <2> QED
    BY <2>1, <2>2, <2>3 DEF Charge
<1>4. CASE Uncharged
  BY <1>4 DEF Uncharged
<1>5. CASE Restart
  BY <1>5 DEF Restart, Zero
<1>6. CASE UNCHANGED vars
  BY <1>6 DEF vars
<1> QED
  BY <1>1, <1>2, <1>3, <1>4, <1>5, <1>6 DEF Next

\* The router's counters, marks and call in flight have their types in every
\* reachable state.
THEOREM TypeCorrect == Spec => []TypeOK
<1>1. Init => TypeOK
  BY DEF Init, TypeOK, Zero
<1> QED
  BY <1>1, TypeStep, PTL DEF Spec

(***************************************************************************)
(* The budget                                                              *)
(***************************************************************************)

\* Under onExceed=block the call in flight was allowed below both ceilings, and
\* nothing was charged to its session since.
AllowedBelowCap ==
  OnExceed = "block" /\ inflight # None => ~Exceeded(inflight.session)

BudgetInv == AllowedBelowCap /\ OneCallOvershoot

\* A verdict that allows a call under onExceed=block was given below both
\* ceilings.
LEMMA AllowedMeansBelow ==
  ASSUME NEW s \in Sessions, OnExceed = "block", Verdict(s) \in {"ok", "warn"}
  PROVE  ~Exceeded(s)
BY DEF Verdict

\* A session passes either ceiling by at most the cost of the one call that was
\* allowed just below it: the verdict and the charge are two steps, and no call
\* of the session comes between them (AgentCore.call_model, record_cost).
THEOREM BudgetHolds == Spec => []OneCallOvershoot
<1>1. Init => BudgetInv
  BY DEF Init, BudgetInv, AllowedBelowCap, OneCallOvershoot, Overshoot, Zero
<1>2. TypeOK /\ BudgetInv /\ [Next]_vars => BudgetInv'
  <2> SUFFICES ASSUME TypeOK, BudgetInv, [Next]_vars, OnExceed = "block"
               PROVE  BudgetInv'
    BY DEF BudgetInv, AllowedBelowCap, OneCallOvershoot
  <2> USE DEF BudgetInv
  <2>1. ASSUME NEW s \in Sessions, Refuse(s)
        PROVE  BudgetInv'
    BY <2>1 DEF Refuse, AllowedBelowCap, OneCallOvershoot, Exceeded
  <2>2. ASSUME NEW s \in Sessions, NEW kind \in Kinds, Allow(s, kind)
        PROVE  BudgetInv'
    <3>1. ~Exceeded(s)
      BY <2>2, AllowedMeansBelow DEF Allow
    <3>2. inflight'.session = s /\ UNCHANGED <<spent, usd>>
      BY <2>2 DEF Allow
    <3> QED
      BY <3>1, <3>2 DEF AllowedBelowCap, OneCallOvershoot, Exceeded
  <2>3. ASSUME NEW u \in Usage, Complete(u)
        PROVE  BudgetInv'
    <3> DEFINE s == inflight.session
               p == inflight.provider
    <3>1. s \in Sessions /\ p \in Providers
      BY <2>3 DEF Complete, Call, TypeOK
    <3>2. Total(u) \in Nat /\ CostOf(p, u) \in Nat
      BY <3>1, CostIsNat
    <3>3. Total(u) \in CallTokens /\ CostOf(p, u) \in CallDollars
      BY <3>1 DEF CallTokens, CallDollars
    <3>4. ~AtCap(spent[s], TokenCap) /\ ~AtCap(usd[s], UsdCap)
      BY <2>3 DEF Complete, AllowedBelowCap, Exceeded
    <3>5. spent[s] \in Nat /\ usd[s] \in Nat
      BY <3>1 DEF TypeOK
    <3>6. /\ Overshoot(spent[s] + Total(u), TokenCap, CallTokens)
          /\ Overshoot(usd[s] + CostOf(p, u), UsdCap, CallDollars)
      BY <3>2, <3>3, <3>4, <3>5, OneStepOvershoots, RouterAssumption
    <3>7. Charge(s, p, u) /\ inflight' = None
      BY <2>3 DEF Complete
    <3>8. \A x \in Sessions : /\ Overshoot(spent[x], TokenCap, CallTokens)
                              /\ Overshoot(usd[x], UsdCap, CallDollars)
      BY DEF OneCallOvershoot
    <3> HIDE DEF s, p
    <3>9. ASSUME NEW x \in Sessions
          PROVE  /\ Overshoot(spent'[x], TokenCap, CallTokens)
                 /\ Overshoot(usd'[x], UsdCap, CallDollars)
      <4>1. spent'[x] = IF x = s THEN spent[s] + Total(u) ELSE spent[x]
        BY <3>1, <3>7 DEF Charge, TypeOK
      <4>2. usd'[x] = IF x = s /\ UsdCap # NoCap THEN usd[s] + CostOf(p, u) ELSE usd[x]
        BY <3>1, <3>7 DEF Charge, TypeOK
      <4> QED
        BY <3>6, <3>8, <4>1, <4>2
    <3>10. OneCallOvershoot'
      BY <3>9 DEF OneCallOvershoot
    <3> QED
      BY <3>7, <3>10 DEF AllowedBelowCap
  <2>4. CASE Uncharged
    BY <2>4 DEF Uncharged, AllowedBelowCap, OneCallOvershoot
  <2>5. CASE Restart
    BY <2>5 DEF Restart, AllowedBelowCap, OneCallOvershoot, Overshoot, Zero
  <2>6. CASE UNCHANGED vars
    BY <2>6 DEF vars, AllowedBelowCap, OneCallOvershoot, Exceeded
  <2> QED
    BY <2>1, <2>2, <2>3, <2>4, <2>5, <2>6 DEF Next
<1>3. BudgetInv => OneCallOvershoot
  BY DEF BudgetInv
<1> QED
  BY <1>1, <1>2, <1>3, TypeCorrect, PTL DEF Spec

=============================================================================
