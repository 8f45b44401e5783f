---------------------------- MODULE ModelRouter ----------------------------
(***************************************************************************)
(* components/model_router.py: which provider serves a call, and the token *)
(* and USD budget of a session.  The counters live in memory and belong to *)
(* one process: a restart begins again at zero.                            *)
(*                                                                         *)
(* The router is called by one worker, in the order verdict, provider      *)
(* call, charge; `inflight` is that protocol, and AgentCore is shown to    *)
(* keep it.  USD amounts are counted in micro-dollars, so the division by  *)
(* one million of ModelPrice.cost disappears.                              *)
(***************************************************************************)
EXTENDS Integers

CONSTANTS
  Sessions,        \* session ids
  TokenCap,        \* maxTokensPerSession, or NoCap
  UsdCap,          \* maxUsdPerSession, or NoCap
  OnExceed,        \* "block" or "warn"
  HasMessageTier,  \* the spec declares a tier named after the message kind
  Price,           \* rates of the priced providers: provider -> [in, out]
  Usage,           \* the token counts a provider can report: set of [in, out]
  NoCap,           \* an absent ceiling
  None             \* no call in flight

Providers == {"message", "default"}
Kinds     == {"message", "trigger"}

Ceilings == Nat \cup {NoCap}

Call == [session : Sessions, provider : Providers]

ASSUME RouterAssumption ==
  /\ TokenCap \in Ceilings
  /\ UsdCap \in Ceilings
  /\ NoCap \notin Nat
  /\ None \notin Call
  /\ OnExceed \in {"block", "warn"}
  /\ HasMessageTier \in BOOLEAN
  /\ Usage \subseteq [in : Nat, out : Nat]
  /\ \E priced \in SUBSET Providers : Price \in [priced -> [in : Nat, out : Nat]]

VARIABLES
  spent,     \* tokens charged to each session
  usd,       \* micro-dollars charged to each session
  warned,    \* sessions whose one budget warning was given
  inflight   \* the allowed call: [session, provider], or None

vars == <<spent, usd, warned, inflight>>

TypeOK ==
  /\ spent \in [Sessions -> Nat]
  /\ usd \in [Sessions -> Nat]
  /\ warned \subseteq Sessions
  /\ inflight \in Call \cup {None}

Total(u) == u.in + u.out

\* What provider p costs for usage u; an unpriced provider charges nothing.
CostOf(p, u) ==
  IF p \in DOMAIN Price THEN u.in * Price[p].in + u.out * Price[p].out ELSE 0

ProviderFor(kind) ==
  IF kind = "message" /\ HasMessageTier THEN "message" ELSE "default"

\* Mutant of AtCap: a session at its ceiling may go on.
OverCap(amount, cap) == cap # NoCap /\ amount > cap

AtCap(amount, cap) == cap # NoCap /\ amount >= cap

Exceeded(s) == AtCap(spent[s], TokenCap) \/ AtCap(usd[s], UsdCap)

Verdict(s) ==
  CASE ~Exceeded(s)                           -> "ok"
    [] Exceeded(s) /\ OnExceed = "block"      -> "refuse"
    [] Exceeded(s) /\ OnExceed = "warn"       ->
         IF s \in warned THEN "ok" ELSE "warn"

\* Mutant of Ask: the mark is forgotten.
AskForgets(s) == warned' = warned

\* budget_verdict marks the session as warned while it answers "warn".
Ask(s) == warned' = IF Verdict(s) = "warn" THEN warned \cup {s} ELSE warned

\* Mutant of Charge: output tokens are free.
ChargeInput(s, p, u) ==
  /\ spent' = [spent EXCEPT ![s] = @ + u.in]
  /\ UNCHANGED usd

\* record_cost: tokens always, dollars only under a USD budget.
Charge(s, p, u) ==
  /\ spent' = [spent EXCEPT ![s] = @ + Total(u)]
  /\ usd' = IF UsdCap = NoCap THEN usd
            ELSE [usd EXCEPT ![s] = @ + CostOf(p, u)]

Zero == [s \in Sessions |-> 0]

Init ==
  /\ spent = Zero
  /\ usd = Zero
  /\ warned = {}
  /\ inflight = None

\* No call is made: the budget is spent, or the audit record of the warning
\* could not be written and the message fails, its session marked all the same.
Refuse(s) ==
  /\ inflight = None
  /\ Verdict(s) \in {"refuse", "warn"}
  /\ Ask(s)
  /\ UNCHANGED <<spent, usd, inflight>>

Allow(s, kind) ==
  /\ inflight = None
  /\ Verdict(s) \in {"ok", "warn"}
  /\ Ask(s)
  /\ inflight' = [session |-> s, provider |-> ProviderFor(kind)]
  /\ UNCHANGED <<spent, usd>>

Complete(u) ==
  /\ inflight # None
  /\ Charge(inflight.session, inflight.provider, u)
  /\ inflight' = None
  /\ UNCHANGED warned

\* The provider raised, or the record of the call could not be written.
Uncharged ==
  /\ inflight # None
  /\ inflight' = None
  /\ UNCHANGED <<spent, usd, warned>>

Restart ==
  /\ spent' = Zero
  /\ usd' = Zero
  /\ warned' = {}
  /\ inflight' = None

Next ==
  \/ \E s \in Sessions :
       \/ Refuse(s)
       \/ \E kind \in Kinds : Allow(s, kind)
  \/ \E u \in Usage : Complete(u)
  \/ Uncharged
  \/ Restart

Spec == Init /\ [][Next]_vars

----------------------------------------------------------------------------
(* Properties *)

CallTokens  == {Total(u) : u \in Usage}
CallDollars == {CostOf(p, u) : p \in Providers, u \in Usage}

\* An amount is at most one call past its ceiling.
Overshoot(amount, cap, costs) ==
  cap # NoCap /\ amount > 0 => \E c \in costs : amount - c < cap

\* onExceed=block: a session's recorded spend passes either ceiling by at most
\* the cost of the one call that was allowed just below it ("a session
\* overshoots by at most one"), whatever provider served it.
OneCallOvershoot ==
  OnExceed = "block" =>
    \A s \in Sessions :
      /\ Overshoot(spent[s], TokenCap, CallTokens)
      /\ Overshoot(usd[s], UsdCap, CallDollars)

\* A process gives a session its one warning only once a ceiling is reached,
\* and never takes the mark back while the session stays over it.
WarnedIsOverBudget == \A s \in warned : OnExceed = "warn" /\ Exceeded(s)

=============================================================================
