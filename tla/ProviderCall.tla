---------------------------- MODULE ProviderCall ----------------------------
(***************************************************************************)
(* The HTTP providers (components/anthropic_provider.py,                   *)
(* openai_provider.py, ollama_provider.py) under the router's budget: one  *)
(* allowed call is a loop of requests, and the router sees its end only.   *)
(*                                                                         *)
(* The three adapters run the same loop and differ in what they take for a *)
(* failure.  The services behind them are outside: one may have served a   *)
(* request whose answer never came.  Delays are counted in units of        *)
(* BACKOFF_BASE_SECONDS.                                                   *)
(***************************************************************************)
EXTENDS ModelRouter

CONSTANTS
  MaxRetries,  \* requests after the first
  Base,        \* backoff of the first retry
  Cap,         \* BACKOFF_CAP_SECONDS
  RetryAfter,  \* what the header can ask for; 0 stands for no usable header
  Tools,       \* the granted tools of a prompt
  Wire,        \* tool -> the name the Anthropic API is told
  WireNames,   \* the names a model can answer with
  MaxCalls     \* bound: calls allowed in one session

ASSUME CallAssumption ==
  /\ {MaxRetries, Base, Cap, MaxCalls} \subseteq Nat
  /\ RetryAfter \subseteq Nat
  /\ Wire \in [Tools -> WireNames]
  \* arithmetic, named because the prover knows nothing of powers
  /\ \A n \in 0 .. MaxRetries : Base * 2^n \in Nat

Adapters == {"anthropic", "openai", "ollama"}

VARIABLES
  adapter,  \* the adapter behind each of the router's providers
  stage,    \* the call's loop: "idle", "post", "read", "sleep"
  attempt,  \* retries of this call so far
  waited,   \* its last backoff
  granted,  \* the tools of its prompt
  asked,    \* the name its reply asks for and the tool taken for it, or None
  calls,    \* history: calls allowed to each session
  sent      \* history: requests of this call, counted up to one too many

callVars == <<stage, attempt, waited, granted, asked, calls, sent>>
allVars == <<vars, adapter, callVars>>

CallTypeOK ==
  /\ adapter \in [Providers -> Adapters]
  /\ stage \in {"idle", "post", "read", "sleep"}
  /\ attempt \in 0 .. MaxRetries
  /\ waited \in Nat
  /\ granted \subseteq Tools
  /\ calls \in [Sessions -> 0 .. MaxCalls]
  /\ sent \in 0 .. MaxRetries + 2

CallInit ==
  /\ Init
  /\ adapter \in [Providers -> Adapters]
  /\ stage = "idle"
  /\ attempt = 0
  /\ waited = 0
  /\ granted = {}
  /\ asked = None
  /\ calls = Zero
  /\ sent = 0

----------------------------------------------------------------------------
(* What an adapter makes of an answer *)

\* An OK without a message in it is "shapeless", one that is no JSON "garbled".
Answered == {"ok", "shapeless", "garbled"}
Refused == {"client"}
Answers == Answered \cup Refused \cup {"throttled", "server", "transport"}

AnthropicRetries(r) == r \in {"throttled", "server", "transport"}
OpenAIRetries(r)    == r \in {"throttled", "server", "transport"}
OllamaRetries(r)    == r \in {"server", "transport"}

\* Anthropic's `_reply` takes what it finds; the others want a message.
AnthropicReplies(r) == r \in {"ok", "shapeless"}
OpenAIReplies(r)    == r = "ok"
OllamaReplies(r)    == r = "ok"

Retries(a, r) ==
  \/ a = "anthropic" /\ AnthropicRetries(r)
  \/ a = "openai" /\ OpenAIRetries(r)
  \/ a = "ollama" /\ OllamaRetries(r)

Replies(a, r) ==
  \/ a = "anthropic" /\ AnthropicReplies(r)
  \/ a = "openai" /\ OpenAIReplies(r)
  \/ a = "ollama" /\ OllamaReplies(r)

\* Mutant of RetryDelay: what the server asks for is not capped.
RetryDelayUncapped(n, ask) == IF ask > Base * 2^n THEN ask ELSE Base * 2^n

\* The server's ask if it is longer than the backoff, capped.
RetryDelay(n, ask) ==
  LET backoff == Base * 2^n
      delay == IF ask > backoff THEN ask ELSE backoff
  IN IF delay > Cap THEN Cap ELSE delay

----------------------------------------------------------------------------
(* Tool names *)

\* Mutant of Collides: the name goes to one of the two.
CollidesNever(tools) == FALSE

\* Two tools of a prompt have one name on the wire.
Collides(tools) == \E t, u \in tools : t # u /\ Wire[t] = Wire[u]

\* wire_to_spec; only the Anthropic adapter offers tools.
Offer(a, tools) ==
  [w \in {Wire[t] : t \in IF a = "anthropic" THEN tools ELSE {}} |->
     CHOOSE t \in tools : Wire[t] = w]

----------------------------------------------------------------------------
(* One call *)

InUse == adapter[inflight.provider]

\* A name that was not offered stands for itself.
Resolved(w) ==
  LET offered == Offer(InUse, granted)
  IN IF w \in DOMAIN offered THEN offered[w] ELSE w

\* The router allows a call, and the payload is built: no request is sent if
\* two tools collide.
Begin(s, kind) ==
  /\ calls[s] < MaxCalls
  /\ Allow(s, kind)
  /\ \E tools \in SUBSET Tools :
       /\ granted' = tools
       /\ stage' = IF adapter[ProviderFor(kind)] = "anthropic" /\ Collides(tools)
                   THEN "idle" ELSE "post"
  /\ calls' = [calls EXCEPT ![s] = @ + 1]
  /\ attempt' = 0
  /\ waited' = 0
  /\ asked' = None
  /\ sent' = 0
  /\ UNCHANGED adapter

\* complete raised while the payload was built.
PayloadRaises ==
  /\ stage = "idle" /\ inflight # None
  /\ Uncharged
  /\ UNCHANGED <<adapter, callVars>>

Sent == sent' = IF sent > MaxRetries + 1 THEN sent ELSE sent + 1

\* The first bytes of an answer are in.
AnswerBegins ==
  /\ stage = "post"
  /\ stage' = "read"
  /\ UNCHANGED <<vars, adapter, attempt, waited, granted, asked, calls, sent>>

\* `await client.post` returns or raises r: before an answer begins the request
\* can only be lost or time out.
PostEnds(r) == stage = "read" \/ (stage = "post" /\ r = "transport")

\* A reply: its usage is charged; a shapeless one reports none.
ReplyArrives(r) ==
  /\ stage = "read" /\ Replies(InUse, r)
  /\ \E u \in Usage : Complete(IF r = "ok" THEN u ELSE [in |-> 0, out |-> 0])
  /\ asked' \in IF InUse = "anthropic" /\ r = "ok"
                THEN {None} \cup {[wire |-> w, tool |-> Resolved(w)] : w \in WireNames}
                ELSE {None}
  /\ stage' = "idle"
  /\ Sent
  /\ UNCHANGED <<adapter, attempt, waited, granted, calls>>

MayRetry == attempt < MaxRetries

\* A failure that may pass, with retries left: sleep, then send it again.
BacksOff(r) ==
  /\ PostEnds(r) /\ Retries(InUse, r) /\ MayRetry
  /\ \E ask \in IF r = "transport" THEN {0} ELSE RetryAfter :
       waited' = RetryDelay(attempt, ask)
  /\ stage' = "sleep"
  /\ Sent
  /\ UNCHANGED <<vars, adapter, attempt, granted, asked, calls>>

\* Mutant of WakeUp: `attempt += 1` is forgotten.
WakeUpUncounted ==
  /\ stage = "sleep"
  /\ stage' = "post"
  /\ UNCHANGED <<vars, adapter, attempt, waited, granted, asked, calls, sent>>

WakeUp ==
  /\ stage = "sleep"
  /\ attempt' = attempt + 1
  /\ stage' = "post"
  /\ UNCHANGED <<vars, adapter, waited, granted, asked, calls, sent>>

\* Any other failure, or no retries left: the error goes to the core.
Fails(r) ==
  /\ PostEnds(r)
  /\ ~Replies(InUse, r)
  /\ Retries(InUse, r) => ~MayRetry
  /\ Uncharged
  /\ stage' = "idle"
  /\ Sent
  /\ UNCHANGED <<adapter, attempt, waited, granted, asked, calls>>

BudgetRefuses(s) == stage = "idle" /\ Refuse(s) /\ UNCHANGED <<adapter, callVars>>

\* Every session has had its calls: the rest is the bound's.
Quiet ==
  /\ inflight = None
  /\ \A s \in Sessions : calls[s] = MaxCalls \/ Verdict(s) = "refuse"
  /\ UNCHANGED allVars

CallNext ==
  \/ \E s \in Sessions : BudgetRefuses(s) \/ \E kind \in Kinds : Begin(s, kind)
  \/ PayloadRaises
  \/ AnswerBegins
  \/ \E r \in Answers : ReplyArrives(r) \/ BacksOff(r) \/ Fails(r)
  \/ WakeUp
  \/ Quiet

CallSpec == CallInit /\ [][CallNext]_allVars

\* The timeout of the client bounds each of its waits: for a connection, a write,
\* the next bytes of an answer.  So an answer begins or the request fails, but
\* nothing bounds how long bytes keep coming.  sleep returns.
CallFairness ==
  /\ WF_allVars(PayloadRaises)
  /\ WF_allVars(stage = "post" /\ (AnswerBegins \/ BacksOff("transport") \/ Fails("transport")))
  /\ WF_allVars(WakeUp)

CallFairSpec == CallSpec /\ CallFairness

----------------------------------------------------------------------------
(* Properties *)

\* One call the core audits as one was at most MaxRetries + 1 requests, all of
\* which the service may have served, and no retry was waited for longer than
\* the cap, whatever Retry-After asked for ("capped exponential backoff").
RetriesAreBounded == sent <= MaxRetries + 1 /\ waited <= Cap

\* What a model asks for by a name on the wire is the one granted tool of that
\* name: two grants that sanitize to one name are never both on offer, so the
\* executor is not asked for the wrong one ("collide after sanitization").
ToolNamesRoundTrip ==
  asked # None => \A t \in granted : Wire[t] = asked.wire => t = asked.tool

\* Every allowed call ends, charged or not, unless one answer comes in for ever:
\* requests that are lost, time out or fail, and what Retry-After asks for, do not
\* hold the one worker that waits for it.
CallsEnd == <>[](stage = "read") \/ (inflight # None ~> inflight = None)

=============================================================================
