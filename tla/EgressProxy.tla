----------------------------- MODULE EgressProxy -----------------------------
(***************************************************************************)
(* keep_egress/proxy.py: the forward proxy every outbound connection of an *)
(* agent goes through.  A connection is shed at the connection cap, or     *)
(* serviced: its request head is read and matched against the allowlist,   *)
(* then it is refused, or dialled and relayed in both directions.  The     *)
(* audit log gets one `connect` record when a serviced connection ends,    *)
(* and an `open` record when a CONNECT tunnel is established.              *)
(*                                                                         *)
(* The proxy is one asyncio event loop with a task for each connection;    *)
(* the steps below are what a task does between two awaits.                *)
(***************************************************************************)
EXTENDS Integers, Sequences, FiniteSets

CONSTANTS
  Conns,           \* client connections
  MaxConnections,  \* the cap on serviced connections
  MaxChunks,       \* bound: chunks relayed in one direction
  MaxFaults,       \* bound: audit appends that raise in one behaviour
  MaxStops,        \* bound: process ends in one behaviour
  None

ASSUME ProxyAssumption ==
  /\ IsFiniteSet(Conns)
  /\ MaxConnections \in Nat \ {0}
  /\ MaxChunks \in Nat \ {0}
  /\ MaxFaults \in Nat
  /\ MaxStops \in Nat

VARIABLES
  phase,    \* where each connection is
  request,  \* what its head turned out to be, or None
  answer,   \* the status line it was sent, or None
  active,   \* EgressProxy._active
  dialed,   \* history: connections whose target was contacted
  pipe,     \* the two relay loops of a tunnel
  relayed,  \* chunks written to the far side
  counter,  \* _ByteCounter, in chunks
  unread,   \* directions whose far side has yet to take what was written
  due,      \* the record the connection will leave, or None
  log,      \* the records each connection left, in order
  unlogged, \* history: connections with an append that raised
  faults,   \* appends that raised so far
  stops     \* process ends so far

relayVars == <<pipe, relayed, counter>>
logVars == <<log, unlogged, faults>>
vars == <<phase, request, answer, active, dialed, relayVars, unread, due, logVars, stops>>

Directions == {"up", "down"}

\* Malformed stands for a head cut short, over the limit or timed out as well;
\* the parser raises on a garbled one.
Requests == {"malformed", "garbled", "unmatched", "connect", "absolute"}

Zero == [d \in Directions |-> 0]

\* The connection a record names is its own, or a new one.
Record == [action : {"connect", "open"}, target : {"own", "invalid"},
           verdict : {"allowed", "denied"}, bytes : [Directions -> Nat],
           id : {"own", "fresh"}]

Serviced == {"head", "dial", "tunnel", "parting", "ending", "closing"}
InService == {c \in Conns : phase[c] \in Serviced}
Ended == {"done", "shed", "cut"}

TypeOK ==
  /\ phase \in [Conns -> {"new"} \cup Serviced \cup Ended]
  /\ request \in [Conns -> Requests \cup {None}]
  /\ answer \in [Conns -> {200, 400, 403, 502, 503, None}]
  /\ active \in Nat
  /\ dialed \subseteq Conns
  /\ pipe \in [Conns -> [Directions -> {"shut", "read", "drain"}]]
  /\ relayed \in [Conns -> [Directions -> 0 .. MaxChunks]]
  /\ counter \in [Conns -> [Directions -> 0 .. MaxChunks]]
  /\ unread \in [Conns -> SUBSET Directions]
  /\ due \in [Conns -> Record \cup {None}]
  /\ log \in [Conns -> Seq(Record)]
  /\ unlogged \subseteq Conns
  /\ faults \in 0 .. MaxFaults
  /\ stops \in 0 .. MaxStops

Init ==
  /\ phase = [c \in Conns |-> "new"]
  /\ request = [c \in Conns |-> None]
  /\ answer = [c \in Conns |-> None]
  /\ active = 0
  /\ dialed = {}
  /\ pipe = [c \in Conns |-> [d \in Directions |-> "shut"]]
  /\ relayed = [c \in Conns |-> Zero]
  /\ counter = [c \in Conns |-> Zero]
  /\ unread = [c \in Conns |-> {}]
  /\ due = [c \in Conns |-> None]
  /\ log = [c \in Conns |-> <<>>]
  /\ unlogged = {}
  /\ faults = 0
  /\ stops = 0

----------------------------------------------------------------------------
(* Records *)

\* Mutant of Closing: the counter is left out.
ClosingUncounted(target, verdict, bytes) ==
  [action |-> "connect", target |-> target, verdict |-> verdict,
   bytes |-> Zero, id |-> "own"]

Closing(target, verdict, bytes) ==
  [action |-> "connect", target |-> target, verdict |-> verdict,
   bytes |-> bytes, id |-> "own"]

\* Mutant of Opening: the open record is of a connection of its own.
OpeningAlone == [Closing("own", "allowed", Zero) EXCEPT !.action = "open", !.id = "fresh"]

Opening == [Closing("own", "allowed", Zero) EXCEPT !.action = "open"]

\* What _handle records of an exception that _proxy_connection let through.
Unexpected == [Closing("invalid", "denied", Zero) EXCEPT !.id = "fresh"]

\* The sink writes the record, or raises and the proxy goes on.
SafeAppend(c, record) ==
  \/ /\ log' = [log EXCEPT ![c] = Append(@, record)]
     /\ UNCHANGED <<unlogged, faults>>
  \/ /\ faults < MaxFaults
     /\ faults' = faults + 1
     /\ unlogged' = unlogged \cup {c}
     /\ UNCHANGED log

To(c, next) == phase' = [phase EXCEPT ![c] = next]

\* The relay is over, or there is none: what is left is the record.
Ends(c, status, record) ==
  /\ To(c, "ending")
  /\ answer' = [answer EXCEPT ![c] = IF status = None THEN @ ELSE status]
  /\ due' = [due EXCEPT ![c] = record]

----------------------------------------------------------------------------
(* One connection *)

AtCap == active >= MaxConnections

Shed(c) ==
  /\ phase[c] = "new" /\ AtCap
  /\ To(c, "shed")
  /\ answer' = [answer EXCEPT ![c] = 503]
  /\ UNCHANGED <<request, active, dialed, relayVars, unread, due, logVars, stops>>

Accept(c) ==
  /\ phase[c] = "new" /\ ~AtCap
  /\ active' = active + 1
  /\ To(c, "head")
  /\ UNCHANGED <<request, answer, dialed, relayVars, unread, due, logVars, stops>>

\* The head is in, or its time is up: refuse, or dial the target.
ReadHead(c) ==
  /\ phase[c] = "head"
  /\ \E r \in Requests :
       /\ request' = [request EXCEPT ![c] = r]
       /\ \/ r = "malformed" /\ Ends(c, 400, Closing("invalid", "denied", Zero))
          \/ r = "unmatched" /\ Ends(c, 403, Closing("own", "denied", Zero))
          \/ r = "garbled" /\ Ends(c, None, Unexpected)
          \/ r \in {"connect", "absolute"} /\ To(c, "dial") /\ UNCHANGED <<answer, due>>
       /\ dialed' = IF r \in {"connect", "absolute"} THEN dialed \cup {c} ELSE dialed
  /\ UNCHANGED <<active, relayVars, unread, logVars, stops>>

\* The target cannot be reached.
DialFails(c) ==
  /\ phase[c] = "dial"
  /\ Ends(c, 502, Closing("own", "allowed", Zero))
  /\ UNCHANGED <<request, active, dialed, relayVars, unread, logVars, stops>>

\* Anything but an OSError from the dial, or a peer that is gone when the 200
\* or the forwarded head is drained.
DialRaises(c) ==
  /\ phase[c] = "dial"
  /\ Ends(c, None, Unexpected)
  /\ UNCHANGED <<request, active, dialed, relayVars, unread, logVars, stops>>

OpensPipes(c) == pipe' = [pipe EXCEPT ![c] = [d \in Directions |-> "read"]]

\* Mutant of Establish: the tunnel is recorded when it closes only.
EstablishUnseen(c) ==
  /\ phase[c] = "dial" /\ request[c] = "connect"
  /\ answer' = [answer EXCEPT ![c] = 200]
  /\ OpensPipes(c)
  /\ To(c, "tunnel")
  /\ UNCHANGED <<request, active, dialed, relayed, counter, unread, due, logVars, stops>>

\* A CONNECT client is told 200, and the open record comes before the relay.
Establish(c) ==
  /\ phase[c] = "dial" /\ request[c] = "connect"
  /\ answer' = [answer EXCEPT ![c] = 200]
  /\ SafeAppend(c, Opening)
  /\ OpensPipes(c)
  /\ To(c, "tunnel")
  /\ UNCHANGED <<request, active, dialed, relayed, counter, unread, due, stops>>

\* The rewritten head of an absolute-form request is its first chunk.
Forward(c) ==
  /\ phase[c] = "dial" /\ request[c] = "absolute"
  /\ relayed' = [relayed EXCEPT ![c]["up"] = 1]
  /\ counter' = [counter EXCEPT ![c]["up"] = 1]
  /\ OpensPipes(c)
  /\ To(c, "tunnel")
  /\ UNCHANGED <<request, answer, active, dialed, unread, due, logVars, stops>>

\* One round of _pipe: write a chunk, drain, count it.
Write(c, d) ==
  /\ phase[c] = "tunnel" /\ pipe[c][d] = "read"
  /\ relayed[c][d] < MaxChunks
  /\ relayed' = [relayed EXCEPT ![c][d] = @ + 1]
  /\ pipe' = [pipe EXCEPT ![c][d] = "drain"]
  /\ UNCHANGED <<phase, request, answer, active, dialed, counter, unread, due, logVars, stops>>

Drained(c, d) ==
  /\ phase[c] = "tunnel" /\ pipe[c][d] = "drain"
  /\ counter' = [counter EXCEPT ![c][d] = @ + 1]
  /\ pipe' = [pipe EXCEPT ![c][d] = "read"]
  /\ UNCHANGED <<phase, request, answer, active, dialed, relayed, unread, due, logVars, stops>>

\* End of file, or an error on either side.
PipeEnds(c, d) ==
  /\ phase[c] = "tunnel" /\ pipe[c][d] # "shut"
  /\ pipe' = [pipe EXCEPT ![c][d] = "shut"]
  /\ UNCHANGED <<phase, request, answer, active, dialed, relayed, counter, unread, due,
                 logVars, stops>>

\* gather waits for both pipes, whichever failed.
PipesDone(c) == \A d \in Directions : pipe[c][d] = "shut"

\* The relay is over and the upstream side is closed.  What was written last may
\* not have left the proxy, in either direction.
TunnelEnds(c) ==
  /\ phase[c] = "tunnel" /\ PipesDone(c)
  /\ To(c, "parting")
  /\ \E ds \in SUBSET {d \in Directions : relayed[c][d] > 0} :
       unread' = [unread EXCEPT ![c] = ds]
  /\ UNCHANGED <<request, answer, active, dialed, relayVars, due, logVars, stops>>

\* wait_closed returns when the buffer is flushed or the transport is lost.
UpstreamCloses(c) ==
  /\ phase[c] = "parting" /\ "up" \notin unread[c]
  /\ Ends(c, None, Closing("own", "allowed", counter[c]))
  /\ UNCHANGED <<request, active, dialed, relayVars, unread, logVars, stops>>

\* A peer reads the rest, or drops the connection.  It need never do either.
PeerTakes(c, d) ==
  /\ d \in unread[c]
  /\ unread' = [unread EXCEPT ![c] = @ \ {d}]
  /\ UNCHANGED <<phase, request, answer, active, dialed, relayVars, due, logVars, stops>>

\* Mutant of LeaveRecord: a refusal leaves no record.
LeaveAllowed(c) ==
  /\ phase[c] = "ending"
  /\ IF due[c].verdict = "denied" THEN UNCHANGED logVars ELSE SafeAppend(c, due[c])
  /\ due' = [due EXCEPT ![c] = None]
  /\ To(c, "closing")
  /\ UNCHANGED <<request, answer, active, dialed, relayVars, unread, stops>>

LeaveRecord(c) ==
  /\ phase[c] = "ending"
  /\ SafeAppend(c, due[c])
  /\ due' = [due EXCEPT ![c] = None]
  /\ To(c, "closing")
  /\ UNCHANGED <<request, answer, active, dialed, relayVars, unread, stops>>

\* Mutant of Released: a failed append skips the decrement.
ReleasedIfLogged(c) == IF c \in unlogged THEN active ELSE active - 1

Released(c) == active - 1

\* Mutant of Release: a failed append ends the task before its cleanup.
ReleaseIfLogged(c) ==
  /\ phase[c] = "closing" /\ "down" \notin unread[c] /\ c \notin unlogged
  /\ active' = Released(c)
  /\ To(c, "done")
  /\ UNCHANGED <<request, answer, dialed, relayVars, unread, due, logVars, stops>>

\* The client side has closed and the slot is given back.
Release(c) ==
  /\ phase[c] = "closing" /\ "down" \notin unread[c]
  /\ active' = Released(c)
  /\ To(c, "done")
  /\ UNCHANGED <<request, answer, dialed, relayVars, unread, due, logVars, stops>>

----------------------------------------------------------------------------
(* The process ends and is started again: connections in service are cut off *)
(* without a record, and the file keeps those it has.                        *)
Stop ==
  /\ stops < MaxStops
  /\ stops' = stops + 1
  /\ phase' = [c \in Conns |-> IF c \in InService THEN "cut" ELSE phase[c]]
  /\ active' = 0
  /\ due' = [c \in Conns |-> None]
  /\ pipe' = [c \in Conns |-> [d \in Directions |-> "shut"]]
  /\ unread' = [c \in Conns |-> {}]
  /\ UNCHANGED <<request, answer, dialed, relayed, counter, logVars>>

Quiet == (\A c \in Conns : phase[c] \in Ended) /\ UNCHANGED vars

Relay(c) == \E d \in Directions : Write(c, d) \/ Drained(c, d) \/ PipeEnds(c, d)

Parts(c) == TunnelEnds(c) \/ UpstreamCloses(c) \/ \E d \in Directions : PeerTakes(c, d)

Dial(c) == DialFails(c) \/ DialRaises(c) \/ Establish(c) \/ Forward(c)

Next ==
  \/ \E c \in Conns :
       \/ Shed(c) \/ Accept(c) \/ ReadHead(c) \/ Dial(c) \/ Relay(c)
       \/ Parts(c) \/ LeaveRecord(c) \/ Release(c)
  \/ Stop
  \/ Quiet

Spec == Init /\ [][Next]_vars

\* The head timeout ends a read, the operating system ends a dial, and what waits
\* for no peer is plain code.  Nothing makes a peer go on in a tunnel, nor take
\* what it was sent: neither close has a timeout.
Fairness ==
  \A c \in Conns :
    /\ WF_vars(ReadHead(c))
    /\ WF_vars(Dial(c))
    /\ WF_vars(TunnelEnds(c))
    /\ WF_vars(UpstreamCloses(c))
    /\ WF_vars(LeaveRecord(c))
    /\ WF_vars(Release(c))

FairSpec == Spec /\ Fairness

----------------------------------------------------------------------------
(* Properties *)

Logged(c, action) == {i \in DOMAIN log[c] : log[c][i].action = action}

\* The slots counted are the connections in service, at most MaxConnections of
\* them: a failing sink, an unexpected exception or a cut relay leaks none and
\* gives none back twice (the outer finally of _handle).
SlotsAreConnections ==
  /\ active = Cardinality(InService)
  /\ active <= MaxConnections

\* A connection leaves one closing record, none before it ends and never two;
\* one that ended without it had the sink raise, one that was shed has none.
OneClosingRecord ==
  \A c \in Conns :
    LET closing == Cardinality(Logged(c, "connect")) IN
      /\ closing <= 1
      /\ closing = 1 => phase[c] \in {"closing", "done", "cut"}
      /\ phase[c] = "done" => closing = 1 \/ c \in unlogged
      /\ phase[c] = "shed" => log[c] = <<>>

\* A tunnel in use is in the log already, whenever the process stops: its open
\* record was written before its first byte, or the sink raised.
TunnelIsObserved ==
  \A c \in Conns :
    /\ request[c] = "connect" /\ (\E d \in Directions : relayed[c][d] > 0)
         => Logged(c, "open") = {1} \/ c \in unlogged
    /\ Logged(c, "open") \subseteq {1}

\* The closing record of a tunnel that has an open record carries the same
\* connection_id, target and verdict, however the relay ended.
PairsCorrelate ==
  \A c \in Conns :
    Logged(c, "open") # {} =>
      \A i \in Logged(c, "connect") :
        /\ i = 2
        /\ log[c][2].id = log[c][1].id
        /\ log[c][2].target = log[c][1].target
        /\ log[c][2].verdict = log[c][1].verdict

\* A closing record reports every chunk that reached the far side, but for the
\* last one of a direction whose drain failed; it reports none that was not
\* written.
BytesAreRelayed ==
  \A c \in Conns : \A i \in Logged(c, "connect") : \A d \in Directions :
    log[c][i].bytes[d] \in {relayed[c][d], relayed[c][d] - 1}

\* The proxy waits for a peer: in the relay, or for one that leaves what it was
\* sent unread.
AwaitsPeer(c) ==
  \/ phase[c] = "tunnel" /\ ~PipesDone(c)
  \/ phase[c] = "parting" /\ "up" \in unread[c]
  \/ phase[c] = "closing" /\ "down" \in unread[c]

\* A serviced connection gives its slot back, or a peer it was relayed to holds
\* it for ever: a silent client, an unreachable target, a failing sink or the
\* proxy's own steps do not.
OnlyPeersHoldSlots ==
  \A c \in Conns : []<>(phase[c] \notin Serviced) \/ <>[]AwaitsPeer(c)

\* A connection recorded as denied had no contact with its target ("Enforcement
\* is FAIL-CLOSED and happens BEFORE any upstream connection", and the record
\* carries the verdict).
DeniedIsNotDialed ==
  \A c \in Conns : \A i \in DOMAIN log[c] :
    log[c][i].verdict = "denied" => c \notin dialed

=============================================================================
