---------------------------- MODULE HttpReceiver ----------------------------
(***************************************************************************)
(* components/http_receiver.py: the bounded HTTP/1.1 receiver in front of  *)
(* every channel adapter.  A connection is refused at the ceiling, or      *)
(* parsed under a deadline, handed to the adapter's handler while a watch  *)
(* looks for the peer's end of file, answered, and closed.                 *)
(*                                                                         *)
(* Each connection is a task of one asyncio loop.  The handler and the     *)
(* watch are tasks of their own: either may end before the connection's    *)
(* task runs again and looks which of them did.                            *)
(***************************************************************************)
EXTENDS Integers, FiniteSets

CONSTANTS
  Conns,     \* client connections
  MaxConns,  \* ReceiverLimits.max_concurrent_connections
  Flaky,     \* bound: the connections whose peer may stall or leave
  Statuses,  \* what a handler answers with
  None

ASSUME ReceiverAssumption ==
  /\ IsFiniteSet(Conns)
  /\ MaxConns \in Nat \ {0}
  /\ None \notin Statuses

VARIABLES
  listening,  \* the server accepts connections
  phase,      \* where the task of each connection is
  active,     \* BoundedHttpReceiver._active
  peer,       \* what the other end does: "there", "stuck" (reads nothing), "gone"
  handler,    \* the handler task: "none", "running", "ended", "cancelled"
  watched,    \* the watch task has seen the end of file
  status      \* the status each connection is answered with, or None

receiverVars == <<listening, phase, active, peer, handler, watched, status>>

\* 400 stands for 408, 413, 414 and 431 as well: each ends the parse.
Refusals == {400}

Serviced == {"parse", "handle", "write"}
InService == {c \in Conns : phase[c] \in Serviced}

ReceiverTypeOK ==
  /\ listening \in BOOLEAN
  /\ phase \in [Conns -> {"new", "close", "done"} \cup Serviced]
  /\ active \in Nat
  /\ peer \in [Conns -> {"there", "stuck", "gone"}]
  /\ handler \in [Conns -> {"none", "running", "ended", "cancelled"}]
  /\ watched \in [Conns -> BOOLEAN]
  /\ status \in [Conns -> Statuses \cup Refusals \cup {500, 503, None}]

ReceiverInit ==
  /\ listening = TRUE
  /\ phase = [c \in Conns |-> "new"]
  /\ active = 0
  /\ peer = [c \in Conns |-> "there"]
  /\ handler = [c \in Conns |-> "none"]
  /\ watched = [c \in Conns |-> FALSE]
  /\ status = [c \in Conns |-> None]

To(c, next) == phase' = [phase EXCEPT ![c] = next]

----------------------------------------------------------------------------
(* The other end *)

\* It stops reading, or closes its side.
PeerTurns(c, to) ==
  /\ c \in Flaky
  /\ \/ phase[c] \in Serviced /\ peer[c] \notin {"gone", to}
     \/ phase[c] = "close" /\ peer[c] = "stuck" /\ to = "gone"
  /\ peer' = [peer EXCEPT ![c] = to]
  /\ UNCHANGED <<listening, phase, active, handler, watched, status>>

----------------------------------------------------------------------------
(* One connection *)

\* Mutant of Full: the ceiling lets one more in.
FullPastCeiling == active > MaxConns

Full == active >= MaxConns

\* Beyond the ceiling: 503 without parsing, and no slot.
Refuse(c) ==
  /\ listening /\ phase[c] = "new" /\ Full
  /\ status' = [status EXCEPT ![c] = 503]
  /\ To(c, "close")
  /\ UNCHANGED <<listening, active, peer, handler, watched>>

Accept(c) ==
  /\ listening /\ phase[c] = "new" /\ ~Full
  /\ active' = active + 1
  /\ To(c, "parse")
  /\ UNCHANGED <<listening, peer, handler, watched, status>>

\* Malformed, over a bound, or out of time (408): the handler never runs.  A reset
\* is raised by the read, and `except Exception` answers it with a 500.
ParseFails(c) ==
  /\ phase[c] = "parse"
  /\ \E code \in Refusals \cup {500} :
       /\ code = 500 => peer[c] = "gone"
       /\ status' = [status EXCEPT ![c] = code]
  /\ To(c, "write")
  /\ UNCHANGED <<listening, active, peer, handler, watched>>

\* End of file within a line or within the body: nothing is answered.
ParseCutShort(c) ==
  /\ phase[c] = "parse" /\ peer[c] = "gone"
  /\ To(c, "write")
  /\ UNCHANGED <<listening, active, peer, handler, watched, status>>

\* The request is in, or its head ended at an end of file between two lines,
\* which _parse takes for the empty line.
Dispatch(c) ==
  /\ phase[c] = "parse"
  /\ handler' = [handler EXCEPT ![c] = "running"]
  /\ To(c, "handle")
  /\ UNCHANGED <<listening, active, peer, watched, status>>

WatchEnds(c) ==
  /\ phase[c] = "handle" /\ ~watched[c] /\ peer[c] = "gone"
  /\ watched' = [watched EXCEPT ![c] = TRUE]
  /\ UNCHANGED <<listening, phase, active, peer, handler, status>>

HandlerReturns(c, code) ==
  /\ handler[c] = "running"
  /\ handler' = [handler EXCEPT ![c] = "ended"]
  /\ status' = [status EXCEPT ![c] = code]
  /\ UNCHANGED <<listening, phase, active, peer, watched>>

\* The handler raises, or its body cannot be encoded: answered with a 500.
HandlerRaises(c) == HandlerReturns(c, 500)

\* The connection's task runs again: the handler's end comes first, also when
\* the watch ended in the same tick.
HandlerFirst(c) ==
  /\ phase[c] = "handle" /\ handler[c] = "ended"
  /\ To(c, "write")
  /\ UNCHANGED <<listening, active, peer, handler, watched, status>>

\* Mutant of WatchFirst: the handler is left running.
WatchOrphans(c) ==
  /\ phase[c] = "handle" /\ handler[c] = "running" /\ watched[c]
  /\ To(c, "write")
  /\ UNCHANGED <<listening, active, peer, handler, watched, status>>

\* The peer is gone: the handler is cancelled and nothing is answered.
WatchFirst(c) ==
  /\ phase[c] = "handle" /\ handler[c] = "running" /\ watched[c]
  /\ handler' = [handler EXCEPT ![c] = "cancelled"]
  /\ To(c, "write")
  /\ UNCHANGED <<listening, active, peer, watched, status>>

\* Mutant of Settle: the slot comes back after the close has been waited for.
SettleAfterClose(c) ==
  /\ phase[c] = "write" /\ peer[c] # "stuck"
  /\ active' = active - 1
  /\ To(c, "close")
  /\ UNCHANGED <<listening, peer, handler, watched, status>>

\* The answer, if there is one, is written: _write swallows a peer that is gone
\* and times out one that does not read.  Then the finally of
\* _handle_connection: the slot first, the close after it.
Settle(c) ==
  /\ phase[c] = "write"
  /\ active' = active - 1
  /\ To(c, "close")
  /\ UNCHANGED <<listening, peer, handler, watched, status>>

\* wait_closed has no timeout: it waits for a peer that reads nothing.
Close(c) ==
  /\ phase[c] = "close" /\ peer[c] # "stuck"
  /\ To(c, "done")
  /\ peer' = [peer EXCEPT ![c] = "gone"]
  /\ UNCHANGED <<listening, active, handler, watched, status>>

\* The serving task is cancelled: no more connections, those there go on.
StopListening ==
  /\ listening
  /\ listening' = FALSE
  /\ UNCHANGED <<phase, active, peer, handler, watched, status>>

Drained == ~listening /\ \A c \in Conns : phase[c] \in {"new", "done"}

\* What a connection does by itself; the handler's own steps are its adapter's.
Task(c) ==
  \/ ParseFails(c) \/ ParseCutShort(c) \/ Dispatch(c) \/ HandlerFirst(c)
  \/ WatchFirst(c) \/ Settle(c)

ReceiverStep(c) ==
  \/ Refuse(c) \/ Accept(c) \/ Task(c) \/ WatchEnds(c) \/ Close(c)
  \/ \E to \in {"stuck", "gone"} : PeerTurns(c, to)

----------------------------------------------------------------------------
(* Properties *)

\* The slots counted are the connections past the gate, at most MaxConns of
\* them: a refused parse, a raising handler, a vanished peer and a cancelled
\* handler each give back theirs, once (the finally of _handle_connection).
SlotsAreConnections ==
  /\ active = Cardinality(InService)
  /\ active <= MaxConns

\* No handler outlives its connection's task ("cancel the in-flight turn, no
\* orphan"): what still runs is awaited by a task that holds a slot for it.
NoOrphanHandler == \A c \in Conns : handler[c] = "running" => phase[c] = "handle"

=============================================================================
