---------------------------- MODULE SessionStore ----------------------------
(***************************************************************************)
(* components/sqlite_persistence.py over agent_runtime/sessions.py: the    *)
(* transcript of every session, in memory and in the sqlite file.          *)
(*                                                                         *)
(* Each INSERT commits by itself (autocommit), so a stored turn is durable *)
(* when add_message or add_reply returns.  A turn whose INSERT fails is    *)
(* popped from memory before the exception leaves the session.             *)
(***************************************************************************)
EXTENDS Naturals, Sequences

CONSTANTS
  Sessions,  \* session ids
  Turns,     \* the turns a session can be given
  Absent     \* a session this process has not loaded

VARIABLES
  memory,  \* the manager's cache: session -> turns, or Absent
  db       \* the file: session -> turns in seq order

vars == <<memory, db>>

TypeOK ==
  /\ memory \in [Sessions -> Seq(Turns) \cup {Absent}]
  /\ db \in [Sessions -> Seq(Turns)]

\* session_for: the cached session, else the turns read back from the file.
SessionFor(s) == IF memory[s] = Absent THEN db[s] ELSE memory[s]

\* Mutant of RolledBack: the turn is not popped.
KeepsTurn(s, t) == Append(SessionFor(s), t)

\* The turns held in memory after an INSERT that failed.
RolledBack(s, t) == SessionFor(s)

AddTurn(s, t) ==
  /\ memory' = [memory EXCEPT ![s] = Append(SessionFor(s), t)]
  /\ db' = [db EXCEPT ![s] = Append(@, t)]

AddTurnFails(s, t) ==
  /\ memory' = [memory EXCEPT ![s] = RolledBack(s, t)]
  /\ UNCHANGED db

Cold == [s \in Sessions |-> Absent]

Init ==
  /\ memory = Cold
  /\ db = [s \in Sessions |-> <<>>]

\* The process is gone: the file is all that is left.
Restart ==
  /\ memory' = Cold
  /\ UNCHANGED db

Next ==
  \/ \E s \in Sessions, t \in Turns : AddTurn(s, t) \/ AddTurnFails(s, t)
  \/ Restart

Spec == Init /\ [][Next]_vars

----------------------------------------------------------------------------
(* Properties *)

\* A loaded session holds exactly the turns of the file, after failed inserts
\* and after a restart too: nothing feeds a prompt that a restart would lose,
\* and nothing stored is missing from the next prompt.
MemoryMatchesStore ==
  \A s \in Sessions : memory[s] # Absent => memory[s] = db[s]

=============================================================================
