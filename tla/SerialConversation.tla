------------------------- MODULE SerialConversation -------------------------
(***************************************************************************)
(* What the worker promises about the transcripts, whatever fails: a       *)
(* message is heard at most once, one exchange is open at a time, and a    *)
(* reply closes the exchange of the message it answers.  An exchange that  *)
(* fails, is cancelled or dies with the process is abandoned: its message  *)
(* stays in the transcript without a reply.                                *)
(***************************************************************************)
EXTENDS Naturals, Sequences

CONSTANTS
  Messages,   \* inbound messages
  Sessions,   \* session ids
  SessionOf,  \* sessions.session_key
  None        \* no open exchange

UserTurn(m)  == [role |-> "user", msg |-> m]
ReplyTurn(m) == [role |-> "assistant", msg |-> m]
Turns        == [role : {"user", "assistant"}, msg : Messages]

VARIABLES
  db,   \* the stored transcript of every session
  open  \* the message whose exchange is open, or None

vars == <<db, open>>

Holds(m, t) == \E i \in DOMAIN db[SessionOf[m]] : db[SessionOf[m]][i] = t

Store(m, t) == db' = [db EXCEPT ![SessionOf[m]] = Append(@, t)]

Init ==
  /\ db = [s \in Sessions |-> <<>>]
  /\ open = None

Hear(m) ==
  /\ open = None
  /\ ~Holds(m, UserTurn(m))
  /\ Store(m, UserTurn(m))
  /\ open' = m

Reply ==
  /\ open # None
  /\ Store(open, ReplyTurn(open))
  /\ open' = None

Abandon ==
  /\ open # None
  /\ open' = None
  /\ UNCHANGED db

Next == (\E m \in Messages : Hear(m)) \/ Reply \/ Abandon

Spec == Init /\ [][Next]_vars

----------------------------------------------------------------------------
TypeOK ==
  /\ db \in [Sessions -> Seq(Turns)]
  /\ open \in Messages \cup {None}

\* In every stored transcript a reply comes right after the message it
\* answers: no other message's turn, from any failure, slips between them.
ReplyFollowsItsMessage ==
  \A s \in Sessions : \A i \in DOMAIN db[s] :
    db[s][i].role = "assistant" =>
      i > 1 /\ db[s][i - 1] = UserTurn(db[s][i].msg)

\* No message is stored twice, and no message is answered twice.
NoTurnTwice ==
  \A s \in Sessions : \A i, j \in DOMAIN db[s] : db[s][i] = db[s][j] => i = j

=============================================================================
