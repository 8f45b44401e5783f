---------------------------- MODULE MCAgentCore ----------------------------
(* Small instances of AgentCore. *)
EXTENDS AgentCore, TLC

CONSTANTS m1, m2, m3, m4, room, hall

\* m3 is from the hall, as m4 is, whom the gate forbids; the others share the room.
MCSessionOf == [m \in Messages |-> IF m \in {m3, m4} THEN hall ELSE room]

OneUsage == {[in |-> 1, out |-> 1]}

\* The room's messages are alike.
RoomSymmetry == Permutations(Rostered \ {m3})

\* Only the provider of the message tier is priced.
MCPrice == [message |-> [in |-> 1, out |-> 2]]

=============================================================================
