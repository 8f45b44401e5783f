--------------------------- MODULE MCAgentRuntime ---------------------------
(* Small instances of AgentRuntime: one conversation, few tool calls. *)
EXTENDS AgentRuntime, TLC

CONSTANTS m1, m2, room, asked, sure, risky, rash

MCSessionOf == [m \in Messages |-> room]

OneUsage == {[in |-> 1, out |-> 0]}

MCPrice == [message |-> [in |-> 2, out |-> 3], default |-> [in |-> 1, out |-> 1]]

MCUsage == {[in |-> 1, out |-> 0], [in |-> 1, out |-> 1]}

Alike == Permutations(Messages) \cup Permutations(Calls \cap {risky, rash})

=============================================================================
