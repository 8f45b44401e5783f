---------------------------- MODULE ApprovalGate ----------------------------
(***************************************************************************)
(* What the approval gate promises about every tool call the model asks    *)
(* for: a call outside the autoApprove list reaches its tool at most once, *)
(* and only by a decision a named person made on it; a call that was       *)
(* refused, or lost with its process, never does.                          *)
(***************************************************************************)
CONSTANTS
  Calls,         \* tool calls, one identity each
  AutoApproved,  \* those that name an autoApprove tool
  Deciders,      \* who can decide
  Policy,        \* "policy:auto"
  None

VARIABLES
  gate,  \* "none", "parked", "open" or "shut"
  by,    \* who opened the gate: a decider, Policy, or None
  ran    \* calls that reached their tool

vars == <<gate, by, ran>>

Init ==
  /\ gate = [c \in Calls |-> "none"]
  /\ by = [c \in Calls |-> None]
  /\ ran = {}

Park(c) ==
  /\ gate[c] = "none" /\ c \notin AutoApproved
  /\ gate' = [gate EXCEPT ![c] = "parked"]
  /\ UNCHANGED <<by, ran>>

\* The tool may still deny the call at its own boundary.
Open(c, who) ==
  /\ \/ gate[c] = "none" /\ c \in AutoApproved /\ who = Policy
     \/ gate[c] = "parked" /\ who \in Deciders
  /\ gate' = [gate EXCEPT ![c] = "open"]
  /\ by' = [by EXCEPT ![c] = who]
  /\ ran' \in {ran, ran \cup {c}}

\* Refused by the spec or by a decider.
Shut(c) ==
  /\ gate[c] \in {"none", "parked"}
  /\ gate' = [gate EXCEPT ![c] = "shut"]
  /\ UNCHANGED <<by, ran>>

\* The process ends: what was parked can no longer be decided.
Lose ==
  /\ gate' = [c \in Calls |-> IF gate[c] = "parked" THEN "shut" ELSE gate[c]]
  /\ UNCHANGED <<by, ran>>

Next ==
  \/ \E c \in Calls : Park(c) \/ Shut(c)
  \/ \E c \in Calls, who \in Deciders \cup {Policy} : Open(c, who)
  \/ Lose

Spec == Init /\ [][Next]_vars

=============================================================================
