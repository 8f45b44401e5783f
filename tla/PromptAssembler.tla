--------------------------- MODULE PromptAssembler ---------------------------
(***************************************************************************)
(* components/prompt_assembler.py: what of a session rides into the        *)
(* provider prompt.  A turn is shown as it is stored; every turn but the   *)
(* agent's own is fenced as untrusted content.                             *)
(***************************************************************************)
EXTENDS Integers, Sequences

CONSTANTS
  WindowTurns,  \* sessions.history sliding-window maxTurns, or Full
  Full          \* no strategy wired: the whole transcript is replayed

\* PromptAssembler.__init__ refuses a window below one turn.
WindowOK == WindowTurns \in (Nat \ {0}) \cup {Full}

\* Mutant of LastTurns: the first n.
FirstTurns(turns, n) == SubSeq(turns, 1, IF n < Len(turns) THEN n ELSE Len(turns))

\* turns[-n:]
LastTurns(turns, n) ==
  SubSeq(turns, IF n < Len(turns) THEN Len(turns) - n + 1 ELSE 1, Len(turns))

Shown(turns) == IF WindowTurns = Full THEN turns ELSE LastTurns(turns, WindowTurns)

\* Of the session's turns, the reply turns alone have trust "operator".
Render(turn) == [turn |-> turn, fenced |-> turn.role # "assistant"]

\* The sections of the system context: the persona, then what was remembered.
System(known) == <<"persona">> \o IF known = {} THEN <<>> ELSE <<"facts">>

Assemble(turns, known) ==
  [system   |-> System(known),
   messages |-> [i \in DOMAIN Shown(turns) |-> Render(Shown(turns)[i])]]

=============================================================================
