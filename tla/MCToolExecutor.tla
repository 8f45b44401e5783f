--------------------------- MODULE MCToolExecutor ---------------------------
(* A small instance of ToolExecutor: one call refused at lookup, one that runs *)
(* at once, and two that must be decided.                                      *)
EXTENDS ToolExecutor, TLC

CONSTANTS asked, sure, risky, rash

GatedSymmetry == Permutations({risky, rash}) \cup Permutations(Triggers)
                   \cup Permutations(Deciders)

=============================================================================
