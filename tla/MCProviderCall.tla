--------------------------- MODULE MCProviderCall --------------------------
(* Small instances of ProviderCall: two priced providers, a cheap call and  *)
(* a dear one, and three tools of which two have one name on the wire.      *)
EXTENDS ProviderCall, TLC

CONSTANTS dotted, dashed, plain

MCPrice == [message |-> [in |-> 2, out |-> 3], default |-> [in |-> 1, out |-> 1]]

MCUsage == {[in |-> 1, out |-> 0], [in |-> 1, out |-> 1]}

MCWire == (dotted :> "same") @@ (dashed :> "same") @@ (plain :> "other")

=============================================================================
