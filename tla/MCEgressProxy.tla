---------------------------- MODULE MCEgressProxy ----------------------------
(* EgressProxy as the proxy runs check it: the connections are model values, *)
(* and each cfg bounds them, the cap, the chunks and the failing appends.    *)
(* No symmetry: `proxy` checks a liveness property.                          *)
EXTENDS EgressProxy

=============================================================================
