-------------------------- MODULE MCWebhookChannel --------------------------
(* Small instances of WebhookChannel: a delivery, its redelivery, another. *)
EXTENDS WebhookChannel, TLC

CONSTANTS c1, c2, c3, hello, bye

MCIdOf == [c \in Conns |-> IF c = c3 THEN bye ELSE hello]

=============================================================================
