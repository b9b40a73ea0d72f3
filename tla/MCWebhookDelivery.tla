-------------------------- MODULE MCWebhookDelivery --------------------------
(***************************************************************************)
(* Two notifications for one origin, one of them with a card: the failures *)
(* of each open the circuit of both.                                       *)
(***************************************************************************)
EXTENDS WebhookDelivery, TLC

CONSTANTS h1, h2, o1

MCOriginOf == (h1 :> o1) @@ (h2 :> o1)

=============================================================================
