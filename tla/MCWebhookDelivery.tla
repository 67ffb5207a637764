------------------------- MODULE MCWebhookDelivery -------------------------
(* Instances of WebhookDelivery for TLC.                                   *)
EXTENDS WebhookDelivery, TLC

CONSTANTS m1, m2, g1, g2

Symmetric == Permutations(Workers) \union Permutations(Messages)
=============================================================================
