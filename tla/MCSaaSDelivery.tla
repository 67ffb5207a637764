--------------------------- MODULE MCSaaSDelivery ---------------------------
(* SaaSDelivery for TLC.                                                   *)
EXTENDS SaaSDelivery, TLC
=============================================================================
