--------------------------- MODULE MCSendDelivery ---------------------------
(* TLC instances of SendDelivery.                                          *)
EXTENDS SendDelivery
=============================================================================
