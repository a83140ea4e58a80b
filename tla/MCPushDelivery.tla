--------------------------- MODULE MCPushDelivery ---------------------------
(* A small instance of PushDelivery: two people with a notification each.  *)
EXTENDS PushDelivery

CONSTANTS a1, a2, n1, n2

OneEach == [n \in Notices |-> IF n = n1 THEN a1 ELSE a2]
=============================================================================
