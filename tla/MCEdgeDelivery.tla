--------------------------- MODULE MCEdgeDelivery ---------------------------
(* EdgeDelivery with one node, one asset and one campaign. *)
EXTENDS EdgeDelivery

MCContents == 1..MaxWindows
=============================================================================
