--------------------------- MODULE MCGatewayInbox ---------------------------
(* Finite instances of GatewayInbox. *)
EXTENDS GatewayInbox
=============================================================================
