------------------------- MODULE MCGatewayConnection -------------------------
(***************************************************************************)
(* GatewayConnection with two senders and a few transport generations.     *)
(***************************************************************************)
EXTENDS GatewayConnection, TLC

=============================================================================
