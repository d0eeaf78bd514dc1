--------------------------- MODULE MCGatewayManager ---------------------------
(***************************************************************************)
(* GatewayManager with two endpoints and one or two callers.               *)
(***************************************************************************)
EXTENDS GatewayManager, TLC

\* Callers and identities are interchangeable (safety runs only).
Symmetry == Permutations(Caller) \cup Permutations(ConnId) \cup Permutations(RecordId)

=============================================================================
