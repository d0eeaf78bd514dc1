-------------------------- MODULE MCPendingRequests --------------------------
(***************************************************************************)
(* PendingRequests with two or three callers.                              *)
(***************************************************************************)
EXTENDS PendingRequests, TLC

\* Callers and futures are interchangeable (safety runs only).
Symmetry == Permutations(Task) \cup Permutations(Future)

=============================================================================
