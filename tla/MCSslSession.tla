----------------------------- MODULE MCSslSession -----------------------------
(***************************************************************************)
(* SslSession with two or three tasks, listeners and streams.              *)
(***************************************************************************)
EXTENDS SslSession, TLC

\* Identities are interchangeable (safety runs only).
Symmetry == Permutations(Listener) \cup Permutations(Beat) \cup Permutations(Stream)

=============================================================================
