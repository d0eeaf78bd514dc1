----------------------------- MODULE MCAccount -----------------------------
(* TLC instance of Account: two devices, each in a group of its own. *)
EXTENDS Account

CONSTANTS d1, d2

MCGroupOf == [d \in Device |-> IF d = d1 THEN "lights" ELSE "locks"]

=============================================================================
