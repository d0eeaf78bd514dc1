------------------------------ MODULE GatewayLink ------------------------------
(***************************************************************************)
(* What a GatewayConnection promises to the manager and to the senders: a  *)
(* link is connecting, up or dead, calls are accepted only while it is up, *)
(* and the loss of the link ends every open call at once, so that no call  *)
(* of one link is ever answered by the next one.                           *)
(***************************************************************************)
CONSTANT Caller

VARIABLES link, open

vars == <<link, open>>

Init == link = "dead" /\ open = {}

Connect == link = "dead" /\ link' = "connecting" /\ UNCHANGED open

Established == link = "connecting" /\ link' = "up" /\ UNCHANGED open

Refused == link = "connecting" /\ link' = "dead" /\ UNCHANGED open

Lost == link = "up" /\ link' = "dead" /\ open' = {}

Call(t) == link = "up" /\ t \notin open /\ open' = open \cup {t} /\ UNCHANGED link

\* Answered, timed out or refused.
Return(t) == t \in open /\ open' = open \ {t} /\ UNCHANGED link

Next == \/ Connect \/ Established \/ Refused \/ Lost
        \/ \E t \in Caller : Call(t) \/ Return(t)

Spec == Init /\ [][Next]_vars

=============================================================================
