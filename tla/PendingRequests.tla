---------------------------- MODULE PendingRequests ----------------------------
(***************************************************************************)
(* How answers find the calls that wait for them on the cloud channel:     *)
(* pending_requests.py and its users in ssl_client.py.                     *)
(*                                                                         *)
(* A control registers "control:<device>" inside _send_packet, replacing   *)
(* an older request, and looks its future up again once the packet is      *)
(* out.  The other requests hold on to the future they registered and are  *)
(* refused while one is pending.  send_temp_password (cmd=246) and         *)
(* delete_authorization (cmd=247) share one key.                           *)
(***************************************************************************)
EXTENDS Naturals, FiniteSets

CONSTANTS
    Task,              \* concurrent callers
    Device,            \* devices that are controlled
    Future,            \* identities of asyncio futures
    None               \* Python's None

Exclusive == {"temp_password", "delete_authorization", "cos_auth"}

Request == Device \cup Exclusive

\* The correlation key of a request.
KeyOf(r) == IF r \in {"temp_password", "delete_authorization"} THEN "temp_authorization" ELSE r

Key == Device \cup {"temp_authorization", "cos_auth"}

ASSUME PendingAssumption ==
    /\ None \notin Future \cup Request \cup Key \cup {"pending", "cancelled"}
    /\ Device \cap (Exclusive \cup {"temp_authorization", "pending", "cancelled"}) = {}

VARIABLES
    futures,    \* per future: its key, "pending", None, "cancelled" or an answer, and
                \* whether the call that registered it was cancelled in its send
    registry,   \* PendingRequests._futures
    calls,      \* per task: where its call is and its future
    wire        \* answers the server may still send

vars == <<futures, registry, calls, wire>>

Call == [pc : {"idle", "sending", "waiting"}, request : Request \cup {None},
         future : Future \cup {None}]

Ended == [pc |-> "idle", request |-> None, future |-> None]

Unused == [key |-> None, state |-> None, abandoned |-> FALSE]

New(r) == [key |-> KeyOf(r), state |-> "pending", abandoned |-> FALSE]

Init ==
    /\ futures = [f \in Future |-> Unused]
    /\ registry = [k \in Key |-> None]
    /\ calls = [t \in Task |-> Ended]
    /\ wire = {}

-----------------------------------------------------------------------------
(* The registry *)

Pending(f) == f # None /\ futures[f].state = "pending"

Free == {f \in Future : /\ \A k \in Key : registry[k] # f
                        /\ \A t \in Task : calls[t].future # f
                        /\ ~Pending(f)}

\* The futures with a result set on those of S that are pending.
SetResult(S, result) ==
    [f \in Future |-> IF f \in S /\ Pending(f) THEN [futures[f] EXCEPT !.state = result]
                      ELSE futures[f]]

\* The registry without f, if it is still there (wait's finally, cancel).
Without(f) == [k \in Key |-> IF registry[k] = f THEN None ELSE registry[k]]

\* The new state; a future with a result that nothing refers to is forgotten.
Becomes(fs, reg, cls) ==
    /\ registry' = reg
    /\ calls' = cls
    /\ futures' = [f \in Future |->
                     IF \/ fs[f].state = "pending"
                        \/ \E k \in Key : reg[k] = f
                        \/ \E t \in Task : cls[t].future = f
                       THEN fs[f] ELSE Unused]

CallEnds(t) == [calls EXCEPT ![t] = Ended]

\* Mutant of Register: the replaced future is left as it is.
RegisterOver(t, r, f) ==
    Becomes([futures EXCEPT ![f] = New(r)],
            [registry EXCEPT ![KeyOf(r)] = f],
            [calls EXCEPT ![t] = [pc |-> "sending", request |-> r, future |-> f]])

\* register(): a future that was pending under the key ends with None.
Register(t, r, f) ==
    Becomes([SetResult({registry[KeyOf(r)]}, None) EXCEPT ![f] = New(r)],
            [registry EXCEPT ![KeyOf(r)] = f],
            [calls EXCEPT ![t] = [pc |-> "sending", request |-> r, future |-> f]])

CancelAll(cls) ==
    Becomes(SetResult({registry[k] : k \in Key}, None), [k \in Key |-> None], cls)

-----------------------------------------------------------------------------
(* The calls *)

\* A second request on an exclusive key is refused: nothing changes.
Start(t, r) ==
    /\ calls[t].pc = "idle"
    /\ r \in Exclusive => ~Pending(registry[KeyOf(r)])
    /\ \E f \in Free : Register(t, r, f)
    /\ UNCHANGED wire

\* The packet is out and its answer awaited.  A control asks the registry
\* for the future: none there, no answer; and it need not be its own.
SentExclusive(t) ==
    /\ calls[t].pc = "sending" /\ calls[t].request \in Exclusive
    /\ Becomes(futures, registry, [calls EXCEPT ![t].pc = "waiting"])
    /\ wire' = wire \cup {calls[t].request}

WaitForControl(t) ==
    /\ calls[t].pc = "sending" /\ calls[t].request \in Device
    /\ LET f == registry[calls[t].request] IN
       Becomes(futures, registry,
               IF f = None THEN CallEnds(t)
               ELSE [calls EXCEPT ![t].pc = "waiting", ![t].future = f])
    /\ UNCHANGED wire

\* Mutant of SendFails: a failed send does not cancel its request.
SendFailsSilently(t) ==
    /\ calls[t].pc = "sending"
    /\ Becomes(futures, registry, CallEnds(t))
    /\ UNCHANGED wire

\* _send_packet returned False.  An exclusive request is cancelled; a control
\* ends with None, or stays registered when there was no writer.
SendFails(t) ==
    /\ calls[t].pc = "sending"
    /\ \/ /\ calls[t].request \in Exclusive
          /\ Becomes(SetResult({calls[t].future}, None), Without(calls[t].future), CallEnds(t))
       \/ /\ calls[t].request \in Device
          /\ Becomes(SetResult({registry[calls[t].request]}, None), registry, CallEnds(t))
       \/ /\ calls[t].request \in Device
          /\ Becomes(futures, registry, CallEnds(t))
    /\ UNCHANGED wire

\* _send_packet raised: its _reconnect has run cancel_all before.  Only
\* send_cos_auth reacts, and cancels what others have registered since.
SendRaises(t) ==
    /\ calls[t].pc = "sending" /\ ~Pending(calls[t].future)
    /\ IF calls[t].request = "cos_auth" THEN CancelAll(CallEnds(t))
       ELSE Becomes(futures, registry, CallEnds(t))
    /\ UNCHANGED wire

\* The awaited future is done; a cancelled one raises in whoever awaits it.
Returns(t) ==
    /\ calls[t].pc = "waiting" /\ ~Pending(calls[t].future)
    /\ Becomes(futures, Without(calls[t].future), CallEnds(t))
    /\ UNCHANGED wire

\* wait_for gives up and cancels the future.
TimesOut(t) ==
    /\ calls[t].pc = "waiting" /\ Pending(calls[t].future)
    /\ Becomes(SetResult({calls[t].future}, "cancelled"), Without(calls[t].future), CallEnds(t))
    /\ UNCHANGED wire

\* The caller's task is cancelled: a wait cleans up, a send does not.
CallCancelled(t) ==
    /\ \/ /\ calls[t].pc = "waiting"
          /\ Becomes(SetResult({calls[t].future}, "cancelled"), Without(calls[t].future),
                     CallEnds(t))
       \/ /\ calls[t].pc = "sending"
          /\ Becomes([futures EXCEPT ![calls[t].future].abandoned = TRUE], registry,
                     CallEnds(t))
    /\ UNCHANGED wire

-----------------------------------------------------------------------------
(* The listener *)

\* resolve(): cmd=42 and 352 come for any device at any time, the others
\* answer a request, be it long given up.
Receive(r) ==
    /\ r \in wire \cup Device
    /\ Becomes(SetResult({registry[KeyOf(r)]}, r), registry, calls)
    /\ wire' = wire \ {r}

\* _disconnect: what was under way on the stream is lost.
Disconnect == CancelAll(calls) /\ wire' = {}

Step(t) ==
    \/ SentExclusive(t) \/ WaitForControl(t) \/ SendFails(t) \/ SendRaises(t)
    \/ Returns(t) \/ TimesOut(t)

Next ==
    \/ \E t \in Task : \/ \E r \in Request : Start(t, r)
                       \/ Step(t)
                       \/ CallCancelled(t)
    \/ \E r \in Request : Receive(r)
    \/ Disconnect

Spec == Init /\ [][Next]_vars

-----------------------------------------------------------------------------
(* Properties *)

\* Type correctness of the registry and the calls; a call at work has a future.
PendingTypeOK ==
    /\ futures \in [Future -> [key : Key \cup {None},
                               state : Request \cup {None, "pending", "cancelled"},
                               abandoned : BOOLEAN]]
    /\ registry \in [Key -> Future \cup {None}]
    /\ calls \in [Task -> Call]
    /\ \A t \in Task : calls[t].pc = "idle" <=> calls[t].future = None
    /\ wire \subseteq Exclusive

(***************************************************************************)
(* Whatever is pending is found: a future without a result is the          *)
(* registered one of its key.  So "at most one in-flight response for each *)
(* correlation key" holds, an answer reaches the calls that wait for it,   *)
(* and _disconnect wakes everyone, also when controls of one device        *)
(* replace each other while a wait times out.                              *)
(***************************************************************************)
PendingIsRegistered ==
    \A f \in Future : Pending(f) => futures[f].key # None /\ registry[futures[f].key] = f

(***************************************************************************)
(* No request on an exclusive key is refused for good: while a future is   *)
(* pending there, some call is at work that will end it.  The exception is *)
(* a caller cancelled in the middle of its send, which leaves the key      *)
(* taken until an answer or a disconnect.                                  *)
(***************************************************************************)
ExclusiveKeysReleased ==
    \A k \in Key \ Device :
        Pending(registry[k]) =>
            \/ futures[registry[k]].abandoned
            \/ \E t \in Task : calls[t].future = registry[k] /\ KeyOf(calls[t].request) = k

(***************************************************************************)
(* send_temp_password "returns the full response" of cmd=246, and          *)
(* delete_authorization that of cmd=247: a call never ends with the answer *)
(* to a request of another kind.                                           *)
(***************************************************************************)
AnswersMatch ==
    [][\A t \in Task :
          calls[t].pc = "waiting" /\ calls'[t].pc = "idle"
             => futures[calls[t].future].state \notin Request \ {calls[t].request}]_vars

(***************************************************************************)
(* _wait_for_control_response returns the packet "or None": a command is   *)
(* not cancelled because another command of the same device gave up.       *)
(***************************************************************************)
WaitReturns ==
    \A t \in Task : calls[t].pc = "waiting" => futures[calls[t].future].state # "cancelled"

=============================================================================
