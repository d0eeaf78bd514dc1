------------------------- MODULE PendingRequestsProofs -------------------------
(***************************************************************************)
(* Proofs about PendingRequests, for any number of callers, devices and    *)
(* futures.  PendingIsRegistered is inductive together with the types: a   *)
(* step that takes an entry out of the registry sets a result on it, or it *)
(* had one.  That an exclusive key is released follows from it: the call   *)
(* that ends is the only one that holds the future.                        *)
(***************************************************************************)
EXTENDS PendingRequests, TLAPS

FutureState == [key : Key \cup {None}, state : Request \cup {None, "pending", "cancelled"},
                abandoned : BOOLEAN]

Inv == PendingTypeOK /\ PendingIsRegistered

\* Every request has a key of the registry, and a control's key is its device.
LEMMA KeyOfRequest ==
    /\ \A r \in Request : KeyOf(r) \in Key
    /\ \A r \in Device : KeyOf(r) = r /\ r \in Key
    /\ \A r \in Exclusive : KeyOf(r) \in Key \ Device
    /\ None \notin Future /\ None \notin Key
    /\ "pending" # None /\ "pending" # "cancelled" /\ "pending" \notin Request
  BY PendingAssumption DEF KeyOf, Key, Request, Exclusive

(***************************************************************************)
(* Setting a result keeps the types, ends what was pending in S and leaves *)
(* the rest alone.                                                         *)
(***************************************************************************)
LEMMA SetResultFacts ==
    ASSUME PendingTypeOK, NEW S, NEW result \in Request \cup {None, "cancelled"}
    PROVE  /\ SetResult(S, result) \in [Future -> FutureState]
           /\ \A f \in Future : SetResult(S, result)[f].state = "pending"
                 => f \notin S /\ Pending(f) /\ SetResult(S, result)[f] = futures[f]
  BY KeyOfRequest DEF SetResult, PendingTypeOK, FutureState, Pending

(***************************************************************************)
(* The new state is well typed, and a future that was left pending is the  *)
(* registered one of its key, if that was so of what the step computed.    *)
(***************************************************************************)
LEMMA BecomesFacts ==
    ASSUME PendingTypeOK,
           NEW fs \in [Future -> FutureState], NEW reg \in [Key -> Future \cup {None}],
           NEW cls \in [Task -> Call],
           \A t \in Task : cls[t].pc = "idle" <=> cls[t].future = None,
           \A f \in Future : fs[f].state = "pending" => fs[f].key # None /\ reg[fs[f].key] = f,
           Becomes(fs, reg, cls), wire' \subseteq Exclusive
    PROVE  Inv'
<1>1. futures' \in [Future -> FutureState]
  BY DEF Becomes, Unused, FutureState
<1>2. PendingTypeOK'
  BY <1>1 DEF Becomes, PendingTypeOK, FutureState
<1>3. \A f \in Future : futures'[f].state = "pending" => futures'[f] = fs[f]
  BY KeyOfRequest DEF Becomes, Unused
<1>4. PendingIsRegistered'
  BY <1>3 DEF Becomes, PendingIsRegistered, Pending
<1> QED BY <1>2, <1>4 DEF Inv

\* A call that ends leaves the calls well typed.
LEMMA CallEndsFacts ==
    ASSUME PendingTypeOK, NEW t \in Task
    PROVE  /\ CallEnds(t) \in [Task -> Call]
           /\ \A u \in Task : CallEnds(t)[u].pc = "idle" <=> CallEnds(t)[u].future = None
  BY DEF CallEnds, Ended, PendingTypeOK, Call

\* Leaving a future without a result, or giving it one, keeps the invariant.
LEMMA EndsFuture ==
    ASSUME Inv, NEW t \in Task, NEW f \in Future,
           NEW result \in Request \cup {None, "cancelled"},
           Becomes(SetResult({f}, result), Without(f), CallEnds(t)), UNCHANGED wire
    PROVE  Inv'
<1>1. Without(f) \in [Key -> Future \cup {None}]
  BY DEF Without, Inv, PendingTypeOK
<1>2. \A g \in Future : SetResult({f}, result)[g].state = "pending" =>
         /\ SetResult({f}, result)[g].key # None
         /\ Without(f)[SetResult({f}, result)[g].key] = g
  BY SetResultFacts DEF Inv, PendingIsRegistered, Without, PendingTypeOK
<1>3. SetResult({f}, result) \in [Future -> FutureState]
  BY SetResultFacts DEF Inv
<1>4. /\ CallEnds(t) \in [Task -> Call]
      /\ \A u \in Task : CallEnds(t)[u].pc = "idle" <=> CallEnds(t)[u].future = None
  BY CallEndsFacts DEF Inv
<1>5. wire' \subseteq Exclusive
  BY DEF Inv, PendingTypeOK
<1> QED
  BY <1>1, <1>2, <1>3, <1>4, <1>5, BecomesFacts DEF Inv

\* A step that changes only the calls.
LEMMA OnlyCalls ==
    ASSUME Inv, NEW cls \in [Task -> Call],
           \A t \in Task : cls[t].pc = "idle" <=> cls[t].future = None,
           Becomes(futures, registry, cls), wire' \subseteq Exclusive
    PROVE  Inv'
<1>1. \A f \in Future : futures[f].state = "pending"
         => futures[f].key # None /\ registry[futures[f].key] = f
  BY KeyOfRequest DEF Inv, PendingIsRegistered, Pending
<1> QED
  BY <1>1, BecomesFacts DEF Inv, PendingTypeOK, FutureState

\* A step that sets a result on some futures and changes no registration.
LEMMA OnlyResults ==
    ASSUME Inv, NEW S, NEW result \in Request \cup {None, "cancelled"},
           NEW cls \in [Task -> Call],
           \A t \in Task : cls[t].pc = "idle" <=> cls[t].future = None,
           Becomes(SetResult(S, result), registry, cls), wire' \subseteq Exclusive
    PROVE  Inv'
<1>1. \A f \in Future : SetResult(S, result)[f].state = "pending" =>
         /\ SetResult(S, result)[f].key # None
         /\ registry[SetResult(S, result)[f].key] = f
  BY SetResultFacts DEF Inv, PendingIsRegistered
<1>2. SetResult(S, result) \in [Future -> FutureState]
  BY SetResultFacts DEF Inv
<1>3. registry \in [Key -> Future \cup {None}]
  BY DEF Inv, PendingTypeOK
<1> QED
  BY <1>1, <1>2, <1>3, BecomesFacts DEF Inv

\* cancel_all leaves nothing pending.
LEMMA CancelsEverything ==
    ASSUME Inv, NEW cls \in [Task -> Call],
           \A t \in Task : cls[t].pc = "idle" <=> cls[t].future = None,
           CancelAll(cls), wire' \subseteq Exclusive
    PROVE  Inv'
<1> DEFINE S == {registry[k] : k \in Key}
<1>1. \A f \in Future : SetResult(S, None)[f].state # "pending"
  BY SetResultFacts DEF Inv, PendingIsRegistered, PendingTypeOK
<1>2. [k \in Key |-> None] \in [Key -> Future \cup {None}]
  OBVIOUS
<1>3. SetResult(S, None) \in [Future -> FutureState]
  BY SetResultFacts DEF Inv
<1>4. Becomes(SetResult(S, None), [k \in Key |-> None], cls)
  BY DEF CancelAll
<1> HIDE DEF S
<1> QED
  BY <1>1, <1>2, <1>3, <1>4, BecomesFacts DEF Inv

\* register() gives the key to the new future and a result to the old one.
LEMMA Registers ==
    ASSUME Inv, NEW t \in Task, NEW r \in Request, NEW f \in Free,
           Register(t, r, f), UNCHANGED wire
    PROVE  Inv'
<1> DEFINE fs == [SetResult({registry[KeyOf(r)]}, None) EXCEPT ![f] = New(r)]
           reg == [registry EXCEPT ![KeyOf(r)] = f]
           cls == [calls EXCEPT ![t] = [pc |-> "sending", request |-> r, future |-> f]]
<1>1. f \in Future /\ KeyOf(r) \in Key
  BY KeyOfRequest DEF Free
<1>2. fs \in [Future -> FutureState]
  BY <1>1, SetResultFacts DEF Inv, FutureState, New
<1>3. reg \in [Key -> Future \cup {None}]
  BY <1>1 DEF Inv, PendingTypeOK
<1>4. /\ cls \in [Task -> Call]
      /\ \A u \in Task : cls[u].pc = "idle" <=> cls[u].future = None
  BY <1>1, KeyOfRequest DEF Inv, PendingTypeOK, Call
<1>5. \A g \in Future : fs[g].state = "pending" => fs[g].key # None /\ reg[fs[g].key] = g
  <2> SUFFICES ASSUME NEW g \in Future, fs[g].state = "pending"
               PROVE  fs[g].key # None /\ reg[fs[g].key] = g
    OBVIOUS
  <2>1. CASE g = f
    BY <2>1, <1>1, KeyOfRequest, SetResultFacts DEF Inv, PendingTypeOK, New
  <2>2. CASE g # f
    <3>1. fs[g] = SetResult({registry[KeyOf(r)]}, None)[g]
      BY <2>2, <1>1, SetResultFacts DEF Inv
    <3>2. g # registry[KeyOf(r)] /\ Pending(g) /\ fs[g] = futures[g]
      BY <3>1, SetResultFacts DEF Inv
    <3> QED
      BY <3>2, <1>1 DEF Inv, PendingIsRegistered, PendingTypeOK
  <2> QED BY <2>1, <2>2
<1>6. Becomes(fs, reg, cls)
  BY DEF Register
<1>7. wire' \subseteq Exclusive
  BY DEF Inv, PendingTypeOK
<1> HIDE DEF fs, reg, cls
<1> QED
  BY <1>2, <1>3, <1>4, <1>5, <1>6, <1>7, BecomesFacts DEF Inv

(***************************************************************************)
(* The invariant holds for ever: pending_requests.py loses no future that  *)
(* somebody waits for.                                                     *)
(***************************************************************************)
THEOREM PendingInvariant == Spec => []Inv
<1>1. Init => Inv
  BY KeyOfRequest DEF Init, Inv, PendingTypeOK, PendingIsRegistered, Pending, Unused, Ended,
                      Call
<1>2. Inv /\ [Next]_vars => Inv'
  <2> SUFFICES ASSUME Inv, [Next]_vars PROVE Inv'
    OBVIOUS
  <2> USE DEF Inv
  <2>1. ASSUME NEW t \in Task, NEW r \in Request, Start(t, r) PROVE Inv'
    BY <2>1, Registers DEF Start
  <2>2. ASSUME NEW t \in Task, SentExclusive(t) PROVE Inv'
    <3> DEFINE cls == [calls EXCEPT ![t].pc = "waiting"]
    <3>1. cls \in [Task -> Call] /\ \A u \in Task : cls[u].pc = "idle" <=> cls[u].future = None
      BY <2>2 DEF SentExclusive, PendingTypeOK, Call
    <3>2. Becomes(futures, registry, cls) /\ wire' \subseteq Exclusive
      BY <2>2 DEF SentExclusive, PendingTypeOK
    <3> HIDE DEF cls
    <3> QED BY <3>1, <3>2, OnlyCalls
  <2>3. ASSUME NEW t \in Task, WaitForControl(t) PROVE Inv'
    <3> DEFINE f == registry[calls[t].request]
               cls == IF f = None THEN CallEnds(t)
                      ELSE [calls EXCEPT ![t].pc = "waiting", ![t].future = f]
    <3>1. f \in Future \cup {None}
      BY <2>3, KeyOfRequest DEF WaitForControl, PendingTypeOK
    <3>2. cls \in [Task -> Call] /\ \A u \in Task : cls[u].pc = "idle" <=> cls[u].future = None
      <4>1. CASE f = None
        BY <4>1, CallEndsFacts
      <4>2. CASE f # None
        BY <4>2, <3>1, <2>3 DEF WaitForControl, PendingTypeOK, Call
      <4> QED BY <4>1, <4>2
    <3>3. Becomes(futures, registry, cls) /\ wire' \subseteq Exclusive
      BY <2>3 DEF WaitForControl, PendingTypeOK
    <3> HIDE DEF f, cls
    <3> QED BY <3>2, <3>3, OnlyCalls
  <2>4. ASSUME NEW t \in Task, SendFails(t) PROVE Inv'
    <3>1. calls[t].future \in Future /\ wire' \subseteq Exclusive
      BY <2>4 DEF SendFails, PendingTypeOK, Call
    <3>2. CASE Becomes(SetResult({calls[t].future}, None), Without(calls[t].future), CallEnds(t))
      BY <3>1, <3>2, <2>4, EndsFuture DEF SendFails
    <3>3. CASE Becomes(SetResult({registry[calls[t].request]}, None), registry, CallEnds(t))
      BY <3>1, <3>3, OnlyResults, CallEndsFacts
    <3>4. CASE Becomes(futures, registry, CallEnds(t))
      BY <3>1, <3>4, OnlyCalls, CallEndsFacts
    <3> QED BY <2>4, <3>2, <3>3, <3>4 DEF SendFails
  <2>5. ASSUME NEW t \in Task, SendRaises(t) PROVE Inv'
    <3>1. wire' \subseteq Exclusive
      BY <2>5 DEF SendRaises, PendingTypeOK
    <3>2. CASE CancelAll(CallEnds(t))
      BY <3>1, <3>2, CancelsEverything, CallEndsFacts
    <3>3. CASE Becomes(futures, registry, CallEnds(t))
      BY <3>1, <3>3, OnlyCalls, CallEndsFacts
    <3> QED BY <2>5, <3>2, <3>3 DEF SendRaises
  <2>6. ASSUME NEW t \in Task, Returns(t) PROVE Inv'
    <3>1. calls[t].future \in Future /\ ~Pending(calls[t].future)
      BY <2>6 DEF Returns, PendingTypeOK, Call
    <3>2. SetResult({calls[t].future}, None) = futures
      BY <3>1 DEF SetResult, PendingTypeOK
    <3> QED BY <2>6, <3>1, <3>2, EndsFuture DEF Returns
  <2>7. ASSUME NEW t \in Task, TimesOut(t) PROVE Inv'
    <3>1. calls[t].future \in Future
      BY <2>7 DEF TimesOut, PendingTypeOK, Call
    <3> QED BY <2>7, <3>1, EndsFuture DEF TimesOut
  <2>8. ASSUME NEW t \in Task, CallCancelled(t) PROVE Inv'
    <3>1. calls[t].future \in Future /\ UNCHANGED wire /\ wire' \subseteq Exclusive
      BY <2>8 DEF CallCancelled, PendingTypeOK, Call
    <3>2. CASE Becomes(SetResult({calls[t].future}, "cancelled"), Without(calls[t].future),
                       CallEnds(t))
      BY <3>1, <3>2, EndsFuture
    <3> DEFINE fs == [futures EXCEPT ![calls[t].future].abandoned = TRUE]
    <3>3. CASE Becomes(fs, registry, CallEnds(t))
      <4>1. fs \in [Future -> FutureState]
        BY <3>1 DEF PendingTypeOK, FutureState
      <4>2. \A g \in Future : fs[g].state = "pending"
               => fs[g].key # None /\ registry[fs[g].key] = g
        BY KeyOfRequest DEF PendingTypeOK, PendingIsRegistered, Pending
      <4>3. registry \in [Key -> Future \cup {None}]
        BY DEF PendingTypeOK
      <4> HIDE DEF fs
      <4> QED BY <3>1, <3>3, <4>1, <4>2, <4>3, BecomesFacts, CallEndsFacts
    <3> QED BY <2>8, <3>2, <3>3 DEF CallCancelled
  <2>9. ASSUME NEW r \in Request, Receive(r) PROVE Inv'
    <3>1. wire' \subseteq Exclusive /\ calls \in [Task -> Call]
          /\ \A u \in Task : calls[u].pc = "idle" <=> calls[u].future = None
      BY <2>9 DEF Receive, PendingTypeOK
    <3>2. Becomes(SetResult({registry[KeyOf(r)]}, r), registry, calls)
      BY <2>9 DEF Receive
    <3> QED BY <3>1, <3>2, OnlyResults
  <2>10. ASSUME Disconnect PROVE Inv'
    <3>1. wire' \subseteq Exclusive /\ CancelAll(calls)
      BY <2>10 DEF Disconnect
    <3> QED BY <3>1, CancelsEverything DEF PendingTypeOK
  <2>11. CASE UNCHANGED vars
    BY <2>11 DEF vars, PendingTypeOK, PendingIsRegistered, Pending
  <2> QED
    BY <2>1, <2>2, <2>3, <2>4, <2>5, <2>6, <2>7, <2>8, <2>9, <2>10, <2>11 DEF Next, Step
<1> QED BY <1>1, <1>2, PTL DEF Spec

\* Type correctness of the registry and the calls.
THEOREM TypeCorrect == Spec => []PendingTypeOK
  BY PendingInvariant, PTL DEF Inv

\* A future without a result is the registered one of its key.
THEOREM NothingPendingIsLost == Spec => []PendingIsRegistered
  BY PendingInvariant, PTL DEF Inv

-----------------------------------------------------------------------------
\* A call on k holds the registered future, or was cancelled in its send.
Served(k) ==
    \/ futures[registry[k]].abandoned
    \/ \E t \in Task : calls[t].future = registry[k] /\ KeyOf(calls[t].request) = k

(***************************************************************************)
(* A step that leaves the entry of k alone or takes its future out of the  *)
(* pending ones keeps k released, if the calls that hold it stay.          *)
(***************************************************************************)
LEMMA KeepsReleased ==
    ASSUME Inv, ExclusiveKeysReleased, NEW fs, NEW reg, NEW cls, Becomes(fs, reg, cls),
           NEW k \in Key \ Device, Pending(registry[k])',
           reg[k] \in {registry[k], None},
           \A f \in Future : fs[f].state = "pending"
              => Pending(f) /\ (futures[f].abandoned => fs[f].abandoned),
           \A t \in Task : calls[t].future = registry[k] /\ KeyOf(calls[t].request) = k
              => \/ cls[t] = calls[t]
                 \/ fs[registry[k]].state # "pending" \/ fs[registry[k]].abandoned
                 \/ cls[t].future = calls[t].future /\ cls[t].request = calls[t].request
    PROVE  Served(k)'
<1>1. registry' = reg /\ calls' = cls /\ registry'[k] = registry[k] /\ registry[k] \in Future
  BY DEF Becomes, Pending, Inv, PendingTypeOK
<1>2. fs[registry[k]].state = "pending"
  BY <1>1, KeyOfRequest DEF Becomes, Pending, Unused
<1>3. futures'[registry[k]] = fs[registry[k]]
  BY <1>1, <1>2 DEF Becomes
<1>4. CASE futures[registry[k]].abandoned
  BY <1>1, <1>2, <1>3, <1>4 DEF Served
<1>5. CASE ~futures[registry[k]].abandoned
  <2>1. PICK t \in Task : calls[t].future = registry[k] /\ KeyOf(calls[t].request) = k
    BY <1>1, <1>2, <1>5 DEF ExclusiveKeysReleased
  <2> QED BY <1>1, <1>2, <1>3, <2>1 DEF Served
<1> QED BY <1>4, <1>5

(***************************************************************************)
(* An exclusive key is released: send_temp_password, delete_authorization  *)
(* and send_cos_auth end their future before they end themselves, whatever *)
(* the send and the wait did, unless they are cancelled in the send.       *)
(***************************************************************************)
THEOREM KeysReleased == Spec => []ExclusiveKeysReleased
<1>1. Init => ExclusiveKeysReleased
  BY DEF Init, ExclusiveKeysReleased, Pending
<1>2. Inv /\ ExclusiveKeysReleased /\ [Next]_vars => ExclusiveKeysReleased'
  <2> SUFFICES ASSUME Inv, ExclusiveKeysReleased, [Next]_vars,
                      NEW k \in Key \ Device, Pending(registry[k])'
               PROVE  Served(k)'
    BY DEF ExclusiveKeysReleased, Served
  <2>0. /\ registry[k] \in Future \cup {None}
        /\ \A t \in Task : /\ calls[t].pc = "idle" <=> calls[t].future = None
                           /\ calls[t].request \in Request \cup {None}
        /\ \A f \in Future : futures[f].state = "pending" => Pending(f)
    BY KeyOfRequest DEF Inv, PendingTypeOK, Call, Pending
  <2>R. ASSUME NEW S, NEW result \in Request \cup {None, "cancelled"}, NEW f \in Future,
               SetResult(S, result)[f].state = "pending"
        PROVE  Pending(f) /\ f \notin S /\ SetResult(S, result)[f] = futures[f]
    BY <2>R, SetResultFacts DEF Inv
  <2>1. ASSUME NEW t \in Task, NEW r \in Request, Start(t, r) PROVE Served(k)'
    <3>1. PICK f \in Free : Register(t, r, f)
      BY <2>1 DEF Start
    <3> DEFINE fs == [SetResult({registry[KeyOf(r)]}, None) EXCEPT ![f] = New(r)]
               reg == [registry EXCEPT ![KeyOf(r)] = f]
               cls == [calls EXCEPT ![t] = [pc |-> "sending", request |-> r, future |-> f]]
    <3>2. Becomes(fs, reg, cls)
      BY <3>1 DEF Register
    <3>3. registry' = reg /\ calls' = cls
      BY <3>2 DEF Becomes
    <3>4. CASE k = KeyOf(r)
      BY <3>3, <3>4 DEF Served, Inv, PendingTypeOK
    <3>5. CASE k # KeyOf(r)
      <4>1. registry'[k] = registry[k] /\ registry[k] \in Future /\ registry[k] # f
        BY <3>3, <3>5, <2>0 DEF Inv, PendingTypeOK, Pending, Free
      <4>2. futures'[registry[k]] \in {fs[registry[k]], Unused}
        BY <4>1, <3>2 DEF Becomes
      <4>3. fs[registry[k]] = SetResult({registry[KeyOf(r)]}, None)[registry[k]]
        BY <4>1, SetResultFacts DEF Inv
      <4>4. Pending(registry[k])
        BY <4>1, <4>2, <4>3, <2>R, KeyOfRequest DEF Pending, Unused
      <4>5. CASE futures[registry[k]].abandoned
        <5>1. futures'[registry[k]] = futures[registry[k]]
          BY <4>1, <4>2, <4>3, <2>R, KeyOfRequest DEF Pending, Unused
        <5> QED BY <5>1, <4>1, <4>5 DEF Served
      <4>6. CASE ~futures[registry[k]].abandoned
        <5>1. PICK u \in Task : calls[u].future = registry[k] /\ KeyOf(calls[u].request) = k
          BY <4>4, <4>6 DEF ExclusiveKeysReleased
        <5>2. u # t
          BY <5>1, <4>1, <2>0, <2>1, KeyOfRequest DEF Start
        <5> QED BY <4>1, <5>1, <5>2, <3>3 DEF Served, Inv, PendingTypeOK
      <4> QED BY <4>5, <4>6
    <3> QED BY <3>4, <3>5
  <2>2. ASSUME NEW t \in Task, SentExclusive(t) PROVE Served(k)'
    <3> DEFINE cls == [calls EXCEPT ![t].pc = "waiting"]
    <3>1. Becomes(futures, registry, cls)
      BY <2>2 DEF SentExclusive
    <3>2. \A u \in Task : cls[u].future = calls[u].future /\ cls[u].request = calls[u].request
      BY DEF Inv, PendingTypeOK, Call
    <3> HIDE DEF cls
    <3> QED BY <3>1, <3>2, <2>0, KeepsReleased
  <2>3. ASSUME NEW t \in Task, NEW fs, NEW reg, NEW cls, Becomes(fs, reg, cls),
               reg[k] \in {registry[k], None},
               \A f \in Future : fs[f].state = "pending"
                  => Pending(f) /\ (futures[f].abandoned => fs[f].abandoned),
               \A u \in Task : u # t => cls[u] = calls[u],
               \/ calls[t].request \in Device
               \/ fs[calls[t].future].state # "pending" \/ fs[calls[t].future].abandoned
        PROVE  Served(k)'
    <3>1. calls[t].request \in Device => KeyOf(calls[t].request) # k
      BY KeyOfRequest
    <3> QED BY <2>3, <3>1, KeepsReleased
  <2>4. ASSUME NEW t \in Task PROVE \A u \in Task : u # t => CallEnds(t)[u] = calls[u]
    BY DEF CallEnds, Inv, PendingTypeOK
  <2>5. ASSUME NEW t \in Task, WaitForControl(t) PROVE Served(k)'
    <3> DEFINE f == registry[calls[t].request]
               cls == IF f = None THEN CallEnds(t)
                      ELSE [calls EXCEPT ![t].pc = "waiting", ![t].future = f]
    <3>1. Becomes(futures, registry, cls) /\ calls[t].request \in Device
      BY <2>5 DEF WaitForControl
    <3>2. \A u \in Task : u # t => cls[u] = calls[u]
      BY <2>4 DEF Inv, PendingTypeOK
    <3> HIDE DEF cls
    <3> QED BY <3>1, <3>2, <2>0, <2>3
  <2>6. ASSUME NEW t \in Task, SendFails(t) PROVE Served(k)'
    <3>1. calls[t].future \in Future
      BY <2>6 DEF SendFails, Inv, PendingTypeOK, Call
    <3>2. CASE Becomes(SetResult({calls[t].future}, None), Without(calls[t].future), CallEnds(t))
      BY <3>1, <3>2, <2>R, <2>3, <2>4 DEF Without
    <3>3. CASE /\ Becomes(SetResult({registry[calls[t].request]}, None), registry, CallEnds(t))
               /\ calls[t].request \in Device
      BY <3>3, <2>R, <2>3, <2>4
    <3>4. CASE Becomes(futures, registry, CallEnds(t)) /\ calls[t].request \in Device
      BY <3>4, <2>0, <2>3, <2>4
    <3> QED BY <2>6, <3>2, <3>3, <3>4 DEF SendFails
  <2>7. ASSUME NEW t \in Task, SendRaises(t) PROVE Served(k)'
    <3>1. CASE CancelAll(CallEnds(t))
      BY <3>1 DEF CancelAll, Becomes, Pending
    <3>2. CASE Becomes(futures, registry, CallEnds(t))
      <4>1. calls[t].future \in Future /\ futures[calls[t].future].state # "pending"
        BY <2>7, <2>0 DEF SendRaises, Pending, Inv, PendingTypeOK, Call
      <4> QED BY <4>1, <3>2, <2>0, <2>3, <2>4
    <3> QED BY <2>7, <3>1, <3>2 DEF SendRaises
  <2>8. ASSUME NEW t \in Task, Returns(t) PROVE Served(k)'
    <3>1. calls[t].future \in Future /\ futures[calls[t].future].state # "pending"
      BY <2>8, <2>0 DEF Returns, Pending, Inv, PendingTypeOK, Call
    <3>2. Becomes(futures, Without(calls[t].future), CallEnds(t))
      BY <2>8 DEF Returns
    <3> QED BY <3>1, <3>2, <2>0, <2>3, <2>4 DEF Without
  <2>9. ASSUME NEW t \in Task, TimesOut(t) PROVE Served(k)'
    <3>1. calls[t].future \in Future
      BY <2>9 DEF TimesOut, Inv, PendingTypeOK, Call
    <3>2. Becomes(SetResult({calls[t].future}, "cancelled"), Without(calls[t].future), CallEnds(t))
      BY <2>9 DEF TimesOut
    <3> QED BY <3>1, <3>2, <2>R, <2>3, <2>4 DEF Without
  <2>10. ASSUME NEW r \in Request, Receive(r) PROVE Served(k)'
    <3>1. Becomes(SetResult({registry[KeyOf(r)]}, r), registry, calls)
      BY <2>10 DEF Receive
    <3> QED BY <3>1, <2>R, KeepsReleased
  <2>11. CASE Disconnect
    BY <2>11 DEF Disconnect, CancelAll, Becomes, Pending
  <2>12. ASSUME NEW t \in Task, CallCancelled(t) PROVE Served(k)'
    <3>1. calls[t].future \in Future
      BY <2>12 DEF CallCancelled, Inv, PendingTypeOK, Call
    <3>2. CASE Becomes(SetResult({calls[t].future}, "cancelled"), Without(calls[t].future),
                       CallEnds(t))
      BY <3>1, <3>2, <2>R, <2>3, <2>4 DEF Without
    <3> DEFINE fs == [futures EXCEPT ![calls[t].future].abandoned = TRUE]
    <3>3. CASE Becomes(fs, registry, CallEnds(t))
      <4>1. /\ fs[calls[t].future].abandoned
            /\ \A f \in Future : fs[f].state = "pending"
                  => Pending(f) /\ (futures[f].abandoned => fs[f].abandoned)
        BY <3>1, <2>0 DEF Inv, PendingTypeOK
      <4> HIDE DEF fs
      <4> QED BY <3>3, <4>1, <2>3, <2>4
    <3> QED BY <2>12, <3>2, <3>3 DEF CallCancelled
  <2>13. CASE UNCHANGED vars
    BY <2>13 DEF vars, Served, ExclusiveKeysReleased, Pending
  <2> QED
    BY <2>1, <2>2, <2>5, <2>6, <2>7, <2>8, <2>9, <2>10, <2>11, <2>12, <2>13
       DEF Next, Step
<1> QED BY <1>1, <1>2, PendingInvariant, PTL DEF Spec

=============================================================================
