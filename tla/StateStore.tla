------------------------------- MODULE StateStore -------------------------------
(***************************************************************************)
(* The field-level state store (state_store.py).                           *)
(*                                                                         *)
(* Every entity state is a dictionary of fields.  Four sources write it:   *)
(* commands that were just sent (OPTIMISTIC), cloud snapshots (CLOUD),     *)
(* cloud pushes (SSL) and gateway pushes (LAN).  The store remembers, per  *)
(* field, which source wrote last and when, and for PriorityGuardSeconds   *)
(* it refuses a write from a lower source.                                 *)
(*                                                                         *)
(* A dictionary is a total function over Field with NoValue for a missing  *)
(* key, so the operators below read like the code's dict operations.       *)
(***************************************************************************)
EXTENDS Integers

CONSTANTS
    Device,                 \* device identifiers
    Field,                  \* state fields
    Value,                  \* field values
    NoValue,                \* "the dictionary has no such key"
    PriorityGuardSeconds    \* StateStore.priority_guard_seconds

ASSUME StoreAssumption ==
    /\ PriorityGuardSeconds \in Nat \ {0}
    /\ NoValue \notin Value

VARIABLES
    present,     \* the keys of StateStore.states
    states,      \* the field dictionaries
    revisions,   \* StateStore._revisions
    now          \* time.monotonic()

storeVars == <<present, states, revisions>>

\* class StateSource(IntEnum): the integer is the priority.
INITIAL    == 0
OPTIMISTIC == 10
CLOUD      == 20
SSL        == 30
LAN        == 40

StateSource == {INITIAL, OPTIMISTIC, CLOUD, SSL, LAN}

FieldRevision == [source : StateSource, updated_at : Nat]

\* _revisions.get(key) is None.  No source is below it, so it guards nothing.
NoRevision == [source |-> INITIAL - 1, updated_at |-> 0]

\* A mapping from some of the fields to values.
Fields == [Field -> Value \cup {NoValue}]

NoFields == [f \in Field |-> NoValue]

Carries(values, f) == values[f] # NoValue

StoreTypeOK ==
    /\ present \subseteq Device
    /\ states \in [Device -> Fields]
    /\ revisions \in [Device -> [Field -> FieldRevision \cup {NoRevision}]]
    /\ now \in Nat

\* Mutant of Guarded: the window closes one unit early.
GuardedTooBriefly(rev, source) ==
    /\ source < rev.source
    /\ now - rev.updated_at < PriorityGuardSeconds - 1

(***************************************************************************)
(* The test at the head of merge's loop: a lower source loses to a         *)
(* revision that is still inside the guard window.                         *)
(***************************************************************************)
Guarded(rev, source) ==
    /\ source < rev.source
    /\ now - rev.updated_at < PriorityGuardSeconds

\* The fields of values that merge writes into device d.
Accepted(d, values, source, force) ==
    {f \in Field : Carries(values, f) /\ (force \/ ~Guarded(revisions[d][f], source))}

\* state[field] = value for the accepted fields.
MergedState(d, values, source, force) ==
    [f \in Field |-> IF f \in Accepted(d, values, source, force)
                       THEN values[f] ELSE states[d][f]]

\* Every accepted field gets a revision, whether or not its value changed.
MergedRevisions(d, values, source, force) ==
    [f \in Field |-> IF f \in Accepted(d, values, source, force)
                       THEN [source |-> source, updated_at |-> now]
                       ELSE revisions[d][f]]

\* merge(): setdefault creates the dictionary of an unknown device.
Merge(d, values, source, force) ==
    /\ present'   = present \cup {d}
    /\ states'    = [states EXCEPT ![d] = MergedState(d, values, source, force)]
    /\ revisions' = [revisions EXCEPT ![d] = MergedRevisions(d, values, source, force)]

\* mark() after a direct write of values into the dictionary.
WriteAndMark(d, values, source) ==
    /\ present'   = present \cup {d}
    /\ states'    = [states EXCEPT ![d] =
                        [f \in Field |-> IF Carries(values, f) THEN values[f] ELSE @[f]]]
    /\ revisions' = [revisions EXCEPT ![d] =
                        [f \in Field |-> IF Carries(values, f)
                                           THEN [source |-> source, updated_at |-> now]
                                           ELSE @[f]]]

\* mark() alone: the revisions move, the dictionary does not.
Mark(d, values, source) ==
    /\ revisions' = [revisions EXCEPT ![d] =
                        [f \in Field |-> IF Carries(values, f)
                                           THEN [source |-> source, updated_at |-> now]
                                           ELSE @[f]]]
    /\ UNCHANGED <<present, states>>

=============================================================================
