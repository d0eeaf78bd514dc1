------------------------------ MODULE SensorState ------------------------------
(***************************************************************************)
(* What one device shows between its reports (coordinator.py): the flag of *)
(* a motion sensor, an emergency button or a lock event, which nobody      *)
(* takes back and which a timer of the coordinator therefore resets, and   *)
(* the availability that _derive_online reads off the last push, the       *)
(* owning gateway and the cloud's record.                                  *)
(*                                                                         *)
(* Pushes go through the store of StateStore like in StateSync, but here   *)
(* the fields have their own meaning: "flag" is motion_detected,           *)
(* emergency_state, doorbell_ring or unlock_event, "online" the runtime    *)
(* flag, "cloud_online" and "cloud_online_time" the cloud's record.  Truth *)
(* values are 0 and 1 and every other value is a time, as in the           *)
(* dictionaries of the code.                                               *)
(***************************************************************************)
EXTENDS StateStore

CONSTANTS
    Kind,              \* kinds of device explored: "sensor" (motion, emergency), "lock"
    Channel,           \* where pushes come from: a subset of {SSL, LAN}
    ResetDelay,        \* per kind: MOTION_/EMERGENCY_RESET_DELAY, LOCK_RESET_DELAY
    OfflineTimeout,    \* OFFLINE_TIMEOUT: how long a push counts as fresh
    CloudStaleSeconds, \* CLOUD_RECORD_STALE_SECONDS
    MaxStarting,       \* bound of the model: reset tasks created and not yet run
    MaxTime            \* bound of the model: the clock stops here

ASSUME SensorAssumption ==
    /\ Field = {"flag", "online", "cloud_online", "cloud_online_time"}
    /\ Kind \subseteq {"sensor", "lock"}
    /\ Channel \subseteq {SSL, LAN}
    /\ ResetDelay \in [Kind -> Nat \ {0}]
    /\ OfflineTimeout \in Nat /\ CloudStaleSeconds \in Nat
    /\ MaxStarting \in Nat /\ MaxTime \in Nat
    /\ Value = {0, 1} \cup 0..MaxTime

VARIABLES
    kind,        \* per device: what it is
    lastPush,    \* coordinator._last_update_time, or Never
    starting,    \* _schedule_*_reset coroutines created, not yet run
    timer,       \* when the armed reset task wakes up, or Never
    gateway,     \* lan_gateway_connected: the owning gateway has a session
    heard,       \* history: the device pushed since it joined the inventory
    denied,      \* history: a snapshot said it is offline since it joined
    abandoned    \* history: the flag is set and its timer was cancelled, or never made

vars == <<present, states, revisions, now, kind, lastPush, starting, timer,
          gateway, heard, denied, abandoned>>

Never == -1

SensorTypeOK ==
    /\ StoreTypeOK
    /\ kind \in [Device -> Kind]
    /\ lastPush \in [Device -> 0..now \cup {Never}]
    /\ starting \in [Device -> 0..MaxStarting]
    /\ timer \in [Device -> Nat \cup {Never}]
    \* an armed timer is never overdue and never further away than its delay
    /\ \A d \in Device : timer[d] \in now..(now + ResetDelay[kind[d]]) \cup {Never}
    /\ gateway \in [Device -> BOOLEAN]
    /\ heard \in [Device -> BOOLEAN]
    /\ denied \in [Device -> BOOLEAN]
    /\ abandoned \in [Device -> BOOLEAN]

(***************************************************************************)
(* DeviceInventory.initialize: the parsers seed the flag from the cloud's  *)
(* row.  _async_setup then applies the motion and emergency parsers again, *)
(* to value1/value3 keys that the initial dictionary does not have (it     *)
(* calls them raw_value1 and raw_value3), so no timer is made for it.      *)
(***************************************************************************)
Init ==
    /\ present = Device
    /\ kind \in [Device -> Kind]
    /\ states \in [Device -> {s \in Fields :
           /\ s["flag"] \in {0, 1, NoValue}
           /\ s["online"] \in {0, 1}
           /\ s["cloud_online"] = NoValue /\ s["cloud_online_time"] = NoValue}]
    /\ \A d \in Device : kind[d] = "lock" => states[d]["flag"] = NoValue
    /\ revisions = [d \in Device |-> [f \in Field |-> NoRevision]]
    /\ now = 0
    /\ lastPush = [d \in Device |-> Never]
    /\ starting = [d \in Device |-> 0]
    /\ timer = [d \in Device |-> Never]
    /\ gateway = [d \in Device |-> FALSE]
    /\ heard = [d \in Device |-> FALSE]
    /\ denied = [d \in Device |-> FALSE]
    /\ abandoned = [d \in Device |-> states[d]["flag"] = 1]

-----------------------------------------------------------------------------
(* Pushes and the reset of the flag *)

FlagSet(d) == d \in present /\ states[d]["flag"] = 1

\* dispatch: the current state, online, with what the report says of the flag.
Candidate(d, flag) ==
    [states[d] EXCEPT !["online"] = 1,
                      !["flag"] = IF flag = NoValue THEN @ ELSE flag]

\* Only cloud-only devices, the locks among them, are closed to gateway pushes.
LanStateAllowed(d) == kind[d] # "lock"

\* A lock event carries no end; the parsers of the sensors know both.
FlagsOf(d) == IF kind[d] = "lock" THEN {1, NoValue} ELSE {0, 1, NoValue}

\* Mutant of Reschedule: a report without the flag is taken for its end.
RescheduleOnAny(d, flag) ==
    IF kind[d] = "lock"
      THEN /\ timer' = IF flag = 1 THEN [timer EXCEPT ![d] = now + ResetDelay["lock"]]
                                   ELSE timer
           /\ UNCHANGED starting
      ELSE /\ timer' = IF flag = 1 THEN timer ELSE [timer EXCEPT ![d] = Never]
           /\ starting' = IF flag = 1 THEN [starting EXCEPT ![d] = @ + 1] ELSE starting

(***************************************************************************)
(* A lock's timer is replaced at once.  A sensor's is replaced by a task   *)
(* of its own (create_task), and cancelled at once when the report says    *)
(* that the detection is over.                                             *)
(***************************************************************************)
Reschedule(d, flag) ==
    IF kind[d] = "lock"
      THEN /\ timer' = IF flag = 1 THEN [timer EXCEPT ![d] = now + ResetDelay["lock"]]
                                   ELSE timer
           /\ UNCHANGED starting
      ELSE /\ timer' = IF flag = 0 THEN [timer EXCEPT ![d] = Never] ELSE timer
           /\ starting' = IF flag = 1 THEN [starting EXCEPT ![d] = @ + 1] ELSE starting

\* The store refused the end of a detection whose timer is now gone.
AbandonedBy(d, flag) ==
    /\ starting'[d] = 0 /\ timer'[d] = Never
    /\ states'[d]["flag"] = 1
    /\ flag = 0 \/ abandoned[d]

\* dispatch with _apply_motion_state_parser, _apply_emergency_state_parser or
\* _apply_lock_transient_event.
Push(d, source, flag) ==
    /\ d \in present /\ source \in Channel /\ flag \in FlagsOf(d)
    /\ source = LAN => LanStateAllowed(d)
    /\ starting[d] < MaxStarting
    /\ Merge(d, Candidate(d, flag), source, FALSE)
    /\ Reschedule(d, flag)
    /\ lastPush' = [lastPush EXCEPT ![d] = now]
    /\ heard' = [heard EXCEPT ![d] = TRUE]
    /\ abandoned' = [abandoned EXCEPT ![d] = AbandonedBy(d, flag)]
    /\ UNCHANGED <<now, kind, gateway, denied>>

\* _schedule_motion_reset, _schedule_emergency_reset: cancel and start over.
ScheduleReset(d) ==
    /\ starting[d] > 0
    /\ starting' = [starting EXCEPT ![d] = @ - 1]
    /\ timer' = [timer EXCEPT ![d] = now + ResetDelay[kind[d]]]
    /\ UNCHANGED <<present, states, revisions, now, kind, lastPush, gateway, heard,
                   denied, abandoned>>

\* reset_motion, reset_emergency, reset_lock: a direct write, which no revision marks.
ResetFires(d) ==
    /\ timer[d] = now
    /\ timer' = [timer EXCEPT ![d] = Never]
    /\ states' = IF FlagSet(d) THEN [states EXCEPT ![d]["flag"] = 0] ELSE states
    /\ abandoned' = [abandoned EXCEPT ![d] = FALSE]
    /\ UNCHANGED <<present, revisions, now, kind, lastPush, starting, gateway, heard,
                   denied>>

-----------------------------------------------------------------------------
(* Availability *)

CloudRecord ==
    [online : {0, 1, NoValue}, time : 0..now \cup {NoValue}]

\* Mutant of CloudState: an unknown online is written as offline.
CloudStateCoerced(record) ==
    [f \in Field |->
        CASE f = "flag" -> NoValue
          [] f \in {"cloud_online", "online"} ->
                IF record.online = NoValue THEN 0 ELSE record.online
          [] f = "cloud_online_time" -> record.time]

(***************************************************************************)
(* merge_cloud: online and its time become the cloud's record; then the    *)
(* raw deviceStatus row is laid over it, and the row has an "online" too.  *)
(***************************************************************************)
CloudState(record) ==
    [f \in Field |->
        CASE f = "flag" -> NoValue
          [] f \in {"cloud_online", "online"} -> record.online
          [] f = "cloud_online_time" -> record.time]

\* _periodic_initial_state of a device the inventory did not know.
PeriodicInitialState(record) ==
    [f \in Field |-> IF f # "online" THEN NoValue
                     ELSE IF record.online = NoValue THEN 0 ELSE record.online]

\* merge_cloud over a snapshot that lists d.
MergeCloud(d, record) ==
    /\ record \in CloudRecord
    /\ IF d \in present
         THEN Merge(d, CloudState(record), CLOUD, FALSE)
         ELSE LET initial == PeriodicInitialState(record) IN
              /\ present' = present \cup {d}
              /\ states' = [states EXCEPT ![d] =
                     [f \in Field |-> IF Carries(CloudState(record), f)
                                        THEN CloudState(record)[f] ELSE initial[f]]]
              /\ revisions' = [revisions EXCEPT ![d] = MergedRevisions(d, CloudState(record), CLOUD, FALSE)]
    /\ denied' = [denied EXCEPT ![d] = @ \/ record.online = 0]
    /\ UNCHANGED <<now, kind, lastPush, starting, timer, gateway, heard, abandoned>>

\* _remove and _on_device_removed: neither the push time nor the timers go.
Remove(d) ==
    /\ d \in present
    /\ present' = present \ {d}
    /\ states' = [states EXCEPT ![d] = NoFields]
    /\ revisions' = [revisions EXCEPT ![d] = [f \in Field |-> NoRevision]]
    /\ heard' = [heard EXCEPT ![d] = FALSE]
    /\ denied' = [denied EXCEPT ![d] = FALSE]
    /\ abandoned' = [abandoned EXCEPT ![d] = FALSE]
    /\ UNCHANGED <<now, kind, lastPush, starting, timer, gateway>>

\* The gateway's session comes and goes (GatewayManager.is_connected).
GatewayChanges(d) ==
    /\ gateway' = [gateway EXCEPT ![d] = ~@]
    /\ UNCHANGED <<present, states, revisions, now, kind, lastPush, starting, timer,
                   heard, denied, abandoned>>

PushFresh(d) == lastPush[d] # Never /\ now - lastPush[d] <= OfflineTimeout

RecordFresh(online, time) ==
    /\ online # NoValue /\ time # NoValue
    /\ now - time <= CloudStaleSeconds

\* _derive_online, and the availability of every entity of the device.
DeriveOnline(d) ==
    \/ PushFresh(d)
    \/ gateway[d]
    \/ LET online == states[d]["cloud_online"]
           time == states[d]["cloud_online_time"]
       IN  IF RecordFresh(online, time) THEN online = 1 ELSE states[d]["online"] = 1

(***************************************************************************)
(* The clock.  Tasks that are ready run, and timers that are due fire,     *)
(* before it moves: the event loop is not behind by a whole unit.          *)
(***************************************************************************)
Tick ==
    /\ now < MaxTime
    /\ \A d \in Device : starting[d] = 0 /\ timer[d] # now
    /\ now' = now + 1
    /\ UNCHANGED <<present, states, revisions, kind, lastPush, starting, timer,
                   gateway, heard, denied, abandoned>>

Next ==
    \/ \E d \in Device :
           \/ \E source \in Channel, flag \in {0, 1, NoValue} : Push(d, source, flag)
           \/ ScheduleReset(d)
           \/ ResetFires(d)
           \/ \E record \in CloudRecord : MergeCloud(d, record)
           \/ Remove(d)
           \/ GatewayChanges(d)
    \/ Tick

Spec == Init /\ [][Next]_vars

-----------------------------------------------------------------------------
(* Properties *)

(***************************************************************************)
(* A detection ends: as long as the flag is set, its reset is armed or     *)
(* about to be.  The two ways out that the code has are the history        *)
(* variable's: a detection that came with the first snapshot, and one      *)
(* whose end arrived over a channel that the guard window of the other     *)
(* still shut out, which cancels the timer and leaves the flag.            *)
(***************************************************************************)
DetectionWillEnd ==
    \A d \in Device :
        FlagSet(d) => starting[d] > 0 \/ timer[d] # Never \/ abandoned[d]

(***************************************************************************)
(* Silence is no evidence: a device that has reported since it joined is   *)
(* shown offline only when a snapshot, since then, said it is offline.  A  *)
(* record without an online value, a lost gateway, an expired push or an   *)
(* expired record never suffices.                                          *)
(***************************************************************************)
OfflineOnlyOnCloudsWord ==
    \A d \in present : heard[d] /\ ~DeriveOnline(d) => denied[d]

(***************************************************************************)
(* _derive_online's comment: without fresh evidence the last known state   *)
(* is kept.  So a record that is too old to be trusted does not take a     *)
(* device that has reported offline.                                       *)
(***************************************************************************)
StaleRecordNeverOffline ==
    [][\A d \in Device, record \in CloudRecord :
          /\ MergeCloud(d, record)
          /\ d \in present /\ heard[d] /\ DeriveOnline(d)
          /\ ~RecordFresh(record.online, record.time)
          => DeriveOnline(d)']_vars

=============================================================================
