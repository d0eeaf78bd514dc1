-------------------------------- MODULE StateSync --------------------------------
(***************************************************************************)
(* How the coordinator keeps the entity states: pushes from the cloud and  *)
(* from the gateways (StatusUpdateDispatcher), cloud snapshots read over   *)
(* HTTPS by two independent pollers (DeviceInventory.merge_cloud), and     *)
(* commands with their optimistic writes (ControlExecutor and the          *)
(* coordinator's air-conditioner path), all on one StateStore.             *)
(*                                                                         *)
(* The handlers run on one event loop: what lies between two awaits is one *)
(* action here.  A snapshot is read at one instant and merged at a later   *)
(* one; a command waits for its transport and then for its echo.  What a   *)
(* report says is chosen freely: parsing is abstracted to the set of       *)
(* fields a report carries and their values.                               *)
(***************************************************************************)
EXTENDS StateStore, FiniteSets

CONSTANTS
    Poller,                 \* readers of cloud snapshots: _async_update_data, _resync_device_states
    TransportMode,          \* "auto", "cloud_only" or "lan_only"
    ControlKind,            \* the families of commands users may issue
    MessageField,           \* fields a cmd=82 message re-merges (online, properties)
    RowField,               \* fields a raw deviceStatus row names (online, value1..value4)
    DefaultValue,           \* what a new entity shows before any report
    MissingDeviceTolerance, \* DeviceInventory.MISSING_DEVICE_TOLERANCE
    ReadTimeout,            \* the longest a snapshot travels (aiohttp total timeout)
    MaxTime                 \* bound of the model: the clock stops here

\* Families that write or return as soon as the transport took the command.
Unwaited == {"direct", "clothes_horse", "send_only"}

\* Families whose code does not look at the result of _send_packet.
IgnoresSendFailure == {"ac", "ac_power"}

\* turn_on / turn_off through a coordinator method: the executor writes again.
Routed == {"ac_power", "ventilation_power"}

AllKinds ==
    {"power", "cover", "confirmed", "ventilation", "ac"} \cup Unwaited \cup Routed

ASSUME SyncAssumption ==
    /\ TransportMode \in {"auto", "cloud_only", "lan_only"}
    /\ ControlKind \subseteq AllKinds
    /\ MessageField \subseteq Field /\ RowField \subseteq Field
    /\ DefaultValue \in Value
    /\ MissingDeviceTolerance \in Nat \ {0}
    /\ ReadTimeout \in Nat
    /\ ReadTimeout < PriorityGuardSeconds
    /\ MaxTime \in Nat

VARIABLES
    devices,     \* the keys of coordinator.devices
    missing,     \* DeviceInventory._missing_counts
    reading,     \* per poller: when its snapshot was taken, or NotReading
    control,     \* per device: the command in flight
    absences     \* history: consecutive snapshots without the device

vars == <<present, states, revisions, now, devices, missing, reading, control,
          absences>>

NotReading == -1

(***************************************************************************)
(* What the echo future of a command holds: nothing yet, or the fields of  *)
(* the cmd=42 packet that resolved it (none of them in a bare receipt).    *)
(***************************************************************************)
NoAnswer == [arrived |-> FALSE, fields |-> NoFields]
Answer == [arrived : BOOLEAN, fields : Fields]
AnswerWith(report) == [arrived |-> TRUE, fields |-> report]

\* Mutant of ResponseHasState: a bare receipt counts as state.
ResponseArrived(answer) == answer.arrived

\* ControlExecutor._response_has_state
ResponseHasState(answer) == answer.arrived /\ answer.fields # NoFields

(***************************************************************************)
(* A command: which family, the fields it sets, how far it got, its echo,  *)
(* and the fields a report has written into the device since the command   *)
(* was issued (history).                                                   *)
(***************************************************************************)
Control ==
    [pc : {"idle", "sending", "writing", "waiting"},
     kind : ControlKind \cup {"none"},
     command : Fields,
     answer : Answer,
     reported : SUBSET Field,
     result : {"none", "ok", "failed"}]

NoControl(result) ==
    [pc |-> "idle", kind |-> "none", command |-> NoFields,
     answer |-> NoAnswer, reported |-> {}, result |-> result]

(***************************************************************************)
(* DeviceInventory.initialize filled the dictionaries from the first       *)
(* snapshot and set no revision.                                           *)
(***************************************************************************)
Init ==
    /\ devices \in SUBSET Device
    /\ present = devices
    /\ states \in [Device -> Fields]
    /\ \A d \in Device, f \in Field : Carries(states[d], f) <=> d \in devices
    /\ revisions = [d \in Device |-> [f \in Field |-> NoRevision]]
    /\ now = 0
    /\ missing = [d \in Device |-> 0]
    /\ reading = [p \in Poller |-> NotReading]
    /\ control = [d \in Device |-> NoControl("none")]
    /\ absences = [d \in Device |-> 0]

-----------------------------------------------------------------------------
(* Reports *)

\* A report wrote these fields of d while a command may be in flight.
NoteReported(d, written) ==
    IF control[d].pc = "idle" THEN control[d]
    ELSE [control[d] EXCEPT !.reported = @ \cup written]

\* dispatch's candidate: the whole current state with the report on top.
Candidate(d, report) ==
    [f \in Field |-> IF Carries(report, f) THEN report[f] ELSE states[d][f]]

\* The fields of the report that survive the merge.
Written(d, report, source) ==
    {f \in Accepted(d, Candidate(d, report), source, FALSE) : Carries(report, f)}

\* StatusUpdateDispatcher.dispatch merges the whole candidate, or ignores a
\* device it cannot resolve.
Dispatch(d, report, source) ==
    IF d \in present
      THEN Merge(d, Candidate(d, report), source, FALSE)
      ELSE UNCHANGED storeVars

NoteDispatched(d, report, source) ==
    NoteReported(d, IF d \in present THEN Written(d, report, source) ELSE {})

\* cmd=82 carries no state: only MessageField is merged again.
DispatchMessage(d, source) ==
    IF d \in present
      THEN Merge(d, [f \in Field |-> IF f \in MessageField THEN states[d][f] ELSE NoValue],
                 source, FALSE)
      ELSE UNCHANGED storeVars

\* PendingRequests.resolve: the first cmd=42 packet of the device wins.
Resolve(c, report) ==
    IF c.pc \in {"writing", "waiting"} /\ c.kind \notin Unwaited /\ ~c.answer.arrived
      THEN [c EXCEPT !.answer = AnswerWith(report)] ELSE c

(***************************************************************************)
(* SSLClient._handle_state_update (cmd=42): the waiting command of the     *)
(* device, if any, is resolved first; the report is dispatched before the  *)
(* waiter runs.                                                            *)
(***************************************************************************)
SslStateUpdate(d, report) ==
    /\ TransportMode # "lan_only"
    /\ control' = [control EXCEPT ![d] = Resolve(NoteDispatched(d, report, SSL), report)]
    /\ Dispatch(d, report, SSL)
    /\ UNCHANGED <<now, devices, missing, reading, absences>>

\* The same handler's early return: an echo with respByAcc false, no event
\* and no state field is a receipt only.
SslReceipt(d) ==
    /\ TransportMode # "lan_only"
    /\ control' = [control EXCEPT ![d] = Resolve(@, NoFields)]
    /\ UNCHANGED <<storeVars, now, devices, missing, reading, absences>>

\* deviceStatusReport, upLoadDeviceList and cmd=99: dispatched, never an answer.
SslReport(d, report) ==
    /\ TransportMode # "lan_only"
    /\ control' = [control EXCEPT ![d] = NoteDispatched(d, report, SSL)]
    /\ Dispatch(d, report, SSL)
    /\ UNCHANGED <<now, devices, missing, reading, absences>>

\* SSLClient._handle_push_message (cmd=82)
SslMessage(d) ==
    /\ TransportMode # "lan_only"
    /\ DispatchMessage(d, SSL)
    /\ UNCHANGED <<now, devices, missing, reading, control, absences>>

(***************************************************************************)
(* coordinator._on_lan_status_update: a well-formed push of the device's   *)
(* own gateway, for a device that is not cloud-only.  A device no longer   *)
(* in devices passes too (its gateway is unknown) and then only a leftover *)
(* dictionary takes it.                                                    *)
(***************************************************************************)
LanStatusUpdate(d, report) ==
    /\ TransportMode # "cloud_only"
    /\ control' = [control EXCEPT ![d] = NoteDispatched(d, report, LAN)]
    /\ Dispatch(d, report, LAN)
    /\ UNCHANGED <<now, devices, missing, reading, absences>>

-----------------------------------------------------------------------------
(* Cloud snapshots *)

\* What a snapshot says of one device.  "seed" is _cloud_values_allowed: the
\* cloud record is fresh, or the cloud is the device's only source.
Absent == [listed |-> "absent", seed |-> FALSE, values |-> NoFields]
Hidden == [listed |-> "hidden", seed |-> FALSE, values |-> NoFields]
Listing ==
    {Absent, Hidden} \cup
    [listed : {"listed"}, seed : BOOLEAN, values : Fields]

\* fetch_device_status: the server answers now, the answer travels.
ReadSnapshot(p) ==
    /\ TransportMode # "lan_only"
    /\ reading[p] = NotReading
    /\ reading' = [reading EXCEPT ![p] = now]
    /\ UNCHANGED <<storeVars, now, devices, missing, control, absences>>

\* The request fails or times out: merge_cloud is not called.
ReadFails(p) ==
    /\ reading[p] # NotReading
    /\ reading' = [reading EXCEPT ![p] = NotReading]
    /\ UNCHANGED <<storeVars, now, devices, missing, control, absences>>

(***************************************************************************)
(* The fields a listed device brings: the value fields only when seeded,   *)
(* the raw row of the deviceStatus table always (cloud_state.update).      *)
(***************************************************************************)
CloudState(listing) ==
    [f \in Field |-> IF listing.seed \/ f \in RowField THEN listing.values[f] ELSE NoValue]

\* _periodic_initial_state for a device the store does not know, and the merge
\* on top of it.
PeriodicInitialState(listing) ==
    [f \in Field |-> IF Carries(CloudState(listing), f)
                       THEN CloudState(listing)[f] ELSE DefaultValue]

\* _remove_missing_devices and the hidden categories.
RemovedBy(snapshot) ==
    {d \in Device :
        \/ snapshot[d].listed = "hidden"
        \/ /\ snapshot[d].listed = "absent"
           /\ d \in devices
           /\ missing[d] + 1 >= MissingDeviceTolerance}

ListedBy(snapshot) == {d \in Device : snapshot[d].listed = "listed"}

\* One device's dictionary after merge_cloud (a removed one loses it).
StateAfter(d, listing) ==
    IF d \in present THEN MergedState(d, CloudState(listing), CLOUD, FALSE)
    ELSE PeriodicInitialState(listing)

\* Mutant of MissesAfter: the count survives the return of the device.
MissesKeptWhenListed(d, snapshot) ==
    IF d \in RemovedBy(snapshot) THEN 0
    ELSE IF d \in devices /\ d \notin ListedBy(snapshot) THEN missing[d] + 1
    ELSE missing[d]

\* _missing_counts: cleared when the device is listed or removed.
MissesAfter(d, snapshot) ==
    IF d \in ListedBy(snapshot) \cup RemovedBy(snapshot) THEN 0
    ELSE IF d \in devices THEN missing[d] + 1
    ELSE missing[d]

(***************************************************************************)
(* DeviceInventory.merge_cloud: every device of the snapshot, then the     *)
(* devices it left out.                                                    *)
(***************************************************************************)
MergeCloud(p, snapshot) ==
    LET listed  == ListedBy(snapshot)
        removed == RemovedBy(snapshot)
    IN
    /\ reading[p] # NotReading
    /\ reading' = [reading EXCEPT ![p] = NotReading]
    /\ devices' = (devices \cup listed) \ removed
    /\ present' = (present \cup listed) \ removed
    /\ missing' = [d \in Device |-> MissesAfter(d, snapshot)]
    /\ states' = [d \in Device |->
                     IF d \in removed THEN NoFields
                     ELSE IF d \in listed THEN StateAfter(d, snapshot[d])
                     ELSE states[d]]
    /\ revisions' = [d \in Device |->
                        IF d \in removed THEN [f \in Field |-> NoRevision]
                        ELSE IF d \in listed
                             THEN MergedRevisions(d, CloudState(snapshot[d]), CLOUD, FALSE)
                        ELSE revisions[d]]
    /\ control' = [d \in Device |->
                      IF d \in removed THEN NoteReported(d, Field)
                      ELSE IF d \in listed
                           THEN NoteReported(d, Accepted(d, CloudState(snapshot[d]), CLOUD, FALSE))
                      ELSE control[d]]
    /\ absences' = [d \in Device |->
                       IF d \in listed THEN 0
                       ELSE IF snapshot[d].listed = "hidden" THEN MissingDeviceTolerance
                       ELSE IF absences[d] < MissingDeviceTolerance THEN absences[d] + 1
                       ELSE absences[d]]
    /\ UNCHANGED now

-----------------------------------------------------------------------------
(* Commands *)

\* A service call on a controllable device; the transport is awaited.
ControlStart(d, kind, command) ==
    /\ d \in devices
    /\ control[d].pc = "idle"
    /\ command # NoFields
    /\ control' = [control EXCEPT ![d] =
                      [NoControl("none") EXCEPT !.pc = "sending", !.kind = kind,
                                                !.command = command]]
    /\ UNCHANGED <<storeVars, now, devices, missing, reading, absences>>

Finish(d, result) == control' = [control EXCEPT ![d] = NoControl(result)]

Optimistic(d) == Merge(d, control[d].command, OPTIMISTIC, TRUE)

\* Mutant of AcOptimistic: the test for a missing state is dropped.
AcOptimisticUnchecked(d) ==
    \/ WriteAndMark(d, control[d].command, OPTIMISTIC)
    \/ Mark(d, control[d].command, OPTIMISTIC)

(***************************************************************************)
(* _apply_ac_optimistic writes into what get_device_state returns: the     *)
(* stored dictionary, or a copy when aliases or the derived online flag    *)
(* differ from it.  The revisions are marked in both cases.                *)
(***************************************************************************)
AcOptimistic(d) ==
    IF d \notin present THEN UNCHANGED storeVars
    ELSE \/ WriteAndMark(d, control[d].command, OPTIMISTIC)
         \/ Mark(d, control[d].command, OPTIMISTIC)

\* What a family writes when its command went out and no usable echo came.
WriteCommand(d) ==
    CASE control[d].kind = "ac" -> AcOptimistic(d)
      [] control[d].kind = "ventilation" ->
            WriteAndMark(d, control[d].command, OPTIMISTIC)
      [] control[d].kind = "clothes_horse" ->
            IF d \in present THEN WriteAndMark(d, control[d].command, OPTIMISTIC)
            ELSE UNCHANGED storeVars
      [] control[d].kind = "send_only" -> UNCHANGED storeVars
      [] OTHER -> Optimistic(d)

\* The gateway acknowledged: no echo is awaited (_wait_if_ssl).
LanAcknowledged(d) ==
    /\ TransportMode # "cloud_only"
    /\ control[d].pc = "sending"
    /\ control[d].kind # "clothes_horse"
    /\ WriteCommand(d)
    /\ Finish(d, "ok")
    /\ UNCHANGED <<now, devices, missing, reading, absences>>

\* No transport, no session key, or the LAN failed in lan_only mode.
ControlRefused(d) ==
    /\ control[d].pc = "sending"
    /\ Finish(d, "failed")
    /\ UNCHANGED <<storeVars, now, devices, missing, reading, absences>>

\* The LAN failed or was not chosen: _send_packet registers the echo future
\* and starts to write.
SslWrite(d) ==
    /\ TransportMode # "lan_only"
    /\ control[d].pc = "sending"
    /\ control' = [control EXCEPT ![d].pc = "writing"]
    /\ UNCHANGED <<storeVars, now, devices, missing, reading, absences>>

SslWritten(d) ==
    /\ control[d].pc = "writing"
    /\ IF control[d].kind \in Unwaited
         THEN WriteCommand(d) /\ Finish(d, "ok")
         ELSE /\ control' = [control EXCEPT ![d].pc = "waiting"]
              /\ UNCHANGED storeVars
    /\ UNCHANGED <<now, devices, missing, reading, absences>>

(***************************************************************************)
(* _send_packet returns False.  The air conditioner path does not look at  *)
(* that result: it goes on to wait.                                        *)
(***************************************************************************)
SslWriteFails(d) ==
    /\ control[d].pc = "writing"
    /\ IF control[d].kind \in IgnoresSendFailure
         THEN control' = [control EXCEPT ![d].pc = "waiting"]
         ELSE Finish(d, "failed")
    /\ UNCHANGED <<storeVars, now, devices, missing, reading, absences>>

\* The answer a family accepts in place of its optimistic write.
Settles(c) ==
    CASE c.kind \in {"power", "cover"} -> ResponseHasState(c.answer)
      [] c.kind \in Routed -> FALSE
      [] OTHER -> c.answer.arrived              \* plain truth of the dict

(***************************************************************************)
(* A cover with a position in its echo writes that position into the       *)
(* dictionary itself, past the store and its revisions; an echo without a  *)
(* usable value1 writes nothing.                                           *)
(***************************************************************************)
WriteActual(d) ==
    /\ present' = present \cup {d}
    /\ states' = [states EXCEPT ![d] = Candidate(d, control[d].answer.fields)]
    /\ UNCHANGED revisions

\* The echo arrived, or the three seconds are over.
ControlFinish(d) ==
    /\ control[d].pc = "waiting"
    /\ \/ Settles(control[d]) /\ UNCHANGED storeVars
       \/ Settles(control[d]) /\ control[d].kind = "cover" /\ WriteActual(d)
       \/ ~Settles(control[d]) /\ WriteCommand(d)
    /\ Finish(d, "ok")
    /\ UNCHANGED <<now, devices, missing, reading, absences>>

-----------------------------------------------------------------------------
\* Mutant of Tick: the HTTP request has no timeout.
TickNoTimeout ==
    /\ now < MaxTime
    /\ now' = now + 1
    /\ UNCHANGED <<storeVars, devices, missing, reading, control, absences>>

\* Time passes, but no snapshot travels longer than its HTTP timeout.
Tick ==
    /\ now < MaxTime
    /\ \A p \in Poller : reading[p] # NotReading => now + 1 - reading[p] <= ReadTimeout
    /\ now' = now + 1
    /\ UNCHANGED <<storeVars, devices, missing, reading, control, absences>>

Push(d) ==
    \/ \E report \in Fields : \/ SslStateUpdate(d, report)
                              \/ SslReport(d, report)
                              \/ LanStatusUpdate(d, report)
    \/ SslReceipt(d)
    \/ SslMessage(d)

Poll(p) ==
    \/ ReadSnapshot(p)
    \/ ReadFails(p)
    \/ \E snapshot \in [Device -> Listing] : MergeCloud(p, snapshot)

Command(d) ==
    \/ \E kind \in ControlKind, command \in Fields : ControlStart(d, kind, command)
    \/ LanAcknowledged(d)
    \/ ControlRefused(d)
    \/ SslWrite(d)
    \/ SslWritten(d)
    \/ SslWriteFails(d)
    \/ ControlFinish(d)

Next ==
    \/ \E d \in Device : Push(d) \/ Command(d)
    \/ \E p \in Poller : Poll(p)
    \/ Tick

Spec == Init /\ [][Next]_vars

-----------------------------------------------------------------------------
(* Properties *)

\* Type correctness of the coordinator's dictionaries and of the commands.
SyncTypeOK ==
    /\ StoreTypeOK
    /\ devices \subseteq Device
    /\ missing \in [Device -> 0 .. MissingDeviceTolerance - 1]
    /\ reading \in [Poller -> Nat \cup {NotReading}]
    /\ control \in [Device -> Control]
    /\ absences \in [Device -> 0 .. MissingDeviceTolerance]

\* The sources that report as things happen.
RealTime == {SSL, LAN}

(***************************************************************************)
(* No revision is from the future, and a snapshot still on its way is not  *)
(* older than the HTTP timeout: the two clocks the guard compares.         *)
(***************************************************************************)
ClocksAgree ==
    /\ \A d \in Device, f \in Field : revisions[d][f].updated_at <= now
    /\ \A p \in Poller : reading[p] # NotReading =>
          reading[p] <= now /\ now - reading[p] <= ReadTimeout

(***************************************************************************)
(* Merging a cloud snapshot never changes a field that a push wrote at or  *)
(* after the moment the snapshot was taken, however late the snapshot      *)
(* arrives: merge_cloud "without overwriting fresh SSL fields".  It rests  *)
(* on the HTTP timeout being shorter than the guard window.                *)
(***************************************************************************)
SnapshotKeepsPushedFields ==
    \A p \in Poller, d \in Device, f \in Field :
        ( /\ reading[p] # NotReading /\ reading'[p] = NotReading
          /\ d \in present \cap present'
          /\ revisions[d][f].source \in RealTime
          /\ reading[p] <= revisions[d][f].updated_at )
        => /\ states'[d][f] = states[d][f]
           /\ revisions'[d][f] = revisions[d][f]

\* The above, of every step.
PushedValueNotRolledBack == [][SnapshotKeepsPushedFields]_vars

(***************************************************************************)
(* Revisions belong to dictionaries that exist: removing a device forgets  *)
(* its history, so a device that comes back is not shielded by the guard   *)
(* of its former life (test_remove_discards_state_and_revision_history).   *)
(***************************************************************************)
RevisionsOwned ==
    \A d \in Device \ present, f \in Field : revisions[d][f] = NoRevision

(***************************************************************************)
(* A device leaves the inventory only when it was missing from             *)
(* MissingDeviceTolerance snapshots in a row, with no snapshot of either   *)
(* poller listing it in between, or when a snapshot lists it as hidden.    *)
(***************************************************************************)
RemovalsTolerated ==
    \A d \in devices \ devices' : absences'[d] = MissingDeviceTolerance

\* The above, of every step.
RemovedOnlyAfterTolerance == [][RemovalsTolerated]_vars

\* A command of d ends with success in this step.
Succeeds(d) ==
    /\ control[d].pc # "idle"
    /\ control'[d].pc = "idle"
    /\ control'[d].result = "ok"

(***************************************************************************)
(* The families that write the command unless the echo carried state: they *)
(* test the echo with _response_has_state, or write without waiting.  The  *)
(* others ("confirmed", "ventilation", "ac") take any packet for an echo   *)
(* that carries state, and "send_only" writes nothing at all.              *)
(***************************************************************************)
EchoTested ==
    {"power", "cover", "direct", "clothes_horse", "ac_power", "ventilation_power"}

\* What a success of a command of the kinds given leaves behind.
NoStaleStateAfter(d, kinds) ==
    Succeeds(d) /\ control[d].kind \in kinds /\ d \in present' =>
       \/ \A f \in Field : Carries(control[d].command, f)
                              => states'[d][f] = control[d].command[f]
       \/ control[d].reported # {}
       \/ control[d].answer.fields # NoFields

(***************************************************************************)
(* A command of these families that reports success leaves no stale state  *)
(* behind, over either transport: the entity shows every commanded field,  *)
(* or a report was written into it since the command was issued, or the    *)
(* echo itself carried state (which a fresher word of the gateway may have *)
(* refused).  A bare receipt never stands in for the optimistic write.     *)
(***************************************************************************)
ControlLeavesNoStaleState ==
    [][\A d \in Device : NoStaleStateAfter(d, EchoTested)]_vars

(***************************************************************************)
(* The same of brightness, colour and custom commands, as the comment in   *)
(* _response_has_state has it.  The code does not keep it: see README.     *)
(***************************************************************************)
ConfirmedLeavesNoStaleState ==
    [][\A d \in Device : NoStaleStateAfter(d, {"confirmed"})]_vars

=============================================================================
