---------------------------- MODULE StateSyncProofs ----------------------------
(***************************************************************************)
(* Proofs about StateSync: type correctness, ownership of the revisions,   *)
(* and that a cloud snapshot never rolls back what a push wrote after the  *)
(* snapshot was taken; and about the three families of commands that fill  *)
(* in from the stored state what the user did not name: the dream curtain, *)
(* the air conditioner and the lights.                                     *)
(***************************************************************************)
EXTENDS StateSync, LightControl, ClimateControl, CurtainControl, TLAPS

\* The store's share of the type invariant, without the clock.
StoreOK ==
    /\ present \subseteq Device
    /\ states \in [Device -> Fields]
    /\ revisions \in [Device -> [Field -> FieldRevision \cup {NoRevision}]]

\* The inductive invariant of the proofs.
SyncInv == SyncTypeOK /\ RevisionsOwned /\ ClocksAgree

-----------------------------------------------------------------------------
(* The store's operations *)

\* The facts about the store that every write preserves.
StoreInv ==
    /\ StoreOK
    /\ RevisionsOwned
    /\ \A d \in Device, f \in Field : revisions[d][f].updated_at <= now

\* Merged dictionaries and revisions are well typed and no revision is from
\* the future (merge's loop, read as two functions of the fields).
LEMMA MergedOK ==
    ASSUME StoreInv, now \in Nat,
           NEW d \in Device, NEW values \in Fields,
           NEW source \in StateSource, NEW force \in BOOLEAN
    PROVE  /\ MergedState(d, values, source, force) \in Fields
           /\ MergedRevisions(d, values, source, force)
                \in [Field -> FieldRevision \cup {NoRevision}]
           /\ \A f \in Field :
                MergedRevisions(d, values, source, force)[f].updated_at <= now
<1>1. [source |-> source, updated_at |-> now] \in FieldRevision
  BY DEF FieldRevision
<1>2. revisions[d] \in [Field -> FieldRevision \cup {NoRevision}] /\ states[d] \in Fields
  BY DEF StoreInv, StoreOK
<1>3. MergedState(d, values, source, force) \in Fields
  BY <1>2 DEF MergedState, Fields
<1>4. MergedRevisions(d, values, source, force)
                \in [Field -> FieldRevision \cup {NoRevision}]
  BY <1>1, <1>2 DEF MergedRevisions
<1>5. ASSUME NEW f \in Field
      PROVE  MergedRevisions(d, values, source, force)[f].updated_at <= now
  BY DEF MergedRevisions, StoreInv
<1> QED BY <1>3, <1>4, <1>5

\* Replacing one device's dictionary and revisions by well-typed ones whose
\* revisions are not from the future keeps the store's facts.
LEMMA WriteOneOK ==
    ASSUME StoreInv, now \in Nat, now' = now, NEW d \in Device,
           NEW s \in Fields, NEW r \in [Field -> FieldRevision \cup {NoRevision}],
           \A f \in Field : r[f].updated_at <= now,
           present' = present \cup {d},
           states' = [states EXCEPT ![d] = s],
           revisions' = [revisions EXCEPT ![d] = r]
    PROVE  StoreInv'
<1>1. StoreOK'
  BY DEF StoreInv, StoreOK
<1>2. RevisionsOwned'
  BY DEF StoreInv, StoreOK, RevisionsOwned
<1>3. (\A e \in Device, f \in Field : revisions[e][f].updated_at <= now)'
  BY DEF StoreInv, StoreOK
<1> QED BY <1>1, <1>2, <1>3 DEF StoreInv

\* StateStore.merge keeps the store's facts.
LEMMA MergeOK ==
    ASSUME StoreInv, now \in Nat, now' = now,
           NEW d \in Device, NEW values \in Fields,
           NEW source \in StateSource, NEW force \in BOOLEAN,
           Merge(d, values, source, force)
    PROVE  StoreInv'
<1> DEFINE s == MergedState(d, values, source, force)
           r == MergedRevisions(d, values, source, force)
<1>1. s \in Fields /\ r \in [Field -> FieldRevision \cup {NoRevision}]
      /\ \A f \in Field : r[f].updated_at <= now
  BY MergedOK
<1>2. present' = present \cup {d} /\ states' = [states EXCEPT ![d] = s]
      /\ revisions' = [revisions EXCEPT ![d] = r]
  BY DEF Merge
<1> HIDE DEF s, r
<1> QED BY <1>1, <1>2, WriteOneOK

\* A direct write of a dictionary followed by mark() keeps the store's facts.
LEMMA WriteAndMarkOK ==
    ASSUME StoreInv, now \in Nat, now' = now,
           NEW d \in Device, NEW values \in Fields, NEW source \in StateSource,
           WriteAndMark(d, values, source)
    PROVE  StoreInv'
<1> DEFINE s == [f \in Field |-> IF Carries(values, f) THEN values[f] ELSE states[d][f]]
           r == [f \in Field |-> IF Carries(values, f)
                                   THEN [source |-> source, updated_at |-> now]
                                   ELSE revisions[d][f]]
<1>1. [source |-> source, updated_at |-> now] \in FieldRevision
  BY DEF FieldRevision
<1>2. revisions[d] \in [Field -> FieldRevision \cup {NoRevision}] /\ states[d] \in Fields
  BY DEF StoreInv, StoreOK
<1>3. s \in Fields
  BY <1>2 DEF Fields
<1>4. r \in [Field -> FieldRevision \cup {NoRevision}]
  BY <1>1, <1>2
<1>5. \A f \in Field : r[f].updated_at <= now
  BY DEF StoreInv
<1>6. present' = present \cup {d} /\ states' = [states EXCEPT ![d] = s]
      /\ revisions' = [revisions EXCEPT ![d] = r]
  BY DEF WriteAndMark, StoreInv, StoreOK
<1> HIDE DEF s, r
<1> QED BY <1>3, <1>4, <1>5, <1>6, WriteOneOK

\* mark() of a device that has a dictionary keeps the store's facts.
LEMMA MarkOK ==
    ASSUME StoreInv, now \in Nat, now' = now,
           NEW d \in present, NEW values \in Fields, NEW source \in StateSource,
           Mark(d, values, source)
    PROVE  StoreInv'
<1> DEFINE r == [f \in Field |-> IF Carries(values, f)
                                   THEN [source |-> source, updated_at |-> now]
                                   ELSE revisions[d][f]]
<1>1. [source |-> source, updated_at |-> now] \in FieldRevision
  BY DEF FieldRevision
<1>2. d \in Device /\ states[d] \in Fields
      /\ revisions[d] \in [Field -> FieldRevision \cup {NoRevision}]
  BY DEF StoreInv, StoreOK
<1>3. r \in [Field -> FieldRevision \cup {NoRevision}]
  BY <1>1, <1>2
<1>4. \A f \in Field : r[f].updated_at <= now
  BY <1>2 DEF StoreInv
<1>5. present' = present \cup {d} /\ states' = [states EXCEPT ![d] = states[d]]
      /\ revisions' = [revisions EXCEPT ![d] = r]
  BY <1>2 DEF Mark, StoreInv, StoreOK
<1> HIDE DEF r
<1> QED BY <1>2, <1>3, <1>4, <1>5, WriteOneOK

-----------------------------------------------------------------------------
(* One step *)

\* The coordinator's share of the type invariant.
CoordOK ==
    /\ devices \subseteq Device
    /\ missing \in [Device -> 0 .. MissingDeviceTolerance - 1]
    /\ reading \in [Poller -> Nat \cup {NotReading}]
    /\ control \in [Device -> Control]
    /\ absences \in [Device -> 0 .. MissingDeviceTolerance]

\* No snapshot on its way is older than the HTTP timeout.
ReadsRecent ==
    \A p \in Poller : reading[p] # NotReading =>
        reading[p] <= now /\ now - reading[p] <= ReadTimeout

\* SyncInv, regrouped by what an action can disturb.
LEMMA SyncInvParts ==
    SyncInv <=> (StoreInv /\ CoordOK /\ ReadsRecent /\ now \in Nat)
BY DEF SyncInv, SyncTypeOK, StoreTypeOK, RevisionsOwned, ClocksAgree, StoreInv,
       StoreOK, CoordOK, ReadsRecent

\* The same for the state after the step.
LEMMA SyncInvPartsNext ==
    StoreInv' /\ CoordOK' /\ ReadsRecent' /\ now' \in Nat => SyncInv'
BY DEF SyncInv, SyncTypeOK, StoreTypeOK, RevisionsOwned, ClocksAgree, StoreInv,
       StoreOK, CoordOK, ReadsRecent

\* Steps that leave the store and the clock alone keep the store's facts.
LEMMA StoreUnchangedOK ==
    ASSUME StoreInv, UNCHANGED <<storeVars, now>>
    PROVE  StoreInv'
BY DEF StoreInv, StoreOK, RevisionsOwned, storeVars

\* The records of commands stay records of commands.
LEMMA ControlOK ==
    ASSUME NEW c \in Control, NEW report \in Fields, NEW written \in SUBSET Field
    PROVE  /\ [c EXCEPT !.reported = @ \cup written] \in Control
           /\ Resolve(c, report) \in Control
           /\ \A result \in {"none", "ok", "failed"} : NoControl(result) \in Control
<1>1. NoFields \in Fields /\ AnswerWith(report) \in Answer /\ NoAnswer \in Answer
  BY DEF NoFields, Fields, AnswerWith, Answer, NoAnswer
<1>2. [c EXCEPT !.reported = @ \cup written] \in Control
  BY DEF Control
<1>3. Resolve(c, report) \in Control
  BY <1>1 DEF Control, Resolve
<1>4. \A result \in {"none", "ok", "failed"} : NoControl(result) \in Control
  BY <1>1 DEF Control, NoControl
<1> QED BY <1>2, <1>3, <1>4

\* What a report leaves in the record of the device's command.
LEMMA NoteOK ==
    ASSUME CoordOK, NEW d \in Device, NEW written \in SUBSET Field
    PROVE  NoteReported(d, written) \in Control
<1>1. NoFields \in Fields
  BY DEF NoFields, Fields
<1>2. control[d] \in Control
  BY DEF CoordOK
<1>3. [control[d] EXCEPT !.reported = @ \cup written] \in Control
  BY <1>1, <1>2, ControlOK
<1> QED BY <1>2, <1>3 DEF NoteReported

\* Dispatching a report keeps the store's facts.
LEMMA DispatchOK ==
    ASSUME StoreInv, CoordOK, now \in Nat, now' = now,
           NEW d \in Device, NEW report \in Fields, NEW source \in StateSource,
           Dispatch(d, report, source)
    PROVE  StoreInv'
<1>1. Candidate(d, report) \in Fields
  BY DEF Candidate, Fields, StoreInv, StoreOK
<1>2. CASE d \in present
  BY <1>1, <1>2, MergeOK DEF Dispatch
<1>3. CASE d \notin present
  BY <1>3, StoreUnchangedOK DEF Dispatch
<1> QED BY <1>2, <1>3

\* What a dispatched report leaves in the record of the device's command.
LEMMA NoteDispatchedOK ==
    ASSUME CoordOK, NEW d \in Device, NEW report, NEW source
    PROVE  NoteDispatched(d, report, source) \in Control
<1>1. Written(d, report, source) \in SUBSET Field
  BY DEF Written, Accepted
<1> QED BY <1>1, NoteOK DEF NoteDispatched

\* Every optimistic write keeps the store's facts.
LEMMA WriteCommandOK ==
    ASSUME StoreInv, CoordOK, now \in Nat, now' = now, NEW d \in Device,
           WriteCommand(d)
    PROVE  StoreInv'
<1>1. control[d].command \in Fields
  BY DEF CoordOK, Control
<1>2. OPTIMISTIC \in StateSource /\ TRUE \in BOOLEAN
  BY DEF StateSource
<1>3. CASE WriteAndMark(d, control[d].command, OPTIMISTIC)
  BY <1>1, <1>2, <1>3, WriteAndMarkOK
<1>4. CASE d \in present /\ Mark(d, control[d].command, OPTIMISTIC)
  BY <1>1, <1>2, <1>4, MarkOK
<1>5. CASE UNCHANGED storeVars
  BY <1>5, StoreUnchangedOK
<1>6. CASE Merge(d, control[d].command, OPTIMISTIC, TRUE)
  BY <1>1, <1>2, <1>6, MergeOK
<1> QED BY <1>3, <1>4, <1>5, <1>6 DEF WriteCommand, AcOptimistic, Optimistic

\* The initial dictionaries satisfy the invariant.
LEMMA InitOK == Init => SyncInv
<1> SUFFICES ASSUME Init PROVE SyncInv
  OBVIOUS
<1>1. NoFields \in Fields /\ NoAnswer \in Answer
  BY DEF NoFields, Fields, NoAnswer, Answer
<1>2. NoControl("none") \in Control
  BY <1>1 DEF NoControl, Control
<1>3. StoreInv
  BY DEF Init, StoreInv, StoreOK, RevisionsOwned, NoRevision
<1>4. CoordOK
  BY <1>2, SyncAssumption DEF Init, CoordOK
<1>5. ReadsRecent /\ now \in Nat
  BY DEF Init, ReadsRecent
<1> QED BY <1>3, <1>4, <1>5, SyncInvParts

\* A push of either transport preserves the invariant.
LEMMA PushOK ==
    ASSUME SyncInv, NEW d \in Device, Push(d)
    PROVE  SyncInv'
<1>0. StoreInv /\ CoordOK /\ ReadsRecent /\ now \in Nat
  BY SyncInvParts
<1>a. SSL \in StateSource /\ LAN \in StateSource /\ NoFields \in Fields
  BY DEF StateSource, NoFields, Fields
<1>1. ASSUME NEW report \in Fields, SslStateUpdate(d, report)
      PROVE  SyncInv'
  <2>1. StoreInv'
    BY <1>0, <1>a, <1>1, DispatchOK DEF SslStateUpdate
  <2>2. Resolve(NoteDispatched(d, report, SSL), report) \in Control
    BY <1>0, NoteDispatchedOK, ControlOK
  <2>3. CoordOK' /\ ReadsRecent' /\ now' \in Nat
    BY <1>0, <1>1, <2>1, <2>2 DEF SslStateUpdate, CoordOK, ReadsRecent
  <2> QED BY <2>1, <2>3, SyncInvPartsNext
<1>2. ASSUME NEW report \in Fields, SslReport(d, report)
      PROVE  SyncInv'
  <2>1. StoreInv'
    BY <1>0, <1>a, <1>2, DispatchOK DEF SslReport
  <2>2. NoteDispatched(d, report, SSL) \in Control
    BY <1>0, NoteDispatchedOK
  <2>3. CoordOK' /\ ReadsRecent' /\ now' \in Nat
    BY <1>0, <1>2, <2>1, <2>2 DEF SslReport, CoordOK, ReadsRecent
  <2> QED BY <2>1, <2>3, SyncInvPartsNext
<1>3. ASSUME NEW report \in Fields, LanStatusUpdate(d, report)
      PROVE  SyncInv'
  <2>1. StoreInv'
    BY <1>0, <1>a, <1>3, DispatchOK DEF LanStatusUpdate
  <2>2. NoteDispatched(d, report, LAN) \in Control
    BY <1>0, NoteDispatchedOK
  <2>3. CoordOK' /\ ReadsRecent' /\ now' \in Nat
    BY <1>0, <1>3, <2>1, <2>2 DEF LanStatusUpdate, CoordOK, ReadsRecent
  <2> QED BY <2>1, <2>3, SyncInvPartsNext
<1>4. CASE SslReceipt(d)
  <2>1. StoreInv'
    BY <1>0, <1>4, StoreUnchangedOK DEF SslReceipt
  <2>2. Resolve(control[d], NoFields) \in Control
    BY <1>0, <1>a, ControlOK DEF CoordOK
  <2>3. CoordOK' /\ ReadsRecent' /\ now' \in Nat
    BY <1>0, <1>4, <2>2 DEF SslReceipt, CoordOK, ReadsRecent
  <2> QED BY <2>1, <2>3, SyncInvPartsNext
<1>5. CASE SslMessage(d)
  <2> DEFINE message == [f \in Field |-> IF f \in MessageField THEN states[d][f] ELSE NoValue]
  <2>1. message \in Fields
    BY <1>0 DEF Fields, StoreInv, StoreOK
  <2>2. StoreInv'
    <3>1. CASE d \in present
      <4>1. Merge(d, message, SSL, FALSE) /\ now' = now
        BY <1>5, <3>1 DEF SslMessage, DispatchMessage
      <4> HIDE DEF message
      <4> QED BY <1>0, <1>a, <2>1, <4>1, MergeOK
    <3>2. CASE d \notin present
      BY <1>0, <1>5, <3>2, StoreUnchangedOK DEF SslMessage, DispatchMessage
    <3> QED BY <3>1, <3>2
  <2>3. CoordOK' /\ ReadsRecent' /\ now' \in Nat
    BY <1>0, <1>5 DEF SslMessage, CoordOK, ReadsRecent
  <2> QED BY <2>2, <2>3, SyncInvPartsNext
<1> QED BY <1>1, <1>2, <1>3, <1>4, <1>5 DEF Push

\* A step of a command preserves the invariant.
LEMMA CommandOK ==
    ASSUME SyncInv, NEW d \in Device, Command(d)
    PROVE  SyncInv'
<1>0. StoreInv /\ CoordOK /\ ReadsRecent /\ now \in Nat
  BY SyncInvParts
<1>a. NoFields \in Fields /\ NoAnswer \in Answer
  BY DEF NoFields, Fields, NoAnswer, Answer
<1>b. \A result \in {"none", "ok", "failed"} : NoControl(result) \in Control
  BY <1>a DEF NoControl, Control
<1>c. control[d] \in Control
  BY <1>0 DEF CoordOK
\* A step that only replaces the command's record.
<1>d. ASSUME UNCHANGED <<now, devices, missing, reading, absences>>,
             NEW c \in Control, control' = [control EXCEPT ![d] = c], StoreInv'
      PROVE  SyncInv'
  <2>1. CoordOK' /\ ReadsRecent' /\ now' \in Nat
    BY <1>0, <1>d DEF CoordOK, ReadsRecent
  <2> QED BY <1>d, <2>1, SyncInvPartsNext
<1>1. ASSUME NEW kind \in ControlKind, NEW command \in Fields,
             ControlStart(d, kind, command)
      PROVE  SyncInv'
  <2>1. StoreInv'
    BY <1>0, <1>1, StoreUnchangedOK DEF ControlStart
  <2>2. [NoControl("none") EXCEPT !.pc = "sending", !.kind = kind, !.command = command]
           \in Control
    BY <1>b DEF Control
  <2> QED BY <1>1, <1>d, <2>1, <2>2 DEF ControlStart
<1>2. CASE LanAcknowledged(d)
  <2>1. StoreInv'
    BY <1>0, <1>2, WriteCommandOK DEF LanAcknowledged
  <2> QED BY <1>2, <1>b, <1>d, <2>1 DEF LanAcknowledged, Finish
<1>3. CASE ControlRefused(d)
  <2>1. StoreInv'
    BY <1>0, <1>3, StoreUnchangedOK DEF ControlRefused
  <2> QED BY <1>3, <1>b, <1>d, <2>1 DEF ControlRefused, Finish
<1>4. CASE SslWrite(d)
  <2>1. StoreInv'
    BY <1>0, <1>4, StoreUnchangedOK DEF SslWrite
  <2>2. [control[d] EXCEPT !.pc = "writing"] \in Control
    BY <1>c DEF Control
  <2>3. control' = [control EXCEPT ![d] = [control[d] EXCEPT !.pc = "writing"]]
    BY <1>0, <1>4 DEF SslWrite, CoordOK
  <2> QED BY <1>4, <1>d, <2>1, <2>2, <2>3 DEF SslWrite
<1>5. CASE SslWritten(d)
  <2>1. CASE control[d].kind \in Unwaited
    <3>1. StoreInv'
      BY <1>0, <1>5, <2>1, WriteCommandOK DEF SslWritten
    <3> QED BY <1>5, <1>b, <1>d, <2>1, <3>1 DEF SslWritten, Finish
  <2>2. CASE control[d].kind \notin Unwaited
    <3>1. StoreInv'
      BY <1>0, <1>5, <2>2, StoreUnchangedOK DEF SslWritten
    <3>2. [control[d] EXCEPT !.pc = "waiting"] \in Control
      BY <1>c DEF Control
    <3>3. control' = [control EXCEPT ![d] =
                         [control[d] EXCEPT !.pc = "waiting"]]
      BY <1>0, <1>5, <2>2 DEF SslWritten, CoordOK
    <3> QED BY <1>5, <1>d, <3>1, <3>2, <3>3 DEF SslWritten
  <2> QED BY <2>1, <2>2
<1>6. CASE SslWriteFails(d)
  <2>1. StoreInv'
    BY <1>0, <1>6, StoreUnchangedOK DEF SslWriteFails
  <2>2. CASE control[d].kind \in IgnoresSendFailure
    <3>1. [control[d] EXCEPT !.pc = "waiting"] \in Control
      BY <1>c DEF Control
    <3>2. control' = [control EXCEPT ![d] = [control[d] EXCEPT !.pc = "waiting"]]
      BY <1>0, <1>6, <2>2 DEF SslWriteFails, CoordOK
    <3> QED BY <1>6, <1>d, <2>1, <3>1, <3>2 DEF SslWriteFails
  <2>3. CASE control[d].kind \notin IgnoresSendFailure
    BY <1>6, <1>b, <1>d, <2>1, <2>3 DEF SslWriteFails, Finish
  <2> QED BY <2>2, <2>3
<1>7. CASE ControlFinish(d)
  <2>1. CASE UNCHANGED storeVars
    <3>1. StoreInv'
      BY <1>0, <1>7, <2>1, StoreUnchangedOK DEF ControlFinish
    <3> QED BY <1>7, <1>b, <1>d, <3>1 DEF ControlFinish, Finish
  <2>2. CASE WriteActual(d)
    <3>1. Candidate(d, control[d].answer.fields) \in Fields
      BY <1>0, <1>c DEF Candidate, Fields, StoreInv, StoreOK, Control, Answer
    <3>2. revisions' = [revisions EXCEPT ![d] = revisions[d]]
          /\ revisions[d] \in [Field -> FieldRevision \cup {NoRevision}]
          /\ \A f \in Field : revisions[d][f].updated_at <= now
      BY <1>0, <2>2 DEF WriteActual, StoreInv, StoreOK
    <3>3. StoreInv'
      BY <1>0, <1>7, <2>2, <3>1, <3>2, WriteOneOK DEF ControlFinish, WriteActual
    <3> QED BY <1>7, <1>b, <1>d, <3>3 DEF ControlFinish, Finish
  <2>3. CASE WriteCommand(d)
    <3>1. StoreInv'
      BY <1>0, <1>7, <2>3, WriteCommandOK DEF ControlFinish
    <3> QED BY <1>7, <1>b, <1>d, <3>1 DEF ControlFinish, Finish
  <2> QED BY <1>7, <2>1, <2>2, <2>3 DEF ControlFinish
<1> QED BY <1>1, <1>2, <1>3, <1>4, <1>5, <1>6, <1>7 DEF Command

\* What a cloud snapshot leaves of each device's dictionary and revisions.
LEMMA MergeCloudStoreOK ==
    ASSUME SyncInv, NEW p \in Poller, NEW snapshot \in [Device -> Listing],
           MergeCloud(p, snapshot)
    PROVE  StoreInv'
<1>0. StoreInv /\ now \in Nat
  BY SyncInvParts
<1>1. NoFields \in Fields /\ CLOUD \in StateSource
  BY DEF NoFields, Fields, StateSource
<1>2. \A d \in Device : CloudState(snapshot[d]) \in Fields
  <2>1. \A d \in Device : snapshot[d].values \in Fields
    BY <1>1 DEF Listing, Absent, Hidden
  <2> QED BY <2>1 DEF CloudState, Fields
<1>3. \A d \in Device : PeriodicInitialState(snapshot[d]) \in Fields
  BY <1>2, SyncAssumption DEF PeriodicInitialState, Fields, Carries
<1>4. \A d \in Device :
         /\ MergedState(d, CloudState(snapshot[d]), CLOUD, FALSE) \in Fields
         /\ MergedRevisions(d, CloudState(snapshot[d]), CLOUD, FALSE)
               \in [Field -> FieldRevision \cup {NoRevision}]
         /\ \A f \in Field :
               MergedRevisions(d, CloudState(snapshot[d]), CLOUD, FALSE)[f].updated_at <= now
  BY <1>0, <1>1, <1>2, MergedOK
<1>5. \A d \in Device : StateAfter(d, snapshot[d]) \in Fields
  BY <1>3, <1>4 DEF StateAfter
<1>6. ListedBy(snapshot) \subseteq Device /\ RemovedBy(snapshot) \subseteq Device
  BY DEF ListedBy, RemovedBy
<1>7. StoreOK'
  BY <1>0, <1>1, <1>4, <1>5, <1>6 DEF MergeCloud, StoreInv, StoreOK
<1>8. RevisionsOwned'
  BY <1>0, <1>6 DEF MergeCloud, StoreInv, StoreOK, RevisionsOwned
<1>9. (\A d \in Device, f \in Field : revisions[d][f].updated_at <= now)'
  <2> SUFFICES ASSUME NEW d \in Device, NEW f \in Field
               PROVE  revisions'[d][f].updated_at <= now'
    OBVIOUS
  <2>1. now' = now /\ now \in Nat
    BY <1>0 DEF MergeCloud
  <2>2. revisions'[d] =
           IF d \in RemovedBy(snapshot) THEN [g \in Field |-> NoRevision]
           ELSE IF d \in ListedBy(snapshot)
                THEN MergedRevisions(d, CloudState(snapshot[d]), CLOUD, FALSE)
           ELSE revisions[d]
    BY DEF MergeCloud
  <2>3. NoRevision.updated_at <= now
    BY <1>0 DEF NoRevision
  <2>4. revisions[d][f].updated_at <= now
    BY <1>0 DEF StoreInv
  <2> QED BY <1>4, <2>1, <2>2, <2>3, <2>4
<1> QED BY <1>7, <1>8, <1>9 DEF StoreInv

\* A step of a poller preserves the invariant.
LEMMA PollOK ==
    ASSUME SyncInv, NEW p \in Poller, Poll(p)
    PROVE  SyncInv'
<1>0. StoreInv /\ CoordOK /\ ReadsRecent /\ now \in Nat
  BY SyncInvParts
<1>1. CASE ReadSnapshot(p)
  <2>1. StoreInv'
    BY <1>0, <1>1, StoreUnchangedOK DEF ReadSnapshot
  <2>2. CoordOK' /\ ReadsRecent' /\ now' \in Nat
    BY <1>0, <1>1, SyncAssumption DEF ReadSnapshot, CoordOK, ReadsRecent
  <2> QED BY <2>1, <2>2, SyncInvPartsNext
<1>2. CASE ReadFails(p)
  <2>1. StoreInv'
    BY <1>0, <1>2, StoreUnchangedOK DEF ReadFails
  <2>2. CoordOK' /\ ReadsRecent' /\ now' \in Nat
    BY <1>0, <1>2 DEF ReadFails, CoordOK, ReadsRecent, NotReading
  <2> QED BY <2>1, <2>2, SyncInvPartsNext
<1>3. ASSUME NEW snapshot \in [Device -> Listing], MergeCloud(p, snapshot)
      PROVE  SyncInv'
  <2>1. StoreInv'
    BY <1>3, MergeCloudStoreOK
  <2>2. ReadsRecent' /\ now' \in Nat
    BY <1>0, <1>3 DEF MergeCloud, CoordOK, ReadsRecent, NotReading
  <2>3. control' \in [Device -> Control]
    <3>1. \A d \in Device : NoteReported(d, Field) \in Control
      BY <1>0, NoteOK
    <3>2. \A d \in Device :
             Accepted(d, CloudState(snapshot[d]), CLOUD, FALSE) \in SUBSET Field
      BY DEF Accepted
    <3>3. \A d \in Device :
             NoteReported(d, Accepted(d, CloudState(snapshot[d]), CLOUD, FALSE)) \in Control
      BY <1>0, <3>2, NoteOK
    <3> QED BY <1>0, <1>3, <3>1, <3>3 DEF MergeCloud, CoordOK
  <2>4. missing' \in [Device -> 0 .. MissingDeviceTolerance - 1]
    <3>1. ASSUME NEW d \in Device
          PROVE  MissesAfter(d, snapshot) \in 0 .. MissingDeviceTolerance - 1
      BY <1>0, SyncAssumption
         DEF MissesAfter, ListedBy, RemovedBy, CoordOK, Listing, Absent, Hidden
    <3> QED BY <1>3, <3>1 DEF MergeCloud
  <2>5. absences' \in [Device -> 0 .. MissingDeviceTolerance]
    BY <1>0, <1>3, SyncAssumption DEF MergeCloud, CoordOK
  <2>6. /\ devices' \subseteq Device
        /\ reading' \in [Poller -> Nat \cup {NotReading}]
    BY <1>0, <1>3 DEF MergeCloud, CoordOK, ListedBy
  <2>7. CoordOK'
    BY <2>3, <2>4, <2>5, <2>6 DEF CoordOK
  <2> QED BY <2>1, <2>2, <2>7, SyncInvPartsNext
<1> QED BY <1>1, <1>2, <1>3 DEF Poll

\* Time preserves the invariant: revisions age, and a read that would exceed
\* its timeout has been answered or has failed before.
LEMMA TickOK == SyncInv /\ Tick => SyncInv'
<1> SUFFICES ASSUME SyncInv, Tick PROVE SyncInv'
  OBVIOUS
<1>0. StoreInv /\ CoordOK /\ ReadsRecent /\ now \in Nat
  BY SyncInvParts
<1>1. StoreOK' /\ RevisionsOwned' /\ now' = now + 1
  BY <1>0 DEF Tick, StoreInv, StoreOK, RevisionsOwned, storeVars
<1>2. ASSUME NEW d \in Device, NEW f \in Field
      PROVE  revisions'[d][f].updated_at <= now'
  <2>1. revisions[d][f] \in FieldRevision \cup {NoRevision}
    BY <1>0 DEF StoreInv, StoreOK
  <2>2. revisions[d][f].updated_at \in Nat
    BY <2>1 DEF FieldRevision, NoRevision
  <2>3. revisions' = revisions /\ revisions[d][f].updated_at <= now
    BY <1>0 DEF Tick, StoreInv, storeVars
  <2> QED BY <1>0, <1>1, <2>2, <2>3
<1>3. StoreInv'
  BY <1>1, <1>2 DEF StoreInv
<1>4. CoordOK' /\ ReadsRecent' /\ now' \in Nat
  BY <1>0, SyncAssumption DEF Tick, CoordOK, ReadsRecent
<1> QED BY <1>3, <1>4, SyncInvPartsNext

\* Every step, and stuttering, preserves the invariant.
LEMMA NextOK == SyncInv /\ [Next]_vars => SyncInv'
<1> SUFFICES ASSUME SyncInv, [Next]_vars PROVE SyncInv'
  OBVIOUS
<1>1. CASE UNCHANGED vars
  BY <1>1 DEF SyncInv, SyncTypeOK, StoreTypeOK, RevisionsOwned, ClocksAgree, vars
<1>2. CASE Next
  BY <1>2, PushOK, CommandOK, PollOK, TickOK DEF Next
<1> QED BY <1>1, <1>2

-----------------------------------------------------------------------------
(* The theorems *)

\* The coordinator's dictionaries keep their types, a device without a
\* dictionary has no revisions, and no read outlives its timeout.
THEOREM Invariant == Spec => []SyncInv
<1>1. Init => SyncInv
  BY InitOK
<1>2. SyncInv /\ [Next]_vars => SyncInv'
  BY NextOK
<1> QED BY <1>1, <1>2, PTL DEF Spec

\* Type correctness, for any devices, fields, values, pollers and modes.
THEOREM TypeCorrect == Spec => []SyncTypeOK
<1>1. SyncInv => SyncTypeOK
  BY DEF SyncInv
<1> QED BY <1>1, Invariant, PTL

\* Removing a device forgets its revisions, whoever wrote them.
THEOREM RevisionsAreOwned == Spec => []RevisionsOwned
<1>1. SyncInv => RevisionsOwned
  BY DEF SyncInv
<1> QED BY <1>1, Invariant, PTL

\* Revisions are never from the future and no snapshot outlives its timeout.
THEOREM ClocksStayConsistent == Spec => []ClocksAgree
<1>1. SyncInv => ClocksAgree
  BY DEF SyncInv
<1> QED BY <1>1, Invariant, PTL

\* One step of the rollback argument: a snapshot that is merged now is at
\* most ReadTimeout old, so a push that is not older is still inside the
\* guard window and the merge does not accept the field.
LEMMA StepKeepsPushedFields == SyncInv /\ [Next]_vars => SnapshotKeepsPushedFields
<1> SUFFICES ASSUME SyncInv, [Next]_vars,
                    NEW p \in Poller, NEW d \in Device, NEW f \in Field,
                    reading[p] # NotReading, reading'[p] = NotReading,
                    d \in present \cap present',
                    revisions[d][f].source \in RealTime,
                    reading[p] <= revisions[d][f].updated_at
             PROVE  /\ states'[d][f] = states[d][f]
                    /\ revisions'[d][f] = revisions[d][f]
  BY DEF SnapshotKeepsPushedFields
<1>0. StoreInv /\ CoordOK /\ ReadsRecent /\ now \in Nat
  BY SyncInvParts
<1>1. reading' # reading
  OBVIOUS
<1>2. PICK q \in Poller : Poll(q)
  <2>1. ~Tick /\ \A e \in Device : ~Push(e) /\ ~Command(e)
    BY <1>1 DEF Tick, Push, SslStateUpdate, SslReport, LanStatusUpdate, SslReceipt,
                SslMessage, Command, ControlStart, LanAcknowledged, ControlRefused,
                SslWrite, SslWritten, SslWriteFails, ControlFinish
  <2>2. Next
    BY <1>1 DEF vars
  <2> QED BY <2>1, <2>2 DEF Next
<1>3. CASE ReadSnapshot(q)
  BY <1>0, <1>3 DEF ReadSnapshot, CoordOK, NotReading
<1>4. CASE ReadFails(q)
  BY <1>4 DEF ReadFails, storeVars
<1>5. ASSUME NEW snapshot \in [Device -> Listing], MergeCloud(q, snapshot)
      PROVE  /\ states'[d][f] = states[d][f]
             /\ revisions'[d][f] = revisions[d][f]
  <2>1. q = p
    BY <1>0, <1>5 DEF MergeCloud, CoordOK
  <2>2. Guarded(revisions[d][f], CLOUD)
    <3>1. revisions[d][f] \in FieldRevision \cup {NoRevision}
      BY <1>0 DEF StoreInv, StoreOK
    <3>2. revisions[d][f].updated_at \in Nat
      BY <3>1 DEF FieldRevision, NoRevision
    <3>3. CLOUD < revisions[d][f].source
      BY DEF RealTime, CLOUD, SSL, LAN
    <3>4. reading[p] \in Nat /\ now - reading[p] <= ReadTimeout
      BY <1>0 DEF CoordOK, ReadsRecent
    <3>5. now - revisions[d][f].updated_at < PriorityGuardSeconds
      BY <1>0, <3>2, <3>4, SyncAssumption, StoreAssumption
    <3> QED BY <3>3, <3>5 DEF Guarded
  <2>3. f \notin Accepted(d, CloudState(snapshot[d]), CLOUD, FALSE)
    BY <2>2 DEF Accepted
  <2>4. d \notin RemovedBy(snapshot)
    BY <1>5 DEF MergeCloud
  <2>5. CASE d \in ListedBy(snapshot)
    <3>1. states'[d] = MergedState(d, CloudState(snapshot[d]), CLOUD, FALSE)
          /\ revisions'[d] = MergedRevisions(d, CloudState(snapshot[d]), CLOUD, FALSE)
      BY <1>5, <2>4, <2>5 DEF MergeCloud, StateAfter
    <3> QED BY <2>3, <3>1 DEF MergedState, MergedRevisions
  <2>6. CASE d \notin ListedBy(snapshot)
    BY <1>5, <2>4, <2>6 DEF MergeCloud
  <2> QED BY <2>5, <2>6
<1> QED BY <1>2, <1>3, <1>4, <1>5 DEF Poll

\* However late a snapshot is merged, it does not roll back a field that a
\* push wrote at or after the moment the snapshot was taken.
THEOREM NoRollback == Spec => PushedValueNotRolledBack
<1>1. SyncInv /\ [Next]_vars => SnapshotKeepsPushedFields
  BY StepKeepsPushedFields
<1> QED BY <1>1, Invariant, PTL DEF Spec, PushedValueNotRolledBack

-----------------------------------------------------------------------------
(* Removal *)

\* The counter of merge_cloud never runs ahead of the snapshots that really
\* left the device out.
MissesCounted == \A d \in devices : missing[d] <= absences[d]

\* Steps other than merging a snapshot leave the inventory alone.
LEMMA InventoryFrame ==
    ASSUME [Next]_vars,
           \A p \in Poller, snapshot \in [Device -> Listing] : ~MergeCloud(p, snapshot)
    PROVE  UNCHANGED <<devices, missing, absences>>
<1>1. CASE UNCHANGED vars
  BY <1>1 DEF vars
<1>2. ASSUME NEW d \in Device, Push(d)
      PROVE  UNCHANGED <<devices, missing, absences>>
  BY <1>2 DEF Push, SslStateUpdate, SslReport, LanStatusUpdate, SslReceipt, SslMessage
<1>3. ASSUME NEW d \in Device, Command(d)
      PROVE  UNCHANGED <<devices, missing, absences>>
  BY <1>3 DEF Command, ControlStart, LanAcknowledged, ControlRefused, SslWrite,
              SslWritten, SslWriteFails, ControlFinish
<1>4. ASSUME NEW p \in Poller, Poll(p)
      PROVE  UNCHANGED <<devices, missing, absences>>
  BY <1>4 DEF Poll, ReadSnapshot, ReadFails
<1>5. CASE Tick
  BY <1>5 DEF Tick
<1> QED BY <1>1, <1>2, <1>3, <1>4, <1>5 DEF Next

\* One step of the removal argument.
LEMMA StepTolerates ==
    SyncInv /\ MissesCounted /\ [Next]_vars => MissesCounted' /\ RemovalsTolerated
<1> SUFFICES ASSUME SyncInv, MissesCounted, [Next]_vars
             PROVE  MissesCounted' /\ RemovalsTolerated
  OBVIOUS
<1>0. CoordOK
  BY SyncInvParts
<1>1. ASSUME NEW p \in Poller, NEW snapshot \in [Device -> Listing],
             MergeCloud(p, snapshot)
      PROVE  MissesCounted' /\ RemovalsTolerated
  <2>1. ASSUME NEW d \in devices'
        PROVE  missing'[d] <= absences'[d]
    <3>1. d \in Device /\ d \notin RemovedBy(snapshot)
      BY <1>0, <1>1 DEF MergeCloud, CoordOK, ListedBy
    <3>2. CASE d \in ListedBy(snapshot)
      BY <1>1, <3>1, <3>2 DEF MergeCloud, MissesAfter
    <3>3. CASE d \notin ListedBy(snapshot)
      <4>1. d \in devices /\ missing[d] <= absences[d]
        BY <1>1, <3>3 DEF MergeCloud, MissesCounted
      <4>2. snapshot[d].listed = "absent"
        BY <3>1, <3>3 DEF ListedBy, RemovedBy, Listing, Absent, Hidden
      <4>3. missing[d] + 1 < MissingDeviceTolerance
        BY <1>0, <3>1, <4>1, <4>2, SyncAssumption DEF RemovedBy, CoordOK
      <4>4. missing'[d] = missing[d] + 1
        BY <1>1, <3>1, <3>3, <4>1 DEF MergeCloud, MissesAfter
      <4>5. absences'[d] = IF absences[d] < MissingDeviceTolerance
                             THEN absences[d] + 1 ELSE absences[d]
        BY <1>1, <3>1, <3>3, <4>2 DEF MergeCloud
      <4> QED BY <1>0, <3>1, <4>1, <4>3, <4>4, <4>5, SyncAssumption DEF CoordOK
    <3> QED BY <3>2, <3>3
  <2>2. ASSUME NEW d \in devices \ devices'
        PROVE  absences'[d] = MissingDeviceTolerance
    <3>1. d \in Device /\ d \in RemovedBy(snapshot)
      BY <1>0, <1>1 DEF MergeCloud, CoordOK
    <3>2. CASE snapshot[d].listed = "hidden"
      BY <1>1, <3>1, <3>2 DEF MergeCloud, ListedBy
    <3>3. CASE snapshot[d].listed # "hidden"
      <4>1. snapshot[d].listed = "absent" /\ missing[d] + 1 >= MissingDeviceTolerance
        BY <3>1, <3>3 DEF RemovedBy
      <4>2. absences'[d] = IF absences[d] < MissingDeviceTolerance
                             THEN absences[d] + 1 ELSE absences[d]
        BY <1>1, <3>1, <4>1 DEF MergeCloud, ListedBy
      <4>3. missing[d] <= absences[d]
        BY DEF MissesCounted
      <4> QED BY <1>0, <3>1, <4>1, <4>2, <4>3, SyncAssumption DEF CoordOK
    <3> QED BY <3>2, <3>3
  <2> QED BY <2>1, <2>2 DEF MissesCounted, RemovalsTolerated
<1>2. CASE \A p \in Poller, snapshot \in [Device -> Listing] : ~MergeCloud(p, snapshot)
  BY <1>2, InventoryFrame DEF MissesCounted, RemovalsTolerated
<1> QED BY <1>1, <1>2

\* A device leaves the inventory only after MissingDeviceTolerance snapshots
\* in a row without it, whichever pollers merged them, or when it is hidden.
THEOREM RemovalTolerance == Spec => RemovedOnlyAfterTolerance
<1>1. Init => MissesCounted
  <2> SUFFICES ASSUME Init, NEW d \in devices PROVE missing[d] <= absences[d]
    BY DEF MissesCounted
  <2>1. d \in Device /\ missing[d] = 0 /\ absences[d] = 0
    BY DEF Init
  <2> QED BY <2>1
<1>2. SyncInv /\ MissesCounted /\ [Next]_vars => MissesCounted' /\ RemovalsTolerated
  BY StepTolerates
<1> QED BY <1>1, <1>2, Invariant, PTL DEF Spec, RemovedOnlyAfterTolerance

-----------------------------------------------------------------------------
(* Commands *)

\* Noting what a report wrote, and resolving the echo, leave the command where
\* it is.
LEMMA NotedSame ==
    ASSUME CoordOK, NEW d \in Device, NEW written \in SUBSET Field, NEW report
    PROVE  LET c == NoteReported(d, written)
           IN  /\ c.pc = control[d].pc /\ c.kind = control[d].kind
               /\ Resolve(c, report).pc = control[d].pc
               /\ Resolve(c, report).kind = control[d].kind
<1> DEFINE c == NoteReported(d, written)
<1>1. c \in Control /\ c.pc = control[d].pc /\ c.kind = control[d].kind
  BY NoteOK DEF NoteReported, CoordOK, Control
<1>2. Resolve(c, report).pc = c.pc /\ Resolve(c, report).kind = c.kind
  BY <1>1 DEF Resolve, Control
<1> QED BY <1>1, <1>2

\* Only a command's own steps move it on.
LEMMA OwnSteps ==
    ASSUME SyncInv, [Next]_vars, NEW d \in Device, ~Command(d)
    PROVE  control'[d].pc = control[d].pc /\ control'[d].kind = control[d].kind
<1>0. CoordOK /\ control \in [Device -> Control]
  BY SyncInvParts DEF CoordOK
<1>1. CASE UNCHANGED vars
  BY <1>1 DEF vars
<1>2. ASSUME NEW e \in Device, Push(e)
      PROVE  control'[d].pc = control[d].pc /\ control'[d].kind = control[d].kind
  <2>1. ASSUME NEW report, NEW source
        PROVE  /\ NoteDispatched(e, report, source).pc = control[e].pc
               /\ NoteDispatched(e, report, source).kind = control[e].kind
               /\ Resolve(NoteDispatched(e, report, source), report).pc = control[e].pc
               /\ Resolve(NoteDispatched(e, report, source), report).kind = control[e].kind
    <3>1. (IF e \in present THEN Written(e, report, source) ELSE {}) \in SUBSET Field
      BY DEF Written, Accepted
    <3> QED BY <1>0, <3>1, NotedSame DEF NoteDispatched
  <2>2. Resolve(control[e], NoFields).pc = control[e].pc
        /\ Resolve(control[e], NoFields).kind = control[e].kind
    BY <1>0 DEF Resolve, Control
  <2>3. CASE \E report \in Fields : SslStateUpdate(e, report)
    BY <1>0, <2>1, <2>3 DEF SslStateUpdate
  <2>4. CASE \E report \in Fields : SslReport(e, report)
    BY <1>0, <2>1, <2>4 DEF SslReport
  <2>5. CASE \E report \in Fields : LanStatusUpdate(e, report)
    BY <1>0, <2>1, <2>5 DEF LanStatusUpdate
  <2>6. CASE SslReceipt(e)
    BY <1>0, <2>2, <2>6 DEF SslReceipt
  <2>7. CASE SslMessage(e)
    BY <2>7 DEF SslMessage
  <2> QED BY <1>2, <2>3, <2>4, <2>5, <2>6, <2>7 DEF Push
<1>3. ASSUME NEW e \in Device, Command(e)
      PROVE  control'[d] = control[d]
  <2>1. e # d
    BY <1>3
  <2> QED BY <1>0, <1>3, <2>1
          DEF Command, ControlStart, LanAcknowledged, ControlRefused, SslWrite, SslWritten,
              SslWriteFails, ControlFinish, Finish
<1>4. ASSUME NEW p \in Poller, Poll(p)
      PROVE  control'[d].pc = control[d].pc /\ control'[d].kind = control[d].kind
  <2>1. CASE ReadSnapshot(p) \/ ReadFails(p)
    BY <2>1 DEF ReadSnapshot, ReadFails
  <2>2. ASSUME NEW snapshot \in [Device -> Listing], MergeCloud(p, snapshot)
        PROVE  control'[d].pc = control[d].pc /\ control'[d].kind = control[d].kind
    <3>1. Accepted(d, CloudState(snapshot[d]), CLOUD, FALSE) \in SUBSET Field
      BY DEF Accepted
    <3>2. \A written \in SUBSET Field : /\ NoteReported(d, written).pc = control[d].pc
                                        /\ NoteReported(d, written).kind = control[d].kind
      BY <1>0, NotedSame
    <3> QED BY <2>2, <3>1, <3>2 DEF MergeCloud
  <2> QED BY <1>4, <2>1, <2>2 DEF Poll
<1>5. CASE Tick
  BY <1>5 DEF Tick
<1> QED BY <1>1, <1>2, <1>3, <1>4, <1>5 DEF Next

\* A command that waits for its echo is of a family that does.
WaitersWait ==
    \A d \in Device : control[d].pc = "waiting" => control[d].kind \notin Unwaited

\* Every step keeps it.
LEMMA StepWaits == SyncInv /\ WaitersWait /\ [Next]_vars => WaitersWait'
<1> SUFFICES ASSUME SyncInv, WaitersWait, [Next]_vars, NEW d \in Device,
                    control'[d].pc = "waiting"
             PROVE  control'[d].kind \notin Unwaited
  BY DEF WaitersWait
<1>0. control \in [Device -> Control]
  BY SyncInvParts DEF CoordOK
<1>1. CASE ~Command(d)
  BY <1>1, OwnSteps DEF WaitersWait
<1>2. CASE \E kind \in ControlKind, command \in Fields : ControlStart(d, kind, command)
  BY <1>0, <1>2 DEF ControlStart, NoControl
<1>3. CASE LanAcknowledged(d) \/ ControlRefused(d) \/ ControlFinish(d)
  BY <1>0, <1>3 DEF LanAcknowledged, ControlRefused, ControlFinish, Finish, NoControl
<1>4. CASE SslWrite(d)
  BY <1>0, <1>4 DEF SslWrite, Control
<1>5. CASE SslWritten(d)
  BY <1>0, <1>5 DEF SslWritten, Finish, NoControl, Control
<1>6. CASE SslWriteFails(d)
  BY <1>0, <1>6 DEF SslWriteFails, Finish, NoControl, Control, IgnoresSendFailure, Unwaited
<1> QED BY <1>1, <1>2, <1>3, <1>4, <1>5, <1>6 DEF Command

\* What the families that test their echo write is the command, all of it, into
\* a dictionary that exists afterwards.
LEMMA CommandWritten ==
    ASSUME SyncInv, NEW d \in Device, control[d].kind \in EchoTested, WriteCommand(d),
           d \in present', NEW f \in Field, Carries(control[d].command, f)
    PROVE  states'[d][f] = control[d].command[f]
<1>0. states \in [Device -> Fields]
  BY SyncInvParts DEF StoreInv, StoreOK
<1>1. CASE control[d].kind = "clothes_horse"
  <2>1. d \in present
    BY <1>1 DEF WriteCommand, storeVars
  <2> QED BY <1>0, <1>1, <2>1 DEF WriteCommand, WriteAndMark
<1>2. CASE control[d].kind # "clothes_horse"
  <2>1. Optimistic(d)
    BY <1>2 DEF WriteCommand, EchoTested
  <2>2. f \in Accepted(d, control[d].command, OPTIMISTIC, TRUE)
    BY DEF Accepted
  <2> QED BY <1>0, <2>1, <2>2 DEF Optimistic, Merge, MergedState
<1> QED BY <1>1, <1>2

\* A success leaves no stale state, in every step.
LEMMA StepLeavesNoStaleState ==
    SyncInv /\ WaitersWait /\ [Next]_vars =>
        \A d \in Device : NoStaleStateAfter(d, EchoTested)
<1> SUFFICES ASSUME SyncInv, WaitersWait, [Next]_vars, NEW d \in Device, Succeeds(d),
                    control[d].kind \in EchoTested, d \in present'
             PROVE  \/ \A f \in Field : Carries(control[d].command, f)
                                          => states'[d][f] = control[d].command[f]
                    \/ control[d].answer.fields # NoFields
  BY DEF NoStaleStateAfter
<1>0. control \in [Device -> Control]
  BY SyncInvParts DEF CoordOK
<1>1. Command(d)
  BY OwnSteps DEF Succeeds
<1>2. CASE WriteCommand(d)
  BY <1>2, CommandWritten
<1>3. CASE ControlFinish(d) /\ Settles(control[d])
  <2>1. control[d].kind \in {"power", "cover", "ac_power", "ventilation_power"}
    BY <1>3 DEF ControlFinish, WaitersWait, Unwaited, EchoTested
  <2>2. ResponseHasState(control[d].answer)
    BY <1>3, <2>1 DEF Settles, Routed
  <2> QED BY <2>2 DEF ResponseHasState
<1>4. WriteCommand(d) \/ (ControlFinish(d) /\ Settles(control[d]))
  <2>1. CASE \E kind \in ControlKind, command \in Fields : ControlStart(d, kind, command)
    BY <2>1 DEF ControlStart, Succeeds
  <2>2. CASE ControlRefused(d)
    BY <1>0, <2>2 DEF ControlRefused, Finish, NoControl, Succeeds
  <2>3. CASE SslWrite(d)
    BY <1>0, <2>3 DEF SslWrite, Control, Succeeds
  <2>4. CASE SslWriteFails(d)
    BY <1>0, <2>4 DEF SslWriteFails, Finish, NoControl, Control, Succeeds
  <2>5. CASE SslWritten(d)
    BY <1>0, <2>5 DEF SslWritten, Control, Succeeds
  <2>6. CASE LanAcknowledged(d)
    BY <2>6 DEF LanAcknowledged
  <2>7. CASE ControlFinish(d)
    BY <2>7 DEF ControlFinish
  <2> QED BY <1>1, <2>1, <2>2, <2>3, <2>4, <2>5, <2>6, <2>7 DEF Command
<1> QED BY <1>2, <1>3, <1>4

(***************************************************************************)
(* ControlExecutor: a success of a family that tests its echo with         *)
(* _response_has_state, or writes without waiting, leaves the commanded    *)
(* values in the entity, unless a report or the echo itself had newer      *)
(* ones.                                                                   *)
(***************************************************************************)
THEOREM NoStaleState == Spec => ControlLeavesNoStaleState
<1>1. Init => WaitersWait
  BY DEF Init, NoControl, WaitersWait
<1>2. SyncInv /\ WaitersWait /\ [Next]_vars => WaitersWait'
  BY StepWaits
<1>3. SyncInv /\ WaitersWait /\ [Next]_vars =>
        \A d \in Device : NoStaleStateAfter(d, EchoTested)
  BY StepLeavesNoStaleState
<1> QED BY <1>1, <1>2, <1>3, Invariant, PTL DEF Spec, ControlLeavesNoStaleState

-----------------------------------------------------------------------------
(* The dream curtain *)

Move == [pc : {"idle", "centring", "centred", "travel", "travelled", "late_travel",
               "tilt", "late_tilt"},
         to : Int, excused : BOOLEAN]

(***************************************************************************)
(* A packet that is on its way, in time or late, finds the curtain as its  *)
(* call saw it, or the call is excused.                                    *)
(***************************************************************************)
CurtainInv ==
    /\ curtain \in [position : Int, angle : Int]
    /\ moves \in [CurtainTask -> Move]
    /\ \A t \in CurtainTask : ~moves[t].excused =>
          /\ moves[t].pc \in {"travel", "late_travel"} => curtain.angle = Upright
          /\ moves[t].pc \in {"tilt", "late_tilt"} => curtain.position = 0

\* Tilt positions have an angle.
LEMMA Angles ==
    /\ \A x \in Tilt : Angle(x) \in Int
    /\ NoMove \in Move /\ Upright \in Int
    /\ \A p \in Position : p \in Int
BY CurtainAssumption DEF Angle, NoMove, Move, Upright

\* A step of one call that leaves the curtain alone.
LEMMA OneMoves ==
    ASSUME CurtainInv, UNCHANGED curtain, NEW t \in CurtainTask, NEW m \in Move,
           moves' = [moves EXCEPT ![t] = m],
           ~m.excused /\ m.pc \in {"travel", "late_travel"} => curtain.angle = Upright,
           ~m.excused /\ m.pc \in {"tilt", "late_tilt"} => curtain.position = 0
    PROVE  CurtainInv'
BY DEF CurtainInv

\* A step in which the curtain moves: every call that is at work is excused.
LEMMA CurtainMoves ==
    ASSUME CurtainInv, NEW c \in [position : Int, angle : Int],
           NEW others \in [CurtainTask -> Move],
           \A u \in CurtainTask : others[u] = moves[u] \/ others[u].pc \in {"idle", "travelled"},
           CurtainBecomes(c, others)
    PROVE  CurtainInv'
<1>1. \A u \in CurtainTask : [others[u] EXCEPT !.excused = TRUE] \in Move
  BY DEF Move
<1>2. moves' \in [CurtainTask -> Move]
  BY <1>1 DEF CurtainBecomes
<1>3. ASSUME NEW u \in CurtainTask, ~moves'[u].excused
      PROVE  /\ moves'[u].pc \in {"travel", "late_travel"} => c.angle = Upright
             /\ moves'[u].pc \in {"tilt", "late_tilt"} => c.position = 0
  <2>1. moves'[u] = others[u] /\ (c = curtain \/ others[u].pc = "idle")
    BY <1>3 DEF CurtainBecomes, Move
  <2> QED BY <1>3, <2>1 DEF CurtainInv
<1> QED BY <1>2, <1>3 DEF CurtainInv, CurtainBecomes

\* Every step of the curtain and its calls keeps the invariant.
LEMMA CurtainInductive == CurtainInv /\ [CurtainNext]_curtainVars => CurtainInv'
<1> SUFFICES ASSUME CurtainInv, [CurtainNext]_curtainVars
             PROVE  CurtainInv'
  OBVIOUS
<1>1. CASE UNCHANGED curtainVars
  BY <1>1 DEF curtainVars, CurtainInv
<1>2. ASSUME NEW t \in CurtainTask, NEW p \in Position, SetPosition(t, p)
      PROVE  CurtainInv'
  <2>1. (curtain.angle # Upright) \in BOOLEAN /\ p \in Int /\ UNCHANGED curtain
    BY <1>2, Angles DEF SetPosition
  <2>2. CASE seen.angle = Upright
    <3> DEFINE m == [pc |-> "travel", to |-> p, excused |-> curtain.angle # Upright]
    <3>1. m \in Move
      BY <2>1 DEF Move
    <3>2. moves' = [moves EXCEPT ![t] = m]
      BY <1>2, <2>2 DEF SetPosition
    <3>3. m.pc = "travel" /\ (~m.excused => curtain.angle = Upright)
      OBVIOUS
    <3> HIDE DEF m
    <3> QED BY <2>1, <3>1, <3>2, <3>3, OneMoves
  <2>3. CASE seen.angle # Upright
    BY <1>2, <2>1, <2>3, OneMoves DEF SetPosition, Move
  <2> QED BY <2>2, <2>3
<1>3. ASSUME NEW t \in CurtainTask, NEW x \in Tilt, SetTilt(t, x)
      PROVE  CurtainInv'
  <2>1. (curtain.position # 0) \in BOOLEAN
    OBVIOUS
  <2> QED BY <1>3, <2>1, Angles, OneMoves DEF SetTilt, Move
<1>4. ASSUME NEW t \in CurtainTask, Centres(t)
      PROVE  CurtainInv'
  <2>1. curtain' \in [position : Int, angle : Int] /\ curtain'.position = curtain.position
        /\ curtain'.angle = Upright
    BY <1>4, Angles DEF Centres, CurtainInv
  <2>2. \A u \in CurtainTask : /\ [moves[u] EXCEPT !.excused = TRUE] \in Move
                               /\ [moves[u] EXCEPT !.pc = "centred"] \in Move
    BY DEF CurtainInv, Move
  <2>3. moves' \in [CurtainTask -> Move]
    BY <1>4, <2>2 DEF Centres, CurtainInv
  <2>4. ASSUME NEW u \in CurtainTask, ~moves'[u].excused
        PROVE  moves'[u].pc \in {"tilt", "late_tilt"} => curtain.position = 0
    BY <1>4, <2>4 DEF Centres, CurtainInv, Move
  <2> QED BY <2>1, <2>3, <2>4 DEF CurtainInv
<1>5. ASSUME NEW t \in CurtainTask, GivenUp(t) \/ PacketLost(t)
      PROVE  CurtainInv'
  BY <1>5, Angles, OneMoves DEF GivenUp, PacketLost, NoMove
<1>6. ASSUME NEW t \in CurtainTask, Travels(t)
      PROVE  CurtainInv'
  <2> DEFINE others == [moves EXCEPT ![t] =
                        IF @.pc = "travel" THEN [@ EXCEPT !.pc = "travelled"] ELSE NoMove]
             c == [curtain EXCEPT !.position = moves[t].to]
  <2>1. others \in [CurtainTask -> Move] /\ c \in [position : Int, angle : Int]
    BY Angles DEF CurtainInv, Move
  <2>2. \A u \in CurtainTask : others[u] = moves[u] \/ others[u].pc \in {"idle", "travelled"}
    BY DEF CurtainInv, Move, NoMove
  <2>3. CurtainBecomes(c, others)
    BY <1>6 DEF Travels
  <2> HIDE DEF others, c
  <2> QED BY <2>1, <2>2, <2>3, CurtainMoves
<1>7. ASSUME NEW t \in CurtainTask, UNCHANGED curtain, Leaves(t)
      PROVE  CurtainInv'
  <2> DEFINE m == IF moves[t].pc = "travel" THEN [moves[t] EXCEPT !.pc = "late_travel"] ELSE NoMove
  <2>1. m \in Move /\ moves' = [moves EXCEPT ![t] = m]
    BY <1>7, Angles DEF Leaves, CurtainInv, Move
  <2>2. /\ ~m.excused /\ m.pc \in {"travel", "late_travel"} => curtain.angle = Upright
        /\ m.pc \notin {"tilt", "late_tilt"}
    BY DEF CurtainInv, Move, NoMove
  <2> HIDE DEF m
  <2> QED BY <1>7, <2>1, <2>2, OneMoves
<1>8. ASSUME NEW t \in CurtainTask, TiltSent(t)
      PROVE  CurtainInv'
  <2> DEFINE m == [moves[t] EXCEPT !.pc = "late_tilt"]
  <2>1. m \in Move /\ moves' = [moves EXCEPT ![t] = m] /\ UNCHANGED curtain
    BY <1>8 DEF TiltSent, CurtainInv, Move
  <2>2. m.pc = "late_tilt" /\ m.excused = moves[t].excused /\ moves[t].pc = "tilt"
    BY <1>8 DEF TiltSent, CurtainInv, Move
  <2> HIDE DEF m
  <2> QED BY <2>1, <2>2, OneMoves DEF CurtainInv
<1>9. ASSUME NEW t \in CurtainTask, Tilts(t)
      PROVE  CurtainInv'
  <2> DEFINE others == [moves EXCEPT ![t] = NoMove]
             c == [curtain EXCEPT !.angle = moves[t].to]
  <2>1. others \in [CurtainTask -> Move] /\ c \in [position : Int, angle : Int]
    BY Angles DEF CurtainInv, Move
  <2>2. \A u \in CurtainTask : others[u] = moves[u] \/ others[u].pc \in {"idle", "travelled"}
    BY DEF CurtainInv, NoMove
  <2>3. CurtainBecomes(c, others)
    BY <1>9 DEF Tilts
  <2> HIDE DEF others, c
  <2> QED BY <2>1, <2>2, <2>3, CurtainMoves
<1>10. ASSUME NEW t \in CurtainTask, NEW fields, CentreAnswered(t, fields)
       PROVE  CurtainInv'
  <2> DEFINE m == IF ConfirmsCentre(fields)
                    THEN [pc |-> "travel", to |-> moves[t].to, excused |-> FALSE] ELSE NoMove
  <2>1. m \in Move /\ moves' = [moves EXCEPT ![t] = m] /\ UNCHANGED curtain
    BY <1>10, Angles DEF CentreAnswered, CurtainInv, Move
  <2>2. \/ m.pc = "idle"
        \/ m.pc = "travel" /\ curtain.angle = Upright
    BY DEF ConfirmsCentre, NoMove
  <2> HIDE DEF m
  <2> QED BY <2>1, <2>2, OneMoves
<1>11. ASSUME NEW c \in [position : Position, angle : {Angle(x) : x \in Tilt}], MovedByItself(c)
       PROVE  CurtainInv'
  <2>1. c \in [position : Int, angle : Int] /\ CurtainBecomes(c, moves)
    BY <1>11, Angles DEF MovedByItself
  <2> QED BY <2>1, CurtainMoves DEF CurtainInv
<1>12. ASSUME NEW fields, CurtainPush(fields)
       PROVE  CurtainInv'
  BY <1>12 DEF CurtainPush, CurtainInv
<1> QED BY <1>1, <1>2, <1>3, <1>4, <1>5, <1>6, <1>7, <1>8, <1>9, <1>10, <1>11, <1>12
        DEF CurtainNext, TravelSettles, TravelEchoed

(***************************************************************************)
(* set_cover_position and set_dream_curtain_angle: the curtain travels     *)
(* with its blades upright and the blades turn while it is closed, for any *)
(* positions, tilts and number of calls, unless what the call had looked   *)
(* at was wrong or has changed.                                            *)
(***************************************************************************)
THEOREM InterlockKept == CurtainSpec => CurtainInterlock
<1>1. CurtainInit => CurtainInv
  <2> SUFFICES ASSUME CurtainInit PROVE CurtainInv
    OBVIOUS
  <2>1. curtain \in [position : Int, angle : Int]
    BY Angles DEF CurtainInit
  <2>2. moves \in [CurtainTask -> Move] /\ \A t \in CurtainTask : moves[t].pc = "idle"
    BY Angles DEF CurtainInit, NoMove
  <2> QED BY <2>1, <2>2 DEF CurtainInv
<1>2. CurtainInv /\ [CurtainNext]_curtainVars =>
        [\A t \in CurtainTask :
           ~moves[t].excused =>
              /\ Travels(t) => curtain.angle = Upright
              /\ Tilts(t) => curtain.position = 0]_curtainVars
  BY DEF CurtainInv, Travels, Tilts
<1> QED BY <1>1, <1>2, CurtainInductive, PTL DEF CurtainSpec, CurtainInterlock

-----------------------------------------------------------------------------
(* The air conditioner *)

UnitType == [on : BOOLEAN, mode : Nat \ {0}, fan : Nat \ {0}, target : Nat \ {0}]
KeptType == [state : BOOLEAN, mode : Nat, fan : Nat, value4 : Nat, temperature : Nat]
PacketType == [on : BOOLEAN, mode : Nat, fan : Nat, value4 : Nat]
AcType == [pc : {"idle", "sending", "acking", "waiting", "obeyed", "turned_on"},
           named : SUBSET Setting, packet : PacketType, power : BOOLEAN, next : Nat,
           knew : SUBSET Setting]

\* What the store was told of the unit and nobody has moved since, it still says.
ToldIsTrue ==
    /\ told \subseteq Setting
    /\ "mode" \in told => kept.mode = unit.mode
    /\ "fan" \in told => kept.fan = unit.fan
    /\ "target" \in told => Target(kept.value4) = unit.target

\* A packet on its way says nothing else of what its command knew and did not name.
PacketAgrees ==
    ac.pc \in {"sending", "acking", "waiting", "obeyed"} =>
        \A x \in ac.knew \ ac.named : UnitObeys(ac.packet, unit)[x] = unit[x]

ClimateInv ==
    /\ unit \in UnitType /\ kept \in KeptType
    /\ ac \in AcType
    /\ ToldIsTrue /\ PacketAgrees

\* Packing a temperature and reading it back, alone or with the room's in the
\* lower half.
LEMMA PackedTarget ==
    ASSUME NEW g \in Nat, NEW r \in Nat, r < 65536
    PROVE  /\ Packed(g) \in Nat /\ Target(Packed(g)) = g
           /\ Packed(g) + r \in Nat /\ Target(Packed(g) + r) = g
<1>1. g * 65536 \in Nat
  OBVIOUS
<1>2. (g * 65536) \div 65536 = g
  OBVIOUS
<1>3. (g * 65536 + r) \div 65536 = g
  OBVIOUS
<1>4. g * 65536 + r \in Nat
  BY <1>1
<1> QED BY <1>1, <1>2, <1>3, <1>4 DEF Packed, Target

\* The temperature of a packet without one, and of the default.
LEMMA NoTarget == Target(0) = 0 /\ DefaultValue4 \in Nat
<1>1. 0 \div 65536 = 0 /\ 2500 * 65536 \in Nat
  OBVIOUS
<1> QED BY <1>1 DEF Target, Packed, DefaultValue4

\* The temperature of any packet is a number.
LEMMA TargetType == ASSUME NEW v \in Nat PROVE Target(v) \in Nat
BY DEF Target

\* The constants are of these types.
LEMMA ClimateConstants ==
    /\ \A x \in AcMode : x \in Nat \ {0}
    /\ \A x \in AcFan : x \in Nat \ {0}
    /\ \A x \in AcTarget : x \in Nat \ {0}
    /\ AcRoom \in Nat /\ AcRoom < 65536
<1>1. ASSUME NEW x \in AcMode PROVE x \in Nat \ {0}
  BY ClimateAssumption
<1>2. ASSUME NEW x \in AcFan PROVE x \in Nat \ {0}
  BY ClimateAssumption
<1>3. ASSUME NEW x \in AcTarget PROVE x \in Nat \ {0}
  BY ClimateAssumption
<1>4. AcRoom \in Nat /\ AcRoom < 65536
  BY ClimateAssumption
<1> QED BY <1>1, <1>2, <1>3, <1>4

\* The packets, made from the stored state, agree with what the store was told.
LEMMA PacketsAgree ==
    ASSUME ClimateInv
    PROVE  /\ \A m \in Nat : /\ ModePacket(m) \in PacketType
                             /\ \A x \in told \ {"mode"} : UnitObeys(ModePacket(m), unit)[x] = unit[x]
           /\ \A s \in Nat : /\ FanPacket(s) \in PacketType
                             /\ \A x \in told \ {"fan"} : UnitObeys(FanPacket(s), unit)[x] = unit[x]
           /\ \A g \in Nat : /\ TemperaturePacket(g) \in PacketType
                             /\ \A x \in told \ {"target"} :
                                   UnitObeys(TemperaturePacket(g), unit)[x] = unit[x]
           /\ \A on \in BOOLEAN : /\ AcPowerPacket(on) \in PacketType
                                  /\ \A x \in told : UnitObeys(AcPowerPacket(on), unit)[x] = unit[x]
<1>1. /\ unit.mode \in Nat /\ unit.mode # 0 /\ unit.fan \in Nat /\ unit.fan # 0
      /\ unit.target \in Nat /\ unit.target # 0
      /\ kept.mode \in Nat /\ kept.fan \in Nat /\ kept.value4 \in Nat
  BY DEF ClimateInv, UnitType, KeptType
<1>2. /\ OrElse(kept.mode, 3) \in Nat /\ OrElse(kept.fan, 1) \in Nat
      /\ OrElse(kept.value4, DefaultValue4) \in Nat
  BY <1>1, NoTarget DEF OrElse
<1>3. /\ "mode" \in told => OrElse(OrElse(kept.mode, 3), unit.mode) = unit.mode
      /\ "fan" \in told => OrElse(OrElse(kept.fan, 1), unit.fan) = unit.fan
      /\ "target" \in told =>
            OrElse(Target(OrElse(kept.value4, DefaultValue4)), unit.target) = unit.target
      /\ OrElse(NotGiven, unit.fan) = unit.fan
  <2>1. "mode" \in told => OrElse(OrElse(kept.mode, 3), unit.mode) = unit.mode
    BY <1>1 DEF ClimateInv, ToldIsTrue, OrElse, NotGiven
  <2>2. "fan" \in told => OrElse(OrElse(kept.fan, 1), unit.fan) = unit.fan
    BY <1>1 DEF ClimateInv, ToldIsTrue, OrElse, NotGiven
  <2>3. "target" \in told => Target(kept.value4) = unit.target /\ kept.value4 # 0
    BY <1>1, NoTarget DEF ClimateInv, ToldIsTrue
  <2>4. "target" \in told =>
            OrElse(Target(OrElse(kept.value4, DefaultValue4)), unit.target) = unit.target
    BY <1>1, <2>3 DEF OrElse, NotGiven
  <2> QED BY <2>1, <2>2, <2>4 DEF OrElse
<1>4. told \subseteq {"mode", "fan", "target"}
  BY DEF ClimateInv, ToldIsTrue, Setting
<1>5. ASSUME NEW m \in Nat
      PROVE  /\ ModePacket(m) \in PacketType
             /\ \A x \in told \ {"mode"} : UnitObeys(ModePacket(m), unit)[x] = unit[x]
  <2>1. ModePacket(m) \in PacketType
    BY <1>2 DEF ModePacket, AcPacket, PacketType, NotGiven
  <2>2. ASSUME NEW x \in {"fan", "target"}, x \in told
        PROVE  UnitObeys(ModePacket(m), unit)[x] = unit[x]
    BY <1>3, <2>2 DEF ModePacket, AcPacket, UnitObeys
  <2> QED BY <1>4, <2>1, <2>2
<1>6. ASSUME NEW s \in Nat
      PROVE  /\ FanPacket(s) \in PacketType
             /\ \A x \in told \ {"fan"} : UnitObeys(FanPacket(s), unit)[x] = unit[x]
  <2>1. FanPacket(s) \in PacketType
    BY <1>2 DEF FanPacket, AcPacket, PacketType
  <2>2. ASSUME NEW x \in {"mode", "target"}, x \in told
        PROVE  UnitObeys(FanPacket(s), unit)[x] = unit[x]
    BY <1>3, <2>2 DEF FanPacket, AcPacket, UnitObeys
  <2> QED BY <1>4, <2>1, <2>2
<1>7. ASSUME NEW g \in Nat
      PROVE  /\ TemperaturePacket(g) \in PacketType
             /\ \A x \in told \ {"target"} : UnitObeys(TemperaturePacket(g), unit)[x] = unit[x]
  <2>1. Packed(g) \in Nat
    BY DEF Packed
  <2>2. TemperaturePacket(g) \in PacketType
    BY <1>2, <2>1 DEF TemperaturePacket, AcPacket, PacketType
  <2>3. ASSUME NEW x \in {"mode", "fan"}, x \in told
        PROVE  UnitObeys(TemperaturePacket(g), unit)[x] = unit[x]
    BY <1>3, <2>3 DEF TemperaturePacket, AcPacket, UnitObeys
  <2> QED BY <1>4, <2>2, <2>3
<1>8. ASSUME NEW on \in BOOLEAN
      PROVE  /\ AcPowerPacket(on) \in PacketType
             /\ \A x \in told : UnitObeys(AcPowerPacket(on), unit)[x] = unit[x]
  <2>1. AcPowerPacket(on) \in PacketType
    BY <1>2 DEF AcPowerPacket, AcPacket, PacketType
  <2>2. ASSUME NEW x \in {"mode", "fan", "target"}, x \in told
        PROVE  UnitObeys(AcPowerPacket(on), unit)[x] = unit[x]
    BY <1>3, <2>2 DEF AcPowerPacket, AcPacket, UnitObeys
  <2> QED BY <1>4, <2>1, <2>2
<1> QED BY <1>5, <1>6, <1>7, <1>8

\* A command starts.
LEMMA SendsKeeps ==
    ASSUME ClimateInv, UNCHANGED <<unit, kept, told>>,
           NEW named \in SUBSET Setting, NEW packet \in PacketType, NEW power \in BOOLEAN,
           NEW next \in Nat, Sends(named, packet, power, next),
           \A x \in told \ named : UnitObeys(packet, unit)[x] = unit[x]
    PROVE  ClimateInv'
<1>1. ac' \in AcType
  BY DEF Sends, AcType, ClimateInv, ToldIsTrue
<1>2. ToldIsTrue'
  BY DEF ClimateInv, ToldIsTrue
<1>3. PacketAgrees'
  BY DEF Sends, PacketAgrees, UnitObeys
<1> QED BY <1>1, <1>2, <1>3 DEF ClimateInv

\* The unit changes, by a packet or by hand: what moved is no longer known.
LEMMA UnitChanges ==
    ASSUME ClimateInv, NEW w \in UnitType, unit' = w, told' = told \ AcMoved(unit, w),
           UNCHANGED kept,
           NEW pc \in {ac.pc, "acking", "obeyed"},
           ac' = [ac EXCEPT !.pc = pc, !.knew = @ \ AcMoved(unit, w)],
           pc # ac.pc => ac.pc \in {"sending", "waiting"}
    PROVE  ClimateInv'
<1>1. /\ ac' \in AcType
      /\ ac'.packet = ac.packet /\ ac'.named = ac.named /\ ac'.pc = pc
      /\ ac'.knew = ac.knew \ AcMoved(unit, w)
  BY DEF ClimateInv, AcType
<1>2. \A x \in Setting : x \notin AcMoved(unit, w) => unit[x] = w[x]
  BY DEF AcMoved
<1>3. ToldIsTrue'
  BY <1>2 DEF ClimateInv, ToldIsTrue, Setting, UnitType
<1>4. PacketAgrees'
  <2> SUFFICES ASSUME ac'.pc \in {"sending", "acking", "waiting", "obeyed"},
                      NEW x \in ac'.knew \ ac'.named
               PROVE  UnitObeys(ac'.packet, unit')[x] = unit'[x]
    BY DEF PacketAgrees
  <2>1. x \in ac.knew \ ac.named /\ x \in {"mode", "fan", "target"} /\ unit[x] = w[x]
    BY <1>1, <1>2 DEF ClimateInv, AcType, Setting
  <2>2. UnitObeys(ac.packet, unit)[x] = unit[x]
    BY <1>1, <2>1 DEF ClimateInv, PacketAgrees
  <2> QED BY <1>1, <2>1, <2>2 DEF UnitObeys
<1> QED BY <1>1, <1>3, <1>4 DEF ClimateInv

\* No command is a command of this type.
LEMMA NoAcType == NoAc \in AcType
BY DEF NoAc, AcType, AcPacket, PacketType, NotGiven

\* The store changes, and the command goes on as before, ends or is between
\* its two packets.
LEMMA StoreChanges ==
    ASSUME ClimateInv, UNCHANGED unit, kept' \in KeptType, ToldIsTrue',
           \/ UNCHANGED ac
           \/ AcEnds
    PROVE  ClimateInv'
<1>1. CASE UNCHANGED ac
  BY <1>1 DEF ClimateInv, PacketAgrees
<1>2. CASE AcEnds
  <2>1. ac' \in AcType /\ ac'.pc \in {"idle", "turned_on"}
    BY <1>2, NoAcType DEF AcEnds, ClimateInv, AcType, NoAc
  <2> QED BY <2>1 DEF ClimateInv, PacketAgrees
<1> QED BY <1>1, <1>2

\* What the unit reports is of these types and true.
LEMMA ParsedFacts ==
    ASSUME ClimateInv, NEW fields \in SUBSET AcFields
    PROVE  /\ AcParsed(fields) \in KeptType
           /\ \A state \in KeptType :
                 /\ state.mode = AcParsed(fields).mode /\ state.fan = AcParsed(fields).fan
                 /\ state.value4 = AcParsed(fields).value4
                 => /\ "mode" \in told \cup (fields \cap Setting) => state.mode = unit.mode
                    /\ "fan" \in told \cup (fields \cap Setting) => state.fan = unit.fan
                    /\ "target" \in told \cup (fields \cap Setting) =>
                          Target(state.value4) = unit.target
<1>1. /\ unit.on \in BOOLEAN /\ unit.mode \in Nat /\ unit.fan \in Nat /\ unit.target \in Nat
      /\ Packed(unit.target) + AcRoom \in Nat /\ Target(Packed(unit.target) + AcRoom) = unit.target
  <2>1. /\ unit.on \in BOOLEAN /\ unit.mode \in Nat /\ unit.fan \in Nat /\ unit.target \in Nat
        /\ AcRoom \in Nat /\ AcRoom < 65536
    BY ClimateConstants DEF ClimateInv, UnitType
  <2> QED BY <2>1, PackedTarget
<1>2. AcParsed(fields) \in KeptType
  BY <1>1 DEF AcParsed, ClimateInv, KeptType
<1>3. /\ "mode" \in told \cup (fields \cap Setting) => AcParsed(fields).mode = unit.mode
      /\ "fan" \in told \cup (fields \cap Setting) => AcParsed(fields).fan = unit.fan
      /\ "target" \in told \cup (fields \cap Setting) =>
            Target(AcParsed(fields).value4) = unit.target
  BY <1>1 DEF AcParsed, ClimateInv, ToldIsTrue
<1> QED BY <1>2, <1>3

\* A unit that has obeyed a packet has all its settings.
LEMMA ObeyedType ==
    ASSUME ClimateInv
    PROVE  UnitObeys(ac.packet, unit) \in UnitType
<1>1. /\ ac.packet.on \in BOOLEAN /\ ac.packet.mode \in Nat /\ ac.packet.fan \in Nat
      /\ ac.packet.value4 \in Nat
  BY DEF ClimateInv, AcType, PacketType
<1>2. Target(ac.packet.value4) \in Nat
  BY <1>1, TargetType
<1>3. /\ unit.mode \in Nat \ {0} /\ unit.fan \in Nat \ {0} /\ unit.target \in Nat \ {0}
  BY DEF ClimateInv, UnitType
<1>4. /\ OrElse(ac.packet.mode, unit.mode) \in Nat \ {0}
      /\ OrElse(ac.packet.fan, unit.fan) \in Nat \ {0}
      /\ OrElse(Target(ac.packet.value4), unit.target) \in Nat \ {0}
  BY <1>1, <1>2, <1>3 DEF OrElse, NotGiven
<1> QED BY <1>1, <1>4 DEF UnitObeys, UnitType

\* The optimistic write leaves the packed temperature alone.
LEMMA WrittenFacts ==
    ASSUME ClimateInv
    PROVE  AcWritten \in KeptType /\ AcWritten.value4 = kept.value4
<1>1. /\ ac.packet.on \in BOOLEAN /\ ac.packet.mode \in Nat /\ ac.packet.fan \in Nat
      /\ ac.packet.value4 \in Nat /\ kept.fan \in Nat
  BY DEF ClimateInv, AcType, PacketType, KeptType
<1>2. Target(ac.packet.value4) \in Nat /\ OrElse(ac.packet.fan, kept.fan) \in Nat
  BY <1>1, TargetType DEF OrElse
<1> QED BY <1>1, <1>2 DEF AcWritten, ClimateInv, KeptType

\* Writing the power once more leaves the rest alone.
LEMMA PoweredFacts ==
    ASSUME ClimateInv, NEW state \in KeptType
    PROVE  /\ WithPower(state) \in KeptType
           /\ WithPower(state).mode = state.mode /\ WithPower(state).fan = state.fan
           /\ WithPower(state).value4 = state.value4
BY DEF WithPower, ClimateInv, AcType, PacketType, KeptType

\* Every step of the unit, its store and its command keeps the invariant.
LEMMA ClimateInductive == ClimateInv /\ [ClimateNext]_climateVars => ClimateInv'
<1> SUFFICES ASSUME ClimateInv, [ClimateNext]_climateVars
             PROVE  ClimateInv'
  OBVIOUS
<1>1. CASE UNCHANGED climateVars
  BY <1>1 DEF climateVars, ClimateInv, ToldIsTrue, PacketAgrees
<1>2. ASSUME NEW m \in AcMode, SetHvacMode(m)
      PROVE  ClimateInv'
  <2>1. m \in Nat
    BY ClimateConstants
  <2>2. CASE kept.state
    <3>1. Sends({"mode"}, ModePacket(m), FALSE, NotGiven) /\ UNCHANGED <<unit, kept, told>>
      BY <1>2, <2>2 DEF SetHvacMode
    <3>2. {"mode"} \in SUBSET Setting /\ NotGiven \in Nat
      BY DEF Setting, NotGiven
    <3>3. /\ ModePacket(m) \in PacketType
          /\ \A x \in told \ {"mode"} : UnitObeys(ModePacket(m), unit)[x] = unit[x]
      BY <2>1, PacketsAgree
    <3> QED BY <2>1, <3>1, <3>2, <3>3, SendsKeeps
  <2>3. CASE ~kept.state
    <3>1. Sends({}, AcPowerPacket(TRUE), TRUE, m) /\ UNCHANGED <<unit, kept, told>>
      BY <1>2, <2>3 DEF SetHvacMode
    <3>2. {} \in SUBSET Setting /\ NotGiven \in Nat
      BY DEF Setting, NotGiven
    <3>3. /\ AcPowerPacket(TRUE) \in PacketType
          /\ \A x \in told \ {} : UnitObeys(AcPowerPacket(TRUE), unit)[x] = unit[x]
      BY <2>1, PacketsAgree
    <3> QED BY <2>1, <3>1, <3>2, <3>3, SendsKeeps
  <2> QED BY <2>2, <2>3
<1>3. ASSUME NEW s \in AcFan, SetFanMode(s)
      PROVE  ClimateInv'
  <2>1. s \in Nat
    BY ClimateConstants
  <2>2. Sends({"fan"}, FanPacket(s), FALSE, NotGiven) /\ UNCHANGED <<unit, kept, told>>
    BY <1>3 DEF SetFanMode
  <2>3. {"fan"} \in SUBSET Setting /\ NotGiven \in Nat
    BY DEF Setting, NotGiven
  <2>4. /\ FanPacket(s) \in PacketType
        /\ \A x \in told \ {"fan"} : UnitObeys(FanPacket(s), unit)[x] = unit[x]
    BY <2>1, PacketsAgree
  <2> QED BY <2>1, <2>2, <2>3, <2>4, SendsKeeps
<1>4. ASSUME NEW g \in AcTarget, SetTemperature(g)
      PROVE  ClimateInv'
  <2>1. g \in Nat
    BY ClimateConstants
  <2>2. Sends({"target"}, TemperaturePacket(g), FALSE, NotGiven) /\ UNCHANGED <<unit, kept, told>>
    BY <1>4 DEF SetTemperature
  <2>3. {"target"} \in SUBSET Setting /\ NotGiven \in Nat
    BY DEF Setting, NotGiven
  <2>4. /\ TemperaturePacket(g) \in PacketType
        /\ \A x \in told \ {"target"} : UnitObeys(TemperaturePacket(g), unit)[x] = unit[x]
    BY <2>1, PacketsAgree
  <2> QED BY <2>1, <2>2, <2>3, <2>4, SendsKeeps
<1>5. ASSUME NEW on \in BOOLEAN, SwitchAc(on)
      PROVE  ClimateInv'
  <2>1. Sends({}, AcPowerPacket(on), TRUE, NotGiven) /\ UNCHANGED <<unit, kept, told>>
    BY <1>5 DEF SwitchAc
  <2>2. {} \in SUBSET Setting /\ NotGiven \in Nat
    BY DEF Setting, NotGiven
  <2>3. /\ AcPowerPacket(on) \in PacketType
        /\ \A x \in told \ {} : UnitObeys(AcPowerPacket(on), unit)[x] = unit[x]
    BY PacketsAgree
  <2> QED BY <2>1, <2>2, <2>3, SendsKeeps
<1>6. ASSUME SetModeNext
      PROVE  ClimateInv'
  <2>1. ac.next \in Nat
    BY DEF ClimateInv, AcType
  <2>2. Sends({"mode"}, ModePacket(ac.next), FALSE, NotGiven) /\ UNCHANGED <<unit, kept, told>>
    BY <1>6 DEF SetModeNext
  <2>3. {"mode"} \in SUBSET Setting /\ NotGiven \in Nat
    BY DEF Setting, NotGiven
  <2>4. /\ ModePacket(ac.next) \in PacketType
        /\ \A x \in told \ {"mode"} : UnitObeys(ModePacket(ac.next), unit)[x] = unit[x]
    BY <2>1, PacketsAgree
  <2> QED BY <2>1, <2>2, <2>3, <2>4, SendsKeeps
<1>7. ASSUME AcLanDelivers \/ AcCloudDelivers
      PROVE  ClimateInv'
  <2> DEFINE w == UnitObeys(ac.packet, unit)
  <2>1. w \in UnitType
    BY ObeyedType
  <2>2. CASE AcLanDelivers
    BY <2>1, <2>2, UnitChanges DEF AcLanDelivers, AcDelivered
  <2>3. CASE AcCloudDelivers
    BY <2>1, <2>3, UnitChanges DEF AcCloudDelivers, AcDelivered
  <2> QED BY <1>7, <2>2, <2>3
<1>8. ASSUME NEW v \in [on : BOOLEAN, mode : AcMode, fan : AcFan, target : AcTarget], Panel(v)
      PROVE  ClimateInv'
  <2>1. v \in UnitType
    BY ClimateConstants DEF UnitType
  <2>2. ac' = [ac EXCEPT !.pc = ac.pc, !.knew = @ \ AcMoved(unit, v)]
    BY <1>8 DEF Panel, ClimateInv
  <2> QED BY <1>8, <2>1, <2>2, UnitChanges DEF Panel
<1>9. ASSUME AcFallBack
      PROVE  ClimateInv'
  <2>1. /\ ac.pc \in {"sending", "acking"} /\ ac' = [ac EXCEPT !.pc = "waiting"]
        /\ UNCHANGED <<unit, kept, told>>
    BY <1>9 DEF AcFallBack
  <2>2. /\ ac'.packet = ac.packet /\ ac'.named = ac.named /\ ac'.knew = ac.knew
        /\ ac' \in AcType
    BY <2>1 DEF ClimateInv, AcType
  <2>3. PacketAgrees'
    BY <2>1, <2>2 DEF ClimateInv, PacketAgrees, UnitObeys
  <2> QED BY <2>1, <2>2, <2>3 DEF ClimateInv, ToldIsTrue
<1>10. ASSUME AcFails
       PROVE  ClimateInv'
  <2>1. kept' \in KeptType /\ ToldIsTrue' /\ UNCHANGED unit
    BY <1>10 DEF AcFails, ClimateInv, ToldIsTrue
  <2> QED BY <1>10, <2>1, StoreChanges DEF AcFails
<1>11. ASSUME AcSettles
       PROVE  ClimateInv'
  <2>1. PICK state \in {AcWritten, kept} : kept' = WithPower(state) /\ told' = ToldAfter(state)
    BY <1>11 DEF AcSettles
  <2>2. state \in KeptType /\ state.value4 = kept.value4
    BY <2>1, WrittenFacts DEF ClimateInv
  <2>3. /\ kept' \in KeptType /\ kept'.mode = state.mode /\ kept'.fan = state.fan
        /\ kept'.value4 = state.value4
    BY <2>1, <2>2, PoweredFacts
  <2>4. /\ told' \subseteq Setting
        /\ "mode" \in told' => state.mode = unit.mode
        /\ "fan" \in told' => state.fan = unit.fan
        /\ "target" \in told' => "target" \in told
    BY <2>1 DEF ToldAfter, ClimateInv, ToldIsTrue, Setting
  <2>5. UNCHANGED unit /\ AcEnds
    BY <1>11 DEF AcSettles
  <2>6. ToldIsTrue'
    BY <2>2, <2>3, <2>4, <2>5 DEF ToldIsTrue, ClimateInv
  <2> QED BY <2>3, <2>5, <2>6, StoreChanges
<1>12. ASSUME NEW fields \in SUBSET AcFields, AcEchoed(fields)
       PROVE  ClimateInv'
  <2>1. /\ kept' = WithPower(AcParsed(fields)) /\ told' = told \cup (fields \cap Setting)
        /\ AcEnds /\ UNCHANGED unit
    BY <1>12 DEF AcEchoed
  <2>2. AcParsed(fields) \in KeptType
    BY ParsedFacts
  <2>3. /\ kept' \in KeptType /\ kept'.mode = AcParsed(fields).mode
        /\ kept'.fan = AcParsed(fields).fan /\ kept'.value4 = AcParsed(fields).value4
    BY <2>1, <2>2, PoweredFacts
  <2>4. ToldIsTrue'
    BY <2>1, <2>3, ParsedFacts DEF ToldIsTrue, ClimateInv
  <2> QED BY <2>1, <2>3, <2>4, StoreChanges
<1>13. ASSUME NEW fields \in SUBSET AcFields, AcPush(fields)
       PROVE  ClimateInv'
  <2>1. /\ kept' = AcParsed(fields) /\ told' = told \cup (fields \cap Setting)
        /\ UNCHANGED ac /\ UNCHANGED unit
    BY <1>13 DEF AcPush
  <2>2. kept' \in KeptType
    BY <2>1, ParsedFacts
  <2>3. ToldIsTrue'
    BY <2>1, <2>2, ParsedFacts DEF ToldIsTrue, ClimateInv
  <2> QED BY <2>1, <2>2, <2>3, StoreChanges
<1> QED BY <1>1, <1>2, <1>3, <1>4, <1>5, <1>6, <1>7, <1>8, <1>9, <1>10, <1>11, <1>12, <1>13
        DEF ClimateNext

(***************************************************************************)
(* coordinator.py fills a packet from ac_mode_raw, fan_speed_raw and       *)
(* value4: whatever modes, speeds and temperatures there are, a delivered  *)
(* packet moves no setting its command did not name, when the store had    *)
(* been told of it and nobody has moved it since.                          *)
(***************************************************************************)
THEOREM SettingsKept == ClimateSpec => SettingsSurvive
<1>1. ClimateInit => ClimateInv
  <2> SUFFICES ASSUME ClimateInit PROVE ClimateInv
    OBVIOUS
  <2>1. unit \in UnitType
    BY ClimateConstants DEF ClimateInit, UnitType
  <2>2. kept \in KeptType /\ ToldIsTrue
    BY DEF ClimateInit, KeptType, NotGiven, ToldIsTrue
  <2>3. ac \in AcType /\ ac.pc = "idle"
    BY NoAcType DEF ClimateInit, NoAc
  <2> QED BY <2>1, <2>2, <2>3 DEF ClimateInv, PacketAgrees
<1>2. ClimateInv =>
        (AcLanDelivers \/ AcCloudDelivers
           => ac.knew \cap (AcMoved(unit, unit') \ ac.named) = {})
  <2> SUFFICES ASSUME ClimateInv, AcLanDelivers \/ AcCloudDelivers,
                      NEW x \in ac.knew, x \notin ac.named, x \in AcMoved(unit, unit')
               PROVE  FALSE
    OBVIOUS
  <2>1. unit' = UnitObeys(ac.packet, unit) /\ ac.pc \in {"sending", "waiting"}
    BY DEF AcLanDelivers, AcCloudDelivers, AcDelivered
  <2>2. unit[x] # unit'[x]
    BY DEF AcMoved
  <2> QED BY <2>1, <2>2 DEF ClimateInv, PacketAgrees
<1> QED BY <1>1, <1>2, ClimateInductive, PTL DEF ClimateSpec, SettingsSurvive

-----------------------------------------------------------------------------
(* The lamp and what the store knows of it *)

\* The colours a lamp takes, in its own unit.
OwnColours(kind) ==
    CASE kind = "cct" -> 2700..6500
      [] kind = "fast_move" -> 166..370
      [] OTHER -> 153..370

\* A brightness and a colour as they are stored, asked for and sent, or missing.
Level == Unset..255
Temperature == Unset..6500

\* Only the older tunable lamp ends up at a level of zero while it is on.
LampOK(l) ==
    /\ l \in [on : BOOLEAN, level : Level, colour : OwnColours(family)]
    /\ 0 <= l.level /\ (l.level = 0 => family = "dim_color")

ShownOK(s) == s \in [state : BOOLEAN, brightness : Level, color_temp : Temperature]

\* What the store was told of the lamp and still holds true: the level as it is,
\* and a colour the router converts back into the one the lamp holds.
Agreement(l, s, known) ==
    /\ known \subseteq Stored(family)
    /\ "level" \in known => s.brightness = l.level
    /\ "colour" \in known =>
          /\ s.color_temp > 0
          /\ l.colour = IF family = "cct" THEN s.color_temp
                        ELSE WithinRange(family, Mired(s.color_temp))

\* A request of the entity.
RequestOK(r) ==
    /\ r \in [action : Actions(family), level : Level, colour : Temperature]
    /\ r.action \in {"level", "both"} =>
          1 <= r.level /\ (family \in Percent => r.level <= 100)
    /\ r.action \in {"colour", "both"} =>
          2700 <= r.colour /\ (family = "fast_move" => r.colour <= 6000)

\* A colour as the lamp applies it.
Applied(p) ==
    WithinRange(family, IF p.order = "full" THEN OwnColour(family, p.colour) ELSE p.colour)

\* A packet says what its request names.
LampPacket ==
    [order : {"property", "light", "value", "full"}, power : {"on", "off", "keep"},
     level : Level, colour : Int]

PacketOK(r, p) ==
    /\ p \in LampPacket
    /\ p.power = "off" <=> r.action = "off"
    /\ p.power = "keep" => r.action = "colour"
    /\ p.order = "full" => r.action = "both"
    /\ p.power # "off" /\ p.level = 0 =>
          \/ family = "dim_color" /\ r.action = "colour"
          \/ family = "legacy" /\ p.order = "light" /\ p.power = "on"
    /\ p.level = Unset /\ r.action = "on" => family # "dim_color"
    /\ "level" \in Named(r) => p.level = r.level
    /\ "colour" \in Named(r) =>
          /\ p.colour \notin {Unset, 0}
          /\ Applied(p) = OwnColour(family, r.colour)

\* What the store knew, and the lamp still has, the packet repeats or leaves alone.
Repeats(l, r, p, knew) ==
    /\ knew \subseteq Stored(family)
    /\ "level" \in knew \ Named(r) =>
          l.level = 0 \/ p.power = "off" \/ p.level \in {Unset, l.level}
    /\ "colour" \in knew \ Named(r) =>
          p.power = "off" \/ p.colour \in {Unset, 0} \/ Applied(p) = l.colour

\* What the delivery of a request may do to the lamp.
Follows(l, m, r, knew) ==
    /\ r.action = "off" => ~m.on
    /\ r.action \in {"on", "level", "both"} => Lit(m)
    /\ "level" \in Named(r) => m.level = r.level
    /\ "colour" \in Named(r) => m.colour = OwnColour(family, r.colour)
    /\ \A x \in knew \ Named(r) : x \in Moved(l, m) => x = "level" /\ l.level = 0

CallOK(l, c) ==
    c.pc # "idle" =>
        RequestOK(c.request) /\ PacketOK(c.request, c.packet)
        /\ Repeats(l, c.request, c.packet, c.knew)

CallType ==
    [pc : {"idle", "sending", "acking", "waiting", "obeyed", "late"},
     request : [action : Actions(family) \cup {"none"}, level : Level, colour : Temperature],
     packet : [order : {"none", "property", "light", "value", "full"},
               power : {"on", "off", "keep"}, level : Level, colour : Int],
     knew : SUBSET Aspect]

\* The inductive invariant: the lamp and the store in their ranges, what the
\* store holds true, and every packet under way as it should be.
LightInv ==
    /\ family \in LightKind
    /\ LampOK(lamp) /\ ShownOK(shown) /\ Agreement(lamp, shown, agreed)
    /\ calls \in [LightTask -> CallType]
    /\ \A t \in LightTask : CallOK(lamp, calls[t])
-----------------------------------------------------------------------------
(* Kelvin and mired *)

\* The ranges, as inequalities.
LEMMA LevelIs == \A x : x \in Level <=> x \in Int /\ -1 <= x /\ x <= 255
BY DEF Level, Unset

LEMMA TemperatureIs == \A x : x \in Temperature <=> x \in Int /\ -1 <= x /\ x <= 6500
<1>1. ASSUME NEW x, x \in Temperature PROVE x \in Int /\ -1 <= x /\ x <= 6500
  BY <1>1, SMT DEF Temperature, Unset
<1>2. ASSUME NEW x \in Int, -1 <= x, x <= 6500 PROVE x \in Temperature
  BY <1>2, SMT DEF Temperature, Unset
<1> QED BY <1>1, <1>2

\* What the conversion of a positive number gives, without the division.
LEMMA MiredIs ==
    ASSUME NEW b \in Nat \ {0}
    PROVE  /\ Mired(b) = 1000000 \div b /\ Mired(b) \in Nat
           /\ b * Mired(b) <= 1000000 /\ 1000000 < b * Mired(b) + b
BY SMT DEF Mired

\* Its type alone.
LEMMA MiredNat == \A b \in Nat \ {0} : Mired(b) \in Nat
BY MiredIs, SMT

\* No other number has these bounds.
LEMMA MiredUnique ==
    ASSUME NEW b \in Nat \ {0}, NEW q \in Nat, b * q <= 1000000, 1000000 < b * q + b
    PROVE  Mired(b) = q
BY SMT DEF Mired

\* The ends of the ranges, in the other unit.
LEMMA MiredEnds ==
    /\ Mired(2700) = 370 /\ Mired(6500) = 153 /\ Mired(6000) = 166
    /\ Mired(370) = 2702 /\ Mired(167) = 5988
BY SMT DEF Mired

\* The greater the number the smaller its conversion.
LEMMA Antitone ==
    \A a, b \in Nat \ {0} : a <= b => Mired(b) <= Mired(a)
<1> SUFFICES ASSUME NEW a \in Nat \ {0}, NEW b \in Nat \ {0}, a <= b, Mired(a) < Mired(b)
             PROVE  FALSE
  BY MiredIs, SMT
<1> DEFINE p == Mired(a)
           q == Mired(b)
<1>1. /\ p \in Nat /\ 1000000 < a * p + a
      /\ q \in Nat /\ b * q <= 1000000 /\ p < q
  BY MiredIs, SMT
<1> HIDE DEF p, q
<1>2. a * q <= b * q
  BY <1>1, SMT
<1>3. a * (p + 1) <= a * q
  BY <1>1, SMT
<1>4. a * (p + 1) = a * p + a
  BY <1>1, SMT
<1> QED BY <1>1, <1>2, <1>3, <1>4, SMT

\* What a stored or picked temperature becomes in mired.
LEMMA MiredRange ==
    ASSUME NEW k \in Nat \ {0}, k <= 6500
    PROVE  /\ Mired(k) \in Nat /\ Mired(k) >= 153
           /\ k >= 2700 => Mired(k) <= 370
           /\ k <= 6000 => Mired(k) >= 166
<1>1. k \in Nat \ {0} /\ k <= 6500
  OBVIOUS
<1>2. 2700 \in Nat \ {0} /\ 6000 \in Nat \ {0} /\ 6500 \in Nat \ {0}
  BY SMT
<1>3. Mired(k) \in Nat
  BY <1>1, MiredNat
<1>4. Mired(6500) <= Mired(k)
  BY <1>1, <1>2, Antitone
<1>5. k >= 2700 => Mired(k) <= Mired(2700)
  BY <1>1, <1>2, Antitone
<1>6. k <= 6000 => Mired(6000) <= Mired(k)
  BY <1>1, <1>2, Antitone
<1> QED BY <1>3, <1>4, <1>5, <1>6, MiredEnds

\* A colour in mired comes back from Kelvin unchanged.
LEMMA MiredBack ==
    ASSUME NEW m \in 153..370
    PROVE  /\ Mired(m) \in Nat /\ Mired(m) >= 2702
           /\ Mired(Mired(m)) = m
<1> DEFINE k == Mired(m)
<1>1. m \in Nat \ {0} /\ 370 \in Nat \ {0} /\ m <= 370
  BY SMT
<1>2. k \in Nat /\ m * k <= 1000000 /\ 1000000 < m * k + m
  BY <1>1, MiredIs, SMT
<1>3. k >= 2702
  BY <1>1, Antitone, MiredEnds, SMT
<1> HIDE DEF k
<1>4. k * m = m * k
  BY <1>2, SMT
<1>5. Mired(k) = m
  BY <1>1, <1>2, <1>3, <1>4, MiredUnique, SMT
<1> QED BY <1>2, <1>3, <1>5 DEF k

\* The ranges of the families.
LEMMA OwnRanges ==
    /\ family = "cct" =>
          /\ OwnColours(family) = 2700..6500
          /\ \A x : WithinRange(family, x) = Clamp(x, 2700, 6500)
          /\ \A x : ReadColour(family, x) = Clamp(x, 2000, 6500)
          /\ \A x : OwnColour(family, x) = x
    /\ family # "cct" => \A x : OwnColour(family, x) = Mired(x)
    /\ family = "fast_move" =>
          /\ OwnColours(family) = 166..370
          /\ \A x : WithinRange(family, x) = Clamp(x, 166, 370)
          /\ \A x : ReadColour(family, x) = Clamp(Mired(x), 2700, 6000)
    /\ family \notin {"cct", "fast_move"} =>
          /\ OwnColours(family) = 153..370
          /\ \A x : WithinRange(family, x) = Clamp(x, 153, 370)
          /\ \A x : ReadColour(family, x) = Clamp(Mired(x), 2700, 6500)
BY DEF OwnColours, WithinRange, ReadColour, OwnColour

\* What a lamp does with a colour is a colour of its own.
LEMMA RangeOK ==
    ASSUME NEW x \in Int
    PROVE  /\ WithinRange(family, x) \in OwnColours(family)
           /\ x \in OwnColours(family) => WithinRange(family, x) = x
<1>1. CASE family = "cct"
  <2>1. WithinRange(family, x) = Clamp(x, 2700, 6500) /\ OwnColours(family) = 2700..6500
    BY <1>1, OwnRanges
  <2>2. Clamp(x, 2700, 6500) \in 2700..6500 /\ (x \in 2700..6500 => Clamp(x, 2700, 6500) = x)
    BY DEF Clamp, Most, Least
  <2> QED BY <2>1, <2>2
<1>2. CASE family = "fast_move"
  <2>1. WithinRange(family, x) = Clamp(x, 166, 370) /\ OwnColours(family) = 166..370
    BY <1>2, OwnRanges
  <2>2. Clamp(x, 166, 370) \in 166..370 /\ (x \in 166..370 => Clamp(x, 166, 370) = x)
    BY DEF Clamp, Most, Least
  <2> QED BY <2>1, <2>2
<1>3. CASE family \notin {"cct", "fast_move"}
  <2>1. WithinRange(family, x) = Clamp(x, 153, 370) /\ OwnColours(family) = 153..370
    BY <1>3, OwnRanges
  <2>2. Clamp(x, 153, 370) \in 153..370 /\ (x \in 153..370 => Clamp(x, 153, 370) = x)
    BY DEF Clamp, Most, Least
  <2> QED BY <2>1, <2>2
<1> QED BY <1>1, <1>2, <1>3

(***************************************************************************)
(* A colour a lamp reports, parsed into Kelvin and sent again in the       *)
(* lamp's unit, is the same colour, although both conversions round down   *)
(* and the parser clamps to the range its family offers                    *)
(* (normalize_color_temp of light_values.py, control_router.py).           *)
(***************************************************************************)
THEOREM ColourBack ==
    ASSUME NEW x \in OwnColours(family)
    PROVE  /\ ReadColour(family, x) \in 2700..6500
           /\ x = IF family = "cct" THEN ReadColour(family, x)
                  ELSE WithinRange(family, Mired(ReadColour(family, x)))
<1>1. CASE family = "cct"
  <2>1. x \in 2700..6500
    BY <1>1, OwnRanges
  <2>2. Clamp(x, 2000, 6500) = x
    BY <2>1 DEF Clamp, Most, Least
  <2>3. ReadColour(family, x) = x
    BY <1>1, <2>2, OwnRanges
  <2> DEFINE y == ReadColour(family, x)
  <2> HIDE DEF y
  <2>4. y = x
    BY <2>3 DEF y
  <2>5. y \in 2700..6500 /\ x = IF family = "cct" THEN y ELSE WithinRange(family, Mired(y))
    BY <1>1, <2>1, <2>4
  <2> QED BY <2>5 DEF y
<1>2. ASSUME family # "cct", NEW top \in {6000, 6500}, x \in 153..370,
             ReadColour(family, x) = Clamp(Mired(x), 2700, top), Mired(top) <= x
      PROVE  ReadColour(family, x) \in 2700..6500 /\ Mired(ReadColour(family, x)) = x
  <2>1. Mired(x) \in Nat /\ Mired(x) >= 2702 /\ Mired(Mired(x)) = x
    BY <1>2, MiredBack
  <2>2. top \in Nat \ {0} /\ Mired(x) \in Nat \ {0} /\ Mired(top) \in Nat
    BY <2>1, MiredNat
  <2>3. CASE Mired(x) <= top
    <3>1. ReadColour(family, x) = Mired(x)
      BY <1>2, <2>1, <2>3 DEF Clamp, Most, Least
    <3> QED BY <2>1, <2>3, <3>1, SMTT(30)
  <2>4. CASE Mired(x) > top
    <3>1. ReadColour(family, x) = top
      BY <1>2, <2>1, <2>4 DEF Clamp, Most, Least
    <3>2. x <= Mired(top)
      BY <2>1, <2>2, <2>4, Antitone
    <3> QED BY <1>2, <2>2, <3>1, <3>2
  <2> QED BY <2>1, <2>2, <2>3, <2>4
<1>3. CASE family = "fast_move"
  <2>1. x \in 166..370 /\ ReadColour(family, x) = Clamp(Mired(x), 2700, 6000)
    BY <1>3, OwnRanges
  <2>2. ReadColour(family, x) \in 2700..6500 /\ Mired(ReadColour(family, x)) = x
    BY <1>2, <1>3, <2>1, MiredEnds
  <2> QED BY <1>3, <2>1, <2>2, RangeOK
<1>4. CASE family \notin {"cct", "fast_move"}
  <2>1. x \in 153..370 /\ ReadColour(family, x) = Clamp(Mired(x), 2700, 6500)
    BY <1>4, OwnRanges
  <2>2. ReadColour(family, x) \in 2700..6500 /\ Mired(ReadColour(family, x)) = x
    BY <1>2, <1>4, <2>1, MiredEnds
  <2> QED BY <1>4, <2>1, <2>2, RangeOK
<1> QED BY <1>1, <1>3, <1>4

\* A temperature the user picks, as the lamp holds it.
LEMMA PickedColour ==
    ASSUME NEW k \in Nat, 2700 <= k, k <= 6500, family = "fast_move" => k <= 6000
    PROVE  /\ OwnColour(family, k) \in OwnColours(family) /\ OwnColour(family, k) \in Nat \ {0}
           /\ WithinRange(family, OwnColour(family, k)) = OwnColour(family, k)
<1>1. OwnColour(family, k) \in OwnColours(family) /\ OwnColour(family, k) \in Nat \ {0}
  <2>1. CASE family = "cct"
    <3>1. OwnColour(family, k) = k /\ OwnColours(family) = 2700..6500
      BY <2>1, OwnRanges
    <3> QED BY <3>1
  <2>2. CASE family # "cct"
    <3>1. Mired(k) \in 153..370 /\ (family = "fast_move" => Mired(k) >= 166)
      <4>1. k \in Nat \ {0} /\ k <= 6500 /\ k >= 2700
        OBVIOUS
      <4>2. Mired(k) \in Nat /\ Mired(k) >= 153 /\ Mired(k) <= 370 /\ (k <= 6000 => Mired(k) >= 166)
        BY <4>1, MiredRange
      <4> QED BY <4>2
    <3>2. OwnColour(family, k) = Mired(k)
      BY <2>2, OwnRanges
    <3> QED BY <2>2, <3>1, <3>2, OwnRanges
  <2> QED BY <2>1, <2>2
<1> QED BY <1>1, RangeOK

\* What the wall control may give the lamp.
LEMMA DialOK ==
    ASSUME NEW l \in [on : BOOLEAN, level : LampLevels(family), colour : LampColours(family)]
    PROVE  LampOK(l)
<1>1. l.level \in LampLevels(family) /\ l.colour \in LampColours(family)
  OBVIOUS
<1>2. LampLevel \subseteq 1..100 /\ LampMired \subseteq 167..370
  BY LightAssumption
<1>3. l.level \in 1..255
  <2>1. CASE family \in Percent
    <3>1. LampLevels(family) = LampLevel
      BY <2>1 DEF LampLevels
    <3>2. \A x \in LampLevel : x \in 1..255
      BY <1>2
    <3> QED BY <1>1, <3>1, <3>2
  <2>2. CASE family \notin Percent
    <3>1. PICK x \in LampLevel : l.level = (x * 255) \div 100
      BY <1>1, <2>2 DEF LampLevels
    <3>2. x \in 1..100
      BY <1>2
    <3> QED BY <3>1, <3>2
  <2> QED BY <2>1, <2>2
<1>4. l.colour \in OwnColours(family)
  <2>1. CASE family = "cct"
    <3>1. PICK m \in LampMired : l.colour = Mired(m)
      BY <1>1, <2>1 DEF LampColours
    <3>2. m \in Nat \ {0} /\ 167 <= m /\ m <= 370 /\ 167 \in Nat \ {0} /\ 370 \in Nat \ {0}
      BY <1>2
    <3>3. Mired(m) \in Nat /\ Mired(370) <= Mired(m) /\ Mired(m) <= Mired(167)
      BY <3>2, MiredNat, Antitone
    <3> QED BY <2>1, <3>1, <3>3, MiredEnds, OwnRanges, SMTT(30)
  <2>2. CASE family # "cct"
    <3>1. LampColours(family) = LampMired
      BY <2>2 DEF LampColours
    <3>2. l.colour \in LampMired
      BY <1>1, <3>1
    <3>3. \A c \in LampMired : c \in Int /\ 167 <= c /\ c <= 370
      BY LightAssumption
    <3>4. l.colour \in Int /\ 167 <= l.colour /\ l.colour <= 370
      BY <3>2, <3>3
    <3> QED BY <2>2, <3>4, OwnRanges
  <2> QED BY <2>1, <2>2
<1>5. l.on \in BOOLEAN /\ l = [on |-> l.on, level |-> l.level, colour |-> l.colour]
  OBVIOUS
<1>6. l.level \in Level /\ 0 <= l.level /\ l.level # 0
  BY <1>3, LevelIs
<1> QED BY <1>4, <1>5, <1>6 DEF LampOK

-----------------------------------------------------------------------------
(* The packets the router makes *)

\* The seven families, one by one.
LEMMA LampFamilies ==
    ASSUME family \in LightKind
    PROVE  family \in {"legacy", "mono", "dimmable", "zigbee", "dim_color", "fast_move", "cct"}
BY LightAssumption DEF Power, Dimming, Tunable

\* What a request names.
LEMMA NamedIs ==
    ASSUME NEW r
    PROVE  /\ r.action \in {"on", "off"} => Named(r) = {}
           /\ r.action = "level" => Named(r) = {"level"}
           /\ r.action = "colour" => Named(r) = {"colour"}
           /\ r.action = "both" /\ family = "cct" => Named(r) = {"level"}
           /\ r.action = "both" /\ family # "cct" => Named(r) = Aspect
<1>1. ASSUME r.action \in {"on", "off"} PROVE Named(r) = {}
  <2>1. /\ ~(r.action = "level" \/ Splits(family, r)) /\ r.action # "colour"
        /\ r.action # "both"
    BY <1>1 DEF Splits
  <2> QED BY <2>1 DEF Named
<1>2. ASSUME r.action = "level" PROVE Named(r) = {"level"}
  BY <1>2 DEF Named
<1>3. ASSUME r.action = "colour" PROVE Named(r) = {"colour"}
  <2>1. ~(r.action = "level" \/ Splits(family, r))
    BY <1>3 DEF Splits
  <2> QED BY <1>3, <2>1 DEF Named
<1>4. ASSUME r.action = "both", family = "cct" PROVE Named(r) = {"level"}
  <2>1. Splits(family, r) /\ r.action # "colour"
    BY <1>4 DEF Splits
  <2> QED BY <1>4, <2>1 DEF Named
<1>5. ASSUME r.action = "both", family # "cct" PROVE Named(r) = Aspect
  <2>1. ~(r.action = "level" \/ Splits(family, r)) /\ r.action # "colour"
    BY <1>5 DEF Splits
  <2> QED BY <1>5, <2>1 DEF Named
<1> QED BY <1>1, <1>2, <1>3, <1>4, <1>5

\* What a request may hold, by its action.
LEMMA Asked ==
    ASSUME NEW r, RequestOK(r), family \in LightKind
    PROVE  /\ r.action \in {"on", "off", "level", "colour", "both"}
           /\ r.action \in {"level", "both"} =>
                 /\ family \in {"dimmable", "zigbee", "dim_color", "fast_move", "cct"}
                 /\ r.level \in Int /\ 1 <= r.level /\ r.level <= 255
                 /\ family \in {"dimmable", "cct"} => r.level <= 100
           /\ r.action \in {"colour", "both"} =>
                 /\ family \in {"dim_color", "fast_move", "cct"}
                 /\ r.colour \in Nat /\ 2700 <= r.colour /\ r.colour <= 6500
                 /\ family = "fast_move" => r.colour <= 6000
<1>1. r.action \in Actions(family) /\ r.level \in Level /\ r.colour \in Temperature
  BY DEF RequestOK
<1>2. /\ r.action \in {"on", "off", "level", "colour", "both"}
      /\ r.action \in {"level", "both"} =>
            family \in {"dimmable", "zigbee", "dim_color", "fast_move", "cct"}
      /\ r.action \in {"colour", "both"} => family \in {"dim_color", "fast_move", "cct"}
  BY <1>1, LampFamilies DEF Actions, Power, Tunable
<1>3. r.level \in Int /\ r.level <= 255 /\ r.colour \in Int /\ r.colour <= 6500
  BY <1>1, LevelIs, TemperatureIs
<1>4. r.action \in {"level", "both"} =>
         1 <= r.level /\ (family \in {"dimmable", "cct"} => r.level <= 100)
  BY DEF RequestOK, Percent
<1>5. r.action \in {"colour", "both"} =>
         2700 <= r.colour /\ (family = "fast_move" => r.colour <= 6000)
  BY DEF RequestOK
<1>6. 2700 <= r.colour => r.colour \in Nat
  BY <1>3
<1> QED BY <1>2, <1>3, <1>4, <1>5, <1>6

\* The fields of a packet.
LEMMA PacketMade ==
    ASSUME NEW o \in {"property", "light", "value", "full"}, NEW w \in {"on", "off", "keep"},
           NEW v \in Level, NEW c \in Int,
           NEW p, p = [order |-> o, power |-> w, level |-> v, colour |-> c]
    PROVE  p \in LampPacket /\ p.order = o /\ p.power = w /\ p.level = v /\ p.colour = c
BY DEF LampPacket

\* The level filled in from the store: in range, and as the lamp has it if the
\* store holds it true.
LEMMA FilledLevel ==
    ASSUME NEW l, LampOK(l), NEW s, ShownOK(s), NEW known, Agreement(l, s, known),
           NEW d \in {0, 255}
    PROVE  /\ OrDefault(s.brightness, d) \in Level /\ OrDefault(s.brightness, d) \in Int
           /\ 0 <= OrDefault(s.brightness, d) /\ OrDefault(s.brightness, d) <= 255
           /\ d # 0 => OrDefault(s.brightness, d) # 0
           /\ "level" \in known => l.level = 0 \/ OrDefault(s.brightness, d) = l.level
<1> DEFINE v == OrDefault(s.brightness, d)
<1>1. s.brightness \in Level /\ l.level \in Level /\ 0 <= l.level
  BY DEF ShownOK, LampOK
<1>2. /\ s.brightness \in Int /\ -1 <= s.brightness /\ s.brightness <= 255
      /\ l.level \in Int
  BY <1>1, LevelIs
<1>3. v = IF s.brightness = -1 \/ s.brightness = 0 THEN d ELSE s.brightness
  BY DEF OrDefault, Unset
<1>4. "level" \in known => s.brightness = l.level
  BY DEF Agreement
<1> HIDE DEF v
<1>5. v \in Int /\ 0 <= v /\ v <= 255 /\ (d # 0 => v # 0)
  BY <1>2, <1>3
<1>6. v \in Level
  BY <1>5, LevelIs
<1>7. "level" \in known => l.level = 0 \/ v = l.level
  BY <1>1, <1>2, <1>3, <1>4
<1> QED BY <1>5, <1>6, <1>7 DEF v

\* The colour filled in from the store, likewise.
LEMMA FilledColour ==
    ASSUME NEW l, NEW s, ShownOK(s), NEW known, Agreement(l, s, known)
    PROVE  /\ Mired(OrDefault(s.color_temp, 2700)) \in Int
           /\ Mired(OrDefault(s.color_temp, 2700)) # 0
           /\ "colour" \in known /\ family # "cct" =>
                 WithinRange(family, Mired(OrDefault(s.color_temp, 2700))) = l.colour
<1> DEFINE k == OrDefault(s.color_temp, 2700)
<1>1. s.color_temp \in Temperature
  BY DEF ShownOK
<1>2. s.color_temp \in Int /\ -1 <= s.color_temp /\ s.color_temp <= 6500
  BY <1>1, TemperatureIs
<1>3. k = IF s.color_temp = -1 \/ s.color_temp = 0 THEN 2700 ELSE s.color_temp
  BY DEF OrDefault, Unset
<1>4. "colour" \in known =>
         /\ s.color_temp > 0
         /\ family # "cct" => WithinRange(family, Mired(s.color_temp)) = l.colour
  BY DEF Agreement
<1> HIDE DEF k
<1>5. k \in Nat \ {0} /\ k <= 6500
  BY <1>2, <1>3
<1>6. "colour" \in known => k = s.color_temp
  BY <1>2, <1>3, <1>4
<1>7. Mired(k) \in Nat /\ Mired(k) >= 153
  BY <1>5, MiredRange
<1>8. Mired(k) \in Int /\ Mired(k) # 0
  BY <1>7
<1> QED BY <1>4, <1>6, <1>8 DEF k

\* A packet that names nothing: off, or on with what the store knew.
LEMMA NamesNothing ==
    ASSUME NEW r, r.action \in {"on", "off"}, NEW p \in LampPacket, p.order # "full",
           p.power = r.action,
           p.power = "on" /\ p.level = 0 => family = "legacy" /\ p.order = "light",
           p.power = "on" /\ p.level = Unset => family # "dim_color"
    PROVE  PacketOK(r, p)
<1>1. Named(r) = {}
  BY NamedIs
<1>2. p.power # "keep"
  OBVIOUS
<1> QED BY <1>1, <1>2 DEF PacketOK

\* Off.
LEMMA OffRoute ==
    ASSUME family \in LightKind, NEW l, LampOK(l), NEW s, ShownOK(s),
           NEW known, Agreement(l, s, known), NEW r, RequestOK(r), r.action = "off"
    PROVE  PacketOK(r, Route(family, r, s)) /\ Repeats(l, r, Route(family, r, s), known)
<1> DEFINE p == Route(family, r, s)
           lv == OrDefault(s.brightness, 0)
           m == Mired(OrDefault(s.color_temp, 2700))
<1>1. p = PowerPacket(family, FALSE, s)
  BY DEF Route, Splits
<1>2. lv \in Level /\ lv \in Int /\ 0 <= lv /\ lv <= 255
  <2>1. /\ lv \in Level /\ lv \in Int /\ 0 <= lv /\ lv <= 255 /\ (0 # 0 => lv # 0)
        /\ "level" \in known => l.level = 0 \/ lv = l.level
    BY FilledLevel
  <2> QED BY <2>1
<1>3. /\ m \in Int /\ m # 0
      /\ "colour" \in known /\ family # "cct" => WithinRange(family, m) = l.colour
  BY FilledColour
<1>4. 0 \in Level /\ Unset \in Level /\ 0 \in Int /\ Unset \in Int
  BY LevelIs DEF Unset
<1>5. p \in LampPacket /\ p.order # "full" /\ p.power = "off"
  <2>1. CASE family \in PropertyBased
    <3>1. p = [order |-> "property", power |-> "off", level |-> Unset, colour |-> Unset]
      BY <1>1, <2>1 DEF PowerPacket, OnOffProperty, Packet, PropertyBased, Switched
    <3> HIDE DEF p
    <3> QED BY <1>4, <3>1, PacketMade
  <2>2. CASE family = "zigbee"
    <3>1. Clamp(lv, 0, 255) = lv
      BY <1>2 DEF Clamp, Most, Least
    <3>2. p = [order |-> "value", power |-> "off", level |-> lv, colour |-> 0]
      BY <1>1, <2>2, <3>1 DEF PowerPacket, ZigbeeOnOff, Packet, PropertyBased, Switched
    <3> HIDE DEF p, lv
    <3> QED BY <1>2, <1>4, <3>2, PacketMade
  <2>3. CASE family = "fast_move"
    <3>1. p = [order |-> "value", power |-> "off", level |-> lv, colour |-> m]
      BY <1>1, <2>3 DEF PowerPacket, FastMoveOnOff, Packet, PropertyBased, Switched
    <3> HIDE DEF p, lv, m
    <3> QED BY <1>2, <1>3, <3>1, PacketMade
  <2>4. CASE family \in {"legacy", "dim_color"}
    <3>1. p = [order |-> "light", power |-> "off", level |-> 0, colour |-> 0]
      BY <1>1, <2>4 DEF PowerPacket, LightPacket, Packet, PropertyBased, Switched
    <3> HIDE DEF p
    <3> QED BY <1>4, <3>1, PacketMade
  <2> QED BY <2>1, <2>2, <2>3, <2>4, LampFamilies DEF PropertyBased
<1> HIDE DEF p
<1>6. PacketOK(r, p)
  BY <1>5, NamesNothing
<1>7. Repeats(l, r, p, known)
  BY <1>5 DEF Repeats, Agreement
<1> QED BY <1>6, <1>7 DEF p

\* On: families by the packet they get.
LEMMA OnRoute ==
    ASSUME family \in LightKind, NEW l, LampOK(l), NEW s, ShownOK(s),
           NEW known, Agreement(l, s, known), NEW r, RequestOK(r), r.action = "on"
    PROVE  PacketOK(r, Route(family, r, s)) /\ Repeats(l, r, Route(family, r, s), known)
<1> DEFINE p == Route(family, r, s)
           lv == OrDefault(s.brightness, 255)
           m == Mired(OrDefault(s.color_temp, 2700))
<1>1. p = PowerPacket(family, TRUE, s)
  BY DEF Route, Splits
<1>2. /\ lv \in Level /\ lv \in Int /\ 0 <= lv /\ lv <= 255 /\ lv # 0
      /\ "level" \in known => l.level = 0 \/ lv = l.level
  BY FilledLevel
<1>3. m \in Int /\ ("colour" \in known /\ family # "cct" => WithinRange(family, m) = l.colour)
  BY FilledColour
<1>4. 0 \in Level /\ Unset \in Level /\ 0 \in Int /\ Unset \in Int /\ 0 # Unset
  BY LevelIs DEF Unset
<1>5. known \subseteq Stored(family)
  BY DEF Agreement
<1>6. CASE family \in PropertyBased
  <2>1. p = [order |-> "property", power |-> "on", level |-> Unset, colour |-> Unset]
    BY <1>1, <1>6 DEF PowerPacket, OnOffProperty, Packet, PropertyBased, Switched
  <2>2. family # "dim_color"
    BY <1>6 DEF PropertyBased
  <2> HIDE DEF p
  <2>3. /\ p \in LampPacket /\ p.order = "property" /\ p.power = "on"
        /\ p.level = Unset /\ p.colour = Unset
    BY <1>4, <2>1, PacketMade
  <2>4. PacketOK(r, p)
    BY <1>4, <2>2, <2>3, NamesNothing
  <2>5. Repeats(l, r, p, known)
    BY <1>5, <2>3 DEF Repeats
  <2> QED BY <2>4, <2>5 DEF p
<1>7. CASE family = "legacy"
  <2>1. p = [order |-> "light", power |-> "on", level |-> 0, colour |-> 0]
    BY <1>1, <1>7 DEF PowerPacket, LightPacket, Packet, PropertyBased, Switched
  <2>2. known = {}
    BY <1>5, <1>7 DEF Stored, Power, Tunable
  <2> HIDE DEF p
  <2>3. /\ p \in LampPacket /\ p.order = "light" /\ p.power = "on"
        /\ p.level = 0 /\ p.colour = 0
    BY <1>4, <2>1, PacketMade
  <2>4. PacketOK(r, p)
    BY <1>4, <1>7, <2>3, NamesNothing
  <2>5. Repeats(l, r, p, known)
    BY <2>2 DEF Repeats
  <2> QED BY <2>4, <2>5 DEF p
<1>8. ASSUME NEW c \in Int, c = 0 \/ (c = m /\ family # "cct"),
             p \in LampPacket, p.order = "value", p.power = "on", p.level = lv, p.colour = c
      PROVE  PacketOK(r, p) /\ Repeats(l, r, p, known)
  <2> HIDE DEF p, lv, m
  <2>1. /\ p \in LampPacket /\ p.order = "value" /\ p.power = "on"
        /\ p.level = lv /\ p.colour = c
    BY <1>8
  <2>2. Applied(p) = WithinRange(family, c)
    BY <2>1 DEF Applied
  <2>3. lv # Unset
    BY <1>2 DEF Unset
  <2>4. PacketOK(r, p)
    BY <1>2, <2>1, <2>3, NamesNothing
  <2>5. "level" \in known => l.level = 0 \/ p.level = l.level
    BY <1>2, <2>1
  <2>6. "colour" \in known => p.colour = 0 \/ Applied(p) = l.colour
    BY <1>3, <1>8, <2>1, <2>2
  <2> QED BY <1>5, <2>4, <2>5, <2>6 DEF Repeats
<1>9. CASE family = "zigbee"
  <2>1. Clamp(lv, 0, 255) = lv
    BY <1>2 DEF Clamp, Most, Least
  <2>2. p = [order |-> "value", power |-> "on", level |-> lv, colour |-> 0]
    BY <1>1, <1>9, <2>1 DEF PowerPacket, ZigbeeOnOff, Packet, PropertyBased, Switched
  <2> HIDE DEF p, lv
  <2>3. /\ p \in LampPacket /\ p.order = "value" /\ p.power = "on"
        /\ p.level = lv /\ p.colour = 0
    BY <1>2, <1>3, <1>4, <2>2, PacketMade
  <2> QED BY <1>3, <1>4, <1>8, <1>9, <2>3 DEF p
<1>10. CASE family = "dim_color"
  <2>1. Least(lv, 255) = lv
    BY <1>2 DEF Least
  <2>2. p = [order |-> "value", power |-> "on", level |-> lv, colour |-> m]
    BY <1>1, <1>10, <2>1 DEF PowerPacket, LightColourPacket, Packet, PropertyBased
  <2> HIDE DEF p, lv, m
  <2>3. /\ p \in LampPacket /\ p.order = "value" /\ p.power = "on"
        /\ p.level = lv /\ p.colour = m
    BY <1>2, <1>3, <1>4, <2>2, PacketMade
  <2> QED BY <1>3, <1>4, <1>8, <1>10, <2>3 DEF p
<1>11. CASE family = "fast_move"
  <2>1. p = [order |-> "value", power |-> "on", level |-> lv, colour |-> m]
    BY <1>1, <1>11 DEF PowerPacket, FastMoveOnOff, Packet, PropertyBased, Switched
  <2> HIDE DEF p, lv, m
  <2>2. /\ p \in LampPacket /\ p.order = "value" /\ p.power = "on"
        /\ p.level = lv /\ p.colour = m
    BY <1>2, <1>3, <1>4, <2>1, PacketMade
  <2> QED BY <1>3, <1>4, <1>8, <1>11, <2>2 DEF p
<1> QED BY <1>6, <1>7, <1>9, <1>10, <1>11, LampFamilies DEF PropertyBased

\* The brightness, alone or as the first half of a combined command.
LEMMA LevelRoute ==
    ASSUME family \in LightKind, NEW l, LampOK(l), NEW s, ShownOK(s),
           NEW known, Agreement(l, s, known), NEW r, RequestOK(r),
           r.action = "level" \/ Splits(family, r)
    PROVE  PacketOK(r, Route(family, r, s)) /\ Repeats(l, r, Route(family, r, s), known)
<1> DEFINE p == Route(family, r, s)
           m == Mired(OrDefault(s.color_temp, 2700))
<1>1. /\ Named(r) = {"level"} /\ known \subseteq Stored(family)
      /\ r.action \in {"level", "both"} /\ r.action # "off" /\ r.action # "on"
      /\ r.action # "colour"
  BY NamedIs DEF Agreement, Splits
<1>2. p = BrightnessPacket(family, r.level, s)
  BY <1>1 DEF Route, Splits
<1>3. /\ m \in Int /\ m # 0
      /\ "colour" \in known /\ family # "cct" => WithinRange(family, m) = l.colour
  <2>1. m \in Int /\ m # 0
    BY FilledColour
  <2>2. "colour" \in known /\ family # "cct" => WithinRange(family, m) = l.colour
    BY FilledColour
  <2> QED BY <2>1, <2>2
<1>4. /\ family \in {"dimmable", "zigbee", "dim_color", "fast_move", "cct"}
      /\ r.level \in Int /\ 1 <= r.level /\ r.level <= 255
      /\ family \in {"dimmable", "cct"} => r.level <= 100
  BY <1>1, Asked
<1>5. r.level \in Level /\ r.level # 0 /\ 0 \in Int /\ Unset \in Int
  BY <1>4, LevelIs DEF Unset
<1>6. ASSUME NEW c \in Int, c \in {0, Unset} \/ (c = m /\ family # "cct"),
             p \in LampPacket, p.order # "full", p.power = "on", p.level = r.level, p.colour = c
      PROVE  PacketOK(r, p) /\ Repeats(l, r, p, known)
  <2> HIDE DEF p, m
  <2>1. Applied(p) = WithinRange(family, c)
    BY <1>6 DEF Applied
  <2>2. r.level # Unset
    BY <1>4 DEF Unset
  <2>3. PacketOK(r, p)
    BY <1>1, <1>5, <1>6, <2>2 DEF PacketOK
  <2>4. "colour" \in known => p.colour \in {0, Unset} \/ Applied(p) = l.colour
    BY <1>3, <1>6, <2>1
  <2> QED BY <1>1, <2>3, <2>4 DEF Repeats
<1>7. CASE family \in {"dimmable", "cct"}
  <2>1. Clamp(r.level, 0, 100) = r.level
    BY <1>4, <1>7 DEF Clamp, Most, Least
  <2>2. p = [order |-> "property", power |-> "on", level |-> r.level, colour |-> Unset]
    BY <1>2, <1>7, <2>1 DEF BrightnessPacket, LevelProperty, Packet, PropertyBased
  <2> HIDE DEF p
  <2>3. /\ p \in LampPacket /\ p.order = "property" /\ p.power = "on"
        /\ p.level = r.level /\ p.colour = Unset
    BY <1>5, <2>2, PacketMade
  <2> QED BY <1>5, <1>6, <2>3 DEF p
<1>8. CASE family = "zigbee"
  <2>1. Clamp(r.level, 1, 255) = r.level
    BY <1>4 DEF Clamp, Most, Least
  <2>2. p = [order |-> "value", power |-> "on", level |-> r.level, colour |-> 0]
    BY <1>2, <1>8, <2>1 DEF BrightnessPacket, ZigbeeLevel, Packet, PropertyBased
  <2> HIDE DEF p
  <2>3. /\ p \in LampPacket /\ p.order = "value" /\ p.power = "on"
        /\ p.level = r.level /\ p.colour = 0
    BY <1>5, <2>2, PacketMade
  <2> QED BY <1>5, <1>6, <2>3 DEF p
<1>9. CASE family = "dim_color"
  <2>1. Least(r.level, 255) = r.level
    BY <1>4 DEF Least
  <2>2. p = [order |-> "value", power |-> "on", level |-> r.level, colour |-> m]
    BY <1>2, <1>9, <2>1 DEF BrightnessPacket, LightColourPacket, Packet, PropertyBased
  <2> HIDE DEF p, m
  <2>3. /\ p \in LampPacket /\ p.order = "value" /\ p.power = "on"
        /\ p.level = r.level /\ p.colour = m
    BY <1>3, <1>5, <2>2, PacketMade
  <2> QED BY <1>3, <1>6, <1>9, <2>3 DEF p
<1>10. CASE family = "fast_move"
  <2>1. Clamp(r.level, 1, 255) = r.level /\ Clamp(r.level, 0, 255) = r.level
    BY <1>4 DEF Clamp, Most, Least
  <2>2. p = [order |-> "value", power |-> "on", level |-> r.level, colour |-> m]
    BY <1>2, <1>10, <2>1 DEF BrightnessPacket, FastMoveTo, Packet, PropertyBased
  <2> HIDE DEF p, m
  <2>3. /\ p \in LampPacket /\ p.order = "value" /\ p.power = "on"
        /\ p.level = r.level /\ p.colour = m
    BY <1>3, <1>5, <2>2, PacketMade
  <2> QED BY <1>3, <1>6, <1>10, <2>3 DEF p
<1> QED BY <1>4, <1>7, <1>8, <1>9, <1>10

\* The colour temperature alone.
LEMMA ColourRoute ==
    ASSUME family \in LightKind, NEW l, LampOK(l), NEW s, ShownOK(s),
           NEW known, Agreement(l, s, known), NEW r, RequestOK(r), r.action = "colour"
    PROVE  PacketOK(r, Route(family, r, s)) /\ Repeats(l, r, Route(family, r, s), known)
<1> DEFINE p == Route(family, r, s)
           m == OwnColour(family, r.colour)
<1>1. Named(r) = {"colour"} /\ known \subseteq Stored(family)
  BY NamedIs DEF Agreement
<1>2. p = ColourPacket(family, r.colour, s)
  BY DEF Route, Splits
<1>3. /\ family \in {"dim_color", "fast_move", "cct"}
      /\ r.colour \in Nat /\ 2700 <= r.colour /\ r.colour <= 6500
      /\ family = "fast_move" => r.colour <= 6000
  BY Asked
<1>4. m \in Nat \ {0} /\ WithinRange(family, m) = m
  BY <1>3, PickedColour
<1>5. m \in Int /\ m # 0 /\ m # Unset
  BY <1>4 DEF Unset
<1>6. ASSUME NEW v \in Level, NEW w \in {"on", "keep"},
             v = 0 => family = "dim_color",
             "level" \in known => l.level = 0 \/ v \in {Unset, l.level},
             p \in LampPacket, p.order # "full", p.power = w, p.level = v, p.colour = m
      PROVE  PacketOK(r, p) /\ Repeats(l, r, p, known)
  <2> HIDE DEF p, m
  <2>1. Applied(p) = m
    BY <1>4, <1>6 DEF Applied
  <2>2. PacketOK(r, p)
    BY <1>1, <1>5, <1>6, <2>1 DEF PacketOK, m
  <2> QED BY <1>1, <1>6, <2>2 DEF Repeats
<1>7. CASE family = "cct"
  <2>1. Clamp(r.colour, 2700, 6500) = r.colour
    BY <1>3 DEF Clamp, Most, Least
  <2>2. m = r.colour
    BY <1>7 DEF OwnColour
  <2>3. p = [order |-> "property", power |-> "keep", level |-> Unset, colour |-> r.colour]
    BY <1>2, <1>7, <2>1 DEF ColourPacket, ColourProperty, Packet, PropertyBased
  <2>4. Unset \in Level /\ Unset # 0
    BY LevelIs DEF Unset
  <2> HIDE DEF p, m
  <2>5. /\ p \in LampPacket /\ p.order = "property" /\ p.power = "keep"
        /\ p.level = Unset /\ p.colour = m
    BY <1>5, <2>2, <2>3, <2>4, PacketMade
  <2> QED BY <1>6, <2>4, <2>5 DEF p
<1>8. CASE family = "fast_move"
  <2> DEFINE lv == OrDefault(s.brightness, 255)
  <2>1. /\ lv \in Level /\ lv \in Int /\ 0 <= lv /\ lv <= 255 /\ (255 # 0 => lv # 0)
        /\ "level" \in known => l.level = 0 \/ lv = l.level
    BY FilledLevel
  <2>2. Clamp(lv, 0, 255) = lv /\ lv # 0
    BY <2>1 DEF Clamp, Most, Least
  <2>3. p = [order |-> "value", power |-> "on", level |-> lv, colour |-> m]
    BY <1>2, <1>8, <2>2 DEF ColourPacket, FastMoveTo, Packet, PropertyBased, OwnColour
  <2> HIDE DEF p, m, lv
  <2>4. /\ p \in LampPacket /\ p.order = "value" /\ p.power = "on"
        /\ p.level = lv /\ p.colour = m
    BY <1>5, <2>1, <2>3, PacketMade
  <2> QED BY <1>6, <2>1, <2>2, <2>4 DEF p
<1>9. CASE family = "dim_color"
  <2> DEFINE lv == OrDefault(s.brightness, 0)
  <2>1. /\ lv \in Level /\ lv \in Int /\ 0 <= lv /\ lv <= 255 /\ (0 # 0 => lv # 0)
        /\ "level" \in known => l.level = 0 \/ lv = l.level
    BY FilledLevel
  <2>2. Least(lv, 255) = lv
    BY <2>1 DEF Least
  <2>3. p = [order |-> "value", power |-> "on", level |-> lv, colour |-> m]
    BY <1>2, <1>9, <2>2 DEF ColourPacket, LightColourPacket, Packet, PropertyBased, OwnColour
  <2> HIDE DEF p, m, lv
  <2>4. /\ p \in LampPacket /\ p.order = "value" /\ p.power = "on"
        /\ p.level = lv /\ p.colour = m
    BY <1>5, <2>1, <2>3, PacketMade
  <2> QED BY <1>6, <1>9, <2>1, <2>4 DEF p
<1> QED BY <1>3, <1>7, <1>8, <1>9

\* Every packet of the router: it says what the request names and repeats what
\* the store holds true of the rest.
LEMMA RouteOK ==
    ASSUME family \in LightKind, NEW l, LampOK(l), NEW s, ShownOK(s),
           NEW known, Agreement(l, s, known), NEW r, RequestOK(r)
    PROVE  PacketOK(r, Route(family, r, s)) /\ Repeats(l, r, Route(family, r, s), known)
<1>1. CASE r.action = "both" /\ family # "cct"
  <2> DEFINE p == Route(family, r, s)
  <2>1. /\ r.level \in Int /\ 1 <= r.level /\ r.level <= 255
        /\ r.colour \in Nat /\ 2700 <= r.colour /\ r.colour <= 6500
        /\ family = "fast_move" => r.colour <= 6000
    BY <1>1, Asked
  <2>2. p = [order |-> "full", power |-> "on", level |-> r.level, colour |-> r.colour]
    BY <1>1 DEF Route, Splits, FullPacket, Packet
  <2>3. r.level \in Level /\ r.level # 0 /\ r.level # Unset /\ r.colour \in Int
        /\ r.colour # 0 /\ r.colour # Unset
    BY <2>1, LevelIs DEF Unset
  <2>4. WithinRange(family, OwnColour(family, r.colour)) = OwnColour(family, r.colour)
    BY <2>1, PickedColour
  <2>5. Named(r) = Aspect /\ known \subseteq Stored(family)
    BY <1>1, NamedIs DEF Agreement
  <2> HIDE DEF p
  <2>6. /\ p \in LampPacket /\ p.order = "full" /\ p.power = "on"
        /\ p.level = r.level /\ p.colour = r.colour
    BY <2>2, <2>3, PacketMade
  <2>7. Applied(p) = OwnColour(family, r.colour)
    BY <2>4, <2>6 DEF Applied
  <2>8. PacketOK(r, p)
    BY <1>1, <2>3, <2>6, <2>7 DEF PacketOK
  <2>9. Repeats(l, r, p, known)
    BY <2>5 DEF Repeats, Aspect
  <2> QED BY <2>8, <2>9 DEF p
<1>2. CASE r.action = "both" /\ family = "cct"
  <2>1. Splits(family, r)
    BY <1>2 DEF Splits
  <2> QED BY <2>1, LevelRoute
<1>3. CASE r.action = "level"
  BY <1>3, LevelRoute
<1>4. CASE r.action = "colour"
  BY <1>4, ColourRoute
<1>5. CASE r.action = "on"
  BY <1>5, OnRoute
<1>6. CASE r.action = "off"
  BY <1>6, OffRoute
<1> QED BY <1>1, <1>2, <1>3, <1>4, <1>5, <1>6, Asked


-----------------------------------------------------------------------------
(* What a packet does to the lamp *)

\* A colour is a number in either unit.
LEMMA OwnColourInt ==
    ASSUME NEW x \in Int
    PROVE  OwnColour(family, x) \in Int
<1>1. CASE x > 0
  <2>1. x \in Nat \ {0}
    BY <1>1
  <2>2. Mired(x) \in Int
    BY <2>1, MiredNat
  <2> QED BY <2>2 DEF OwnColour
<1>2. CASE ~(x > 0)
  <2>1. Mired(x) = 0
    BY <1>2 DEF Mired
  <2> QED BY <2>1 DEF OwnColour
<1> QED BY <1>1, <1>2

\* Over either channel: the power, level and colour the lamp ends up with.
LEMMA ObeyIs ==
    ASSUME NEW l, LampOK(l), NEW r, NEW p, PacketOK(r, p), NEW via \in {"lan", "ssl"}
    PROVE  LET m == Obey(family, IF via = "lan" THEN Filled(p) ELSE p, via, l)
           IN  /\ m = [on |-> m.on, level |-> m.level, colour |-> m.colour]
               /\ m.on = (p.power = "on" \/ (p.power = "keep" /\ l.on))
               /\ p.power = "off" => m.level = l.level /\ m.colour = l.colour
               /\ p.power # "off" =>
                     /\ m.colour = IF p.colour \in {Unset, 0} THEN l.colour ELSE Applied(p)
                     /\ p.level \notin {Unset, 0} => m.level = p.level
                     /\ p.level = Unset => m.level = l.level
                     /\ p.level = 0 => m.level \in {l.level, 0, 255}
                     /\ p.level = 0 /\ p.order = "light" /\ p.power = "on" =>
                           m.level \in {l.level, 255}
<1> DEFINE q == IF via = "lan" THEN Filled(p) ELSE p
           m == Obey(family, q, via, l)
           lv == IF q.level = Unset \/ (q.level = 0 /\ via = "ssl") THEN l.level ELSE q.level
           c == IF p.colour \in {Unset, 0} THEN l.colour ELSE Applied(p)
<1>1. p \in LampPacket /\ p.power \in {"on", "off", "keep"}
  BY DEF PacketOK, LampPacket
<1>2. l \in [on : BOOLEAN, level : Level, colour : OwnColours(family)]
  BY DEF LampOK
<1>3. /\ q.power = p.power /\ q.colour = p.colour /\ q.order = p.order
      /\ q.level = IF via = "lan" /\ p.order = "light" /\ p.power = "on" /\ p.level = 0
                   THEN 255 ELSE p.level
  BY <1>1 DEF Filled, LampPacket
<1>4. CASE p.power = "off"
  <2> HIDE DEF q
  <2>1. m = [l EXCEPT !.on = FALSE]
    BY <1>3, <1>4 DEF Obey
  <2>2. m = [on |-> FALSE, level |-> l.level, colour |-> l.colour]
    BY <1>2, <2>1
  <2> HIDE DEF m
  <2>3. /\ m = [on |-> m.on, level |-> m.level, colour |-> m.colour]
        /\ ~m.on /\ m.on \in BOOLEAN /\ m.level = l.level /\ m.colour = l.colour
    BY <2>2
  <2>4. m.on = (p.power = "on" \/ (p.power = "keep" /\ l.on))
    BY <1>4, <2>2
  <2> QED BY <1>4, <2>3, <2>4 DEF m, q
<1>5. CASE p.power # "off"
  <2>1. WithinRange(family, IF q.order = "full" THEN OwnColour(family, q.colour) ELSE q.colour)
          = Applied(p)
    BY <1>3 DEF Applied
  <2>2. c = IF q.colour \in {Unset, 0} THEN l.colour
            ELSE WithinRange(family, IF q.order = "full" THEN OwnColour(family, q.colour)
                                     ELSE q.colour)
    BY <1>3, <2>1
  <2>3. q.power # "off" /\ (q.power = "keep" <=> p.power = "keep")
    BY <1>3, <1>5
  <2> HIDE DEF c, q
  <2>4. m = [on |-> IF q.power = "keep" THEN l.on ELSE TRUE, level |-> lv, colour |-> c]
    BY <2>2, <2>3 DEF Obey
  <2> HIDE DEF m
  <2>5. m.on = (p.power = "on" \/ (p.power = "keep" /\ l.on))
    BY <1>1, <1>2, <1>5, <2>3, <2>4
  <2>6. m.level = lv /\ m.colour = c /\ m = [on |-> m.on, level |-> m.level, colour |-> m.colour]
    BY <2>4
  <2>7. Unset # 0 /\ 255 # 0 /\ 255 # Unset
    BY DEF Unset
  <2>8. /\ p.level \notin {Unset, 0} => m.level = p.level
        /\ p.level = Unset => m.level = l.level
        /\ p.level = 0 => m.level \in {l.level, 0, 255}
        /\ p.level = 0 /\ p.order = "light" /\ p.power = "on" => m.level \in {l.level, 255}
    BY <1>3, <2>6, <2>7
  <2> QED BY <1>5, <2>5, <2>6, <2>8 DEF m, q, c
<1> QED BY <1>4, <1>5

\* The lamp after a delivery does what the request asked; what the command was
\* made from and the lamp still holds stays as it was, but for a level of zero.
LEMMA DeliveryOK ==
    ASSUME family \in LightKind, NEW l, LampOK(l), NEW r, RequestOK(r),
           NEW p, PacketOK(r, p), NEW knew, Repeats(l, r, p, knew), NEW via \in {"lan", "ssl"}
    PROVE  LET m == Obey(family, IF via = "lan" THEN Filled(p) ELSE p, via, l)
           IN  LampOK(m) /\ Follows(l, m, r, knew)
<1> DEFINE m == Obey(family, IF via = "lan" THEN Filled(p) ELSE p, via, l)
<1>1. /\ m = [on |-> m.on, level |-> m.level, colour |-> m.colour]
      /\ m.on = (p.power = "on" \/ (p.power = "keep" /\ l.on))
      /\ p.power = "off" => m.level = l.level /\ m.colour = l.colour
      /\ p.power # "off" =>
            /\ m.colour = IF p.colour \in {Unset, 0} THEN l.colour ELSE Applied(p)
            /\ p.level \notin {Unset, 0} => m.level = p.level
            /\ p.level = Unset => m.level = l.level
            /\ p.level = 0 => m.level \in {l.level, 0, 255}
            /\ p.level = 0 /\ p.order = "light" /\ p.power = "on" => m.level \in {l.level, 255}
  BY ObeyIs
<1> HIDE DEF m
<1>2. /\ p.level \in Level /\ p.colour \in Int /\ p.power \in {"on", "off", "keep"}
      /\ p.power = "off" <=> r.action = "off"
      /\ p.power = "keep" => r.action = "colour"
      /\ p.power # "off" /\ p.level = 0 =>
            \/ family = "dim_color" /\ r.action = "colour"
            \/ family = "legacy" /\ p.order = "light" /\ p.power = "on"
      /\ p.level = Unset /\ r.action = "on" => family # "dim_color"
      /\ "level" \in Named(r) => p.level = r.level
      /\ "colour" \in Named(r) =>
            /\ p.colour \notin {Unset, 0}
            /\ Applied(p) = OwnColour(family, r.colour)
  BY DEF PacketOK, LampPacket
<1>3. /\ l.on \in BOOLEAN /\ l.level \in Level /\ l.colour \in OwnColours(family)
      /\ 0 <= l.level /\ (l.level = 0 => family = "dim_color")
  BY DEF LampOK
<1>4. Applied(p) \in OwnColours(family)
  <2>1. (IF p.order = "full" THEN OwnColour(family, p.colour) ELSE p.colour) \in Int
    BY <1>2, OwnColourInt
  <2> QED BY <2>1, RangeOK DEF Applied
<1>5. Unset # 0 /\ 255 \in Level /\ 255 # 0 /\ 255 # Unset /\ Unset = -1
  BY LevelIs DEF Unset
<1>6. LampOK(m)
  <2>1. m.on \in BOOLEAN /\ m.colour \in OwnColours(family)
    BY <1>1, <1>3, <1>4
  <2>2. m.level \in Level /\ (m.level = Unset => l.level = Unset)
    BY <1>1, <1>2, <1>3, <1>5
  <2>3. m.level = 0 => family = "dim_color"
    BY <1>1, <1>2, <1>3, <1>5
  <2>4. 0 <= m.level
    BY <1>3, <1>5, <2>2, LevelIs
  <2> QED BY <1>1, <2>1, <2>2, <2>3, <2>4 DEF LampOK
<1>7. /\ r.action \in {"level", "both"} => "level" \in Named(r) /\ r.level \in Int /\ 1 <= r.level
      /\ r.action \in {"on", "off"} => Named(r) = {}
      /\ Named(r) \subseteq Aspect /\ r.action \in {"on", "off", "level", "colour", "both"}
  BY NamedIs, Asked DEF Aspect
<1>8. r.action = "off" => ~m.on /\ m.level = l.level /\ m.colour = l.colour
  BY <1>1, <1>2
<1>9. r.action \in {"on", "level", "both"} => Lit(m)
  <2> SUFFICES ASSUME r.action \in {"on", "level", "both"} PROVE m.on /\ m.level # 0
    BY <1>6, LevelIs DEF Lit, LampOK
  <2>1. p.power = "on"
    BY <1>2
  <2>2. r.action # "on" => p.level \notin {Unset, 0}
    BY <1>2, <1>5, <1>7
  <2>3. CASE p.level \notin {Unset, 0}
    BY <1>1, <2>1, <2>3
  <2>4. CASE p.level = Unset
    <3>1. m.level = l.level /\ family # "dim_color"
      BY <1>1, <1>2, <2>1, <2>2, <2>4
    <3> QED BY <1>1, <1>3, <2>1, <3>1
  <2>5. CASE p.level = 0
    <3>1. family = "legacy" /\ p.order = "light"
      BY <1>2, <2>1, <2>2, <2>5
    <3>2. m.level \in {l.level, 255}
      BY <1>1, <2>1, <2>5, <3>1
    <3> QED BY <1>1, <1>3, <1>5, <2>1, <3>1, <3>2
  <2> QED BY <2>3, <2>4, <2>5
<1>10. "level" \in Named(r) => m.level = r.level
  <2> SUFFICES ASSUME "level" \in Named(r) PROVE m.level = r.level
    OBVIOUS
  <2>1. r.action \in {"level", "both"}
    BY <1>7, NamedIs
  <2>2. r.level \notin {Unset, 0} /\ p.power # "off"
    BY <1>2, <1>5, <1>7, <2>1
  <2> QED BY <1>1, <1>2, <2>2
<1>11. "colour" \in Named(r) => m.colour = OwnColour(family, r.colour)
  BY <1>1, <1>2, <1>7
<1>12. ASSUME NEW x \in knew \ Named(r), x \in Moved(l, m) PROVE x = "level" /\ l.level = 0
  <2>1. CASE x = "colour"
    <3>1. m.colour # l.colour
      BY <1>12, <2>1 DEF Moved
    <3> QED BY <1>1, <1>12, <2>1, <3>1 DEF Repeats
  <2>2. CASE x = "level"
    <3>1. m.level # l.level
      BY <1>12, <2>2 DEF Moved
    <3>2. l.level = 0 \/ p.level \in {Unset, l.level}
      BY <1>1, <1>12, <2>2, <3>1 DEF Repeats
    <3> QED BY <1>1, <2>2, <3>1, <3>2
  <2> QED BY <1>12, <2>1, <2>2 DEF Moved, Aspect
<1> QED BY <1>6, <1>8, <1>9, <1>10, <1>11, <1>12 DEF Follows, m

-----------------------------------------------------------------------------
(* What becomes out of date, and what stays *)

\* A packet keeps what it repeats when the lamp moves: what moved is forgotten.
LEMMA StillRepeats ==
    ASSUME NEW l, NEW m, NEW r, NEW p, NEW knew, Repeats(l, r, p, knew)
    PROVE  Repeats(m, r, p, knew \ Moved(l, m))
<1> DEFINE still == knew \ Moved(l, m)
<1>1. /\ "level" \in still => "level" \in knew /\ m.level = l.level
      /\ "colour" \in still => "colour" \in knew /\ m.colour = l.colour
      /\ still \subseteq knew
  BY DEF Moved, Aspect
<1> HIDE DEF still
<1>2. Repeats(m, r, p, still)
  BY <1>1 DEF Repeats
<1> QED BY <1>2 DEF still

\* The same of the store.
LEMMA StillAgrees ==
    ASSUME NEW l, NEW m, NEW s, NEW known, Agreement(l, s, known)
    PROVE  Agreement(m, s, known \ Moved(l, m))
<1> DEFINE still == known \ Moved(l, m)
<1>1. /\ "level" \in still => "level" \in known /\ m.level = l.level
      /\ "colour" \in still => "colour" \in known /\ m.colour = l.colour
      /\ still \subseteq known
  BY DEF Moved, Aspect
<1> HIDE DEF still
<1>2. Agreement(m, s, still)
  BY <1>1 DEF Agreement
<1> QED BY <1>2 DEF still

\* The same of a call, which keeps its place.
LEMMA StillOK ==
    ASSUME NEW c \in CallType, CallOK(lamp, c), NEW m
    PROVE  /\ Outdated(c, m) \in CallType /\ CallOK(m, Outdated(c, m))
           /\ Outdated(c, m).pc = c.pc
<1> DEFINE o == Outdated(c, m)
<1>1. o = [c EXCEPT !.knew = c.knew \ Moved(lamp, m)]
  BY DEF Outdated
<1> HIDE DEF o
<1>2. /\ o \in CallType /\ o.pc = c.pc /\ o.request = c.request /\ o.packet = c.packet
      /\ o.knew = c.knew \ Moved(lamp, m)
  BY <1>1 DEF CallType
<1>3. ASSUME o.pc # "idle" PROVE Repeats(m, o.request, o.packet, o.knew)
  BY <1>2, <1>3, StillRepeats DEF CallOK
<1>4. CallOK(m, o)
  BY <1>2, <1>3 DEF CallOK
<1> QED BY <1>2, <1>4 DEF o

\* An idle slot.
LEMMA IdleOK ==
    NoCall \in CallType /\ \A l : CallOK(l, NoCall)
<1>1. Unset \in Level /\ Unset \in Temperature /\ Unset \in Int
  BY LevelIs, TemperatureIs DEF Unset
<1>2. NoCall \in CallType
  BY <1>1 DEF NoCall, NoRequest, Packet, CallType
<1>3. NoCall.pc = "idle"
  BY DEF NoCall
<1> QED BY <1>2, <1>3 DEF CallOK

\* A command the router has just made.
LEMMA SentOK ==
    ASSUME family \in LightKind, NEW l, LampOK(l), NEW s, ShownOK(s),
           NEW known, Agreement(l, s, known), NEW r, RequestOK(r)
    PROVE  LET c == [pc |-> "sending", request |-> r, packet |-> Route(family, r, s),
                     knew |-> known]
           IN  c \in CallType /\ CallOK(l, c)
<1> DEFINE p == Route(family, r, s)
           c == [pc |-> "sending", request |-> r, packet |-> p, knew |-> known]
<1>1. PacketOK(r, p) /\ Repeats(l, r, p, known)
  BY RouteOK
<1>2. /\ p \in [order : {"none", "property", "light", "value", "full"},
                power : {"on", "off", "keep"}, level : Level, colour : Int]
      /\ r \in [action : Actions(family) \cup {"none"}, level : Level, colour : Temperature]
  <2> HIDE DEF p
  <2> QED BY <1>1 DEF PacketOK, LampPacket, RequestOK
<1>3. known \in SUBSET Aspect
  BY DEF Agreement, Stored, Aspect
<1> HIDE DEF p
<1>4. c \in CallType
  BY <1>2, <1>3 DEF CallType
<1>5. CallOK(l, c)
  BY <1>1 DEF CallOK
<1> QED BY <1>4, <1>5 DEF p

\* A call whose place alone changes.
LEMMA PlacedOK ==
    ASSUME NEW l, NEW c \in CallType, CallOK(l, c), c.pc # "idle",
           NEW w \in {"acking", "waiting", "obeyed", "late"}
    PROVE  [c EXCEPT !.pc = w] \in CallType /\ CallOK(l, [c EXCEPT !.pc = w])
<1> DEFINE d == [c EXCEPT !.pc = w]
<1>1. d \in CallType /\ d.request = c.request /\ d.packet = c.packet /\ d.knew = c.knew
  BY DEF CallType
<1> HIDE DEF d
<1>2. CallOK(l, d)
  BY <1>1 DEF CallOK
<1> QED BY <1>1, <1>2 DEF d

\* One slot changes.
LEMMA OneSlot ==
    ASSUME NEW l, NEW cs \in [LightTask -> CallType], \A u \in LightTask : CallOK(l, cs[u]),
           NEW t \in LightTask, NEW c \in CallType, CallOK(l, c)
    PROVE  /\ [cs EXCEPT ![t] = c] \in [LightTask -> CallType]
           /\ \A u \in LightTask : CallOK(l, [cs EXCEPT ![t] = c][u])
<1> DEFINE ds == [cs EXCEPT ![t] = c]
<1>1. ds \in [LightTask -> CallType]
  OBVIOUS
<1>2. \A u \in LightTask : ds[u] = IF u = t THEN c ELSE cs[u]
  OBVIOUS
<1> HIDE DEF ds
<1>3. \A u \in LightTask : CallOK(l, ds[u])
  BY <1>2
<1> QED BY <1>1, <1>3 DEF ds

\* The parts of the invariant, once the lamp's family stays.
LEMMA LampFrame ==
    ASSUME family \in LightKind, family' = family, LampOK(lamp'), ShownOK(shown'),
           Agreement(lamp', shown', agreed'), calls' \in [LightTask -> CallType],
           \A u \in LightTask : CallOK(lamp', calls'[u])
    PROVE  LightInv'
<1>1. LampOK(lamp)'
  BY DEF LampOK, OwnColours
<1>2. ShownOK(shown)'
  BY DEF ShownOK
<1>3. Agreement(lamp, shown, agreed)'
  BY DEF Agreement
<1>4. (calls \in [LightTask -> CallType])'
  BY DEF CallType
<1>5. (\A u \in LightTask : CallOK(lamp, calls[u]))'
  BY DEF CallOK, RequestOK, PacketOK, Repeats, Applied, Named
<1> QED BY <1>1, <1>2, <1>3, <1>4, <1>5 DEF LightInv

-----------------------------------------------------------------------------
(* The actions *)

\* The second half of a combined command.
LEMMA SecondType ==
    ASSUME NEW A, "colour" \in A, NEW L, Unset \in L, NEW C,
           NEW q \in [action : A, level : L, colour : C]
    PROVE  Second(q) \in [action : A, level : L, colour : C]
BY DEF Second

\* A call ends, or makes its second command from the state it leaves.
LEMMA EndsOK ==
    ASSUME family \in LightKind, LampOK(lamp), calls \in [LightTask -> CallType],
           \A u \in LightTask : CallOK(lamp, calls[u]),
           NEW t \in LightTask, calls[t].pc # "idle",
           NEW s, ShownOK(s), Agreement(lamp, s, agreed')
    PROVE  /\ CallEnds(t, s) \in [LightTask -> CallType]
           /\ \A u \in LightTask : CallOK(lamp, CallEnds(t, s)[u])
<1> DEFINE q == calls[t].request
           r == Second(q)
           c == [pc |-> "sending", request |-> r, packet |-> Route(family, r, s),
                 knew |-> agreed']
           d == IF calls[t].pc = "waiting" THEN [calls[t] EXCEPT !.pc = "late"] ELSE NoCall
<1>1. calls[t] \in CallType /\ CallOK(lamp, calls[t])
  OBVIOUS
<1>2. RequestOK(q)
  BY <1>1 DEF CallOK
<1>3. CASE Splits(family, q)
  <2>1. q.action = "both" /\ family = "cct"
    BY <1>3 DEF Splits
  <2>2. q \in [action : Actions(family), level : Level, colour : Temperature] /\ 2700 <= q.colour
    BY <1>2, <2>1 DEF RequestOK
  <2>3. r.action = "colour" /\ r.level = Unset /\ r.colour = q.colour
    BY <2>2 DEF Second
  <2>4. r \in [action : Actions(family), level : Level, colour : Temperature]
    <3>1. "colour" \in Actions(family)
      BY <2>1 DEF Actions, Tunable
    <3>2. Unset \in Level
      BY LevelIs DEF Unset
    <3> QED BY <2>2, <3>1, <3>2, SecondType
  <2> HIDE DEF r
  <2>5. RequestOK(r)
    BY <2>1, <2>2, <2>3, <2>4 DEF RequestOK
  <2>6. c \in CallType /\ CallOK(lamp, c)
    BY <2>5, SentOK
  <2>7. CallEnds(t, s) = [calls EXCEPT ![t] = c]
    BY <1>3 DEF CallEnds, r
  <2> HIDE DEF c
  <2> QED BY <2>6, <2>7, OneSlot
<1>4. CASE ~Splits(family, q)
  <2>1. d \in CallType /\ CallOK(lamp, d)
    <3>1. CASE calls[t].pc = "waiting"
      BY <1>1, <3>1, PlacedOK
    <3>2. CASE calls[t].pc # "waiting"
      BY <3>2, IdleOK
    <3> QED BY <3>1, <3>2
  <2>2. CallEnds(t, s) = [calls EXCEPT ![t] = d]
    BY <1>4 DEF CallEnds
  <2> HIDE DEF d
  <2> QED BY <2>1, <2>2, OneSlot
<1> QED BY <1>3, <1>4

\* The optimistic write: what it stores holds true where it is claimed to.
LEMMA WriteOK ==
    ASSUME family \in LightKind, LampOK(lamp), ShownOK(shown), Agreement(lamp, shown, agreed),
           NEW r, RequestOK(r)
    PROVE  /\ ShownOK(OptimisticState(family, r, shown))
           /\ Agreement(lamp, OptimisticState(family, r, shown), AgreedAfter(r))
<1> DEFINE s == OptimisticState(family, r, shown)
           known == AgreedAfter(r)
<1>1. shown \in [state : BOOLEAN, brightness : Level, color_temp : Temperature]
      /\ r.level \in Level /\ r.colour \in Temperature
  BY DEF ShownOK, RequestOK
<1>2. /\ agreed \subseteq Stored(family)
      /\ "level" \in agreed => shown.brightness = lamp.level
      /\ "colour" \in agreed =>
            /\ shown.color_temp > 0
            /\ lamp.colour = IF family = "cct" THEN shown.color_temp
                             ELSE WithinRange(family, Mired(shown.color_temp))
  BY DEF Agreement
<1>3. r.action \in {"on", "off", "level", "colour", "both"}
  BY Asked
<1>4. CASE r.action \in {"on", "off"}
  <2>1. Named(r) = {}
    BY <1>4, NamedIs
  <2>2. known = agreed
    BY <1>4, <2>1 DEF AgreedAfter, Awaited
  <2>3. s = [shown EXCEPT !.state = (r.action = "on")]
    BY <1>4 DEF OptimisticState, Splits
  <2>4. /\ s \in [state : BOOLEAN, brightness : Level, color_temp : Temperature]
        /\ s.brightness = shown.brightness /\ s.color_temp = shown.color_temp
    BY <1>1, <2>3
  <2> HIDE DEF s, known
  <2>5. ShownOK(s) /\ Agreement(lamp, s, known)
    BY <1>2, <2>2, <2>4 DEF ShownOK, Agreement
  <2> QED BY <2>5 DEF s, known
<1>5. CASE r.action = "level" \/ Splits(family, r)
  <2>1. Named(r) = {"level"} /\ Awaited(r) /\ r.action \in {"level", "both"}
    BY <1>5, NamedIs DEF Awaited, Splits
  <2>2. known = (agreed \ {"level"}) \cup {x \in {"level"} : lamp.level = r.level}
    BY <2>1 DEF AgreedAfter
  <2>3. s = [shown EXCEPT !.state = TRUE, !.brightness = r.level]
    BY <1>5, <2>1 DEF OptimisticState
  <2>4. /\ s \in [state : BOOLEAN, brightness : Level, color_temp : Temperature]
        /\ s.brightness = r.level /\ s.color_temp = shown.color_temp
    BY <1>1, <2>3
  <2>5. "level" \in Stored(family)
    BY <2>1, Asked DEF Stored, Power
  <2>6. /\ known \subseteq Stored(family)
        /\ "level" \in known => lamp.level = r.level
        /\ "colour" \in known => "colour" \in agreed
    BY <1>2, <2>2, <2>5
  <2> HIDE DEF s, known
  <2>7. ShownOK(s) /\ Agreement(lamp, s, known)
    BY <1>2, <2>4, <2>6 DEF ShownOK, Agreement
  <2> QED BY <2>7 DEF s, known
<1>6. CASE r.action = "colour"
  <2>1. Named(r) = {"colour"} /\ Awaited(r)
    BY <1>6, NamedIs DEF Awaited
  <2>2. known = (agreed \ {"colour"})
                \cup {x \in {"colour"} : lamp.colour = OwnColour(family, r.colour)}
    BY <2>1 DEF AgreedAfter
  <2>3. s = [shown EXCEPT !.color_temp = r.colour]
    BY <1>6 DEF OptimisticState, Splits
  <2>4. /\ s \in [state : BOOLEAN, brightness : Level, color_temp : Temperature]
        /\ s.brightness = shown.brightness /\ s.color_temp = r.colour
    BY <1>1, <2>3
  <2>5. /\ family \in {"dim_color", "fast_move", "cct"}
        /\ r.colour \in Nat /\ 2700 <= r.colour /\ r.colour <= 6500
        /\ family = "fast_move" => r.colour <= 6000
    BY <1>6, Asked
  <2>6. /\ known \subseteq Stored(family)
        /\ "level" \in known => "level" \in agreed
        /\ "colour" \in known => lamp.colour = OwnColour(family, r.colour)
    BY <1>2, <2>2, <2>5 DEF Stored, Tunable
  <2>7. /\ r.colour > 0
        /\ OwnColour(family, r.colour) =
             IF family = "cct" THEN r.colour ELSE WithinRange(family, Mired(r.colour))
    <3>1. WithinRange(family, OwnColour(family, r.colour)) = OwnColour(family, r.colour)
      BY <2>5, PickedColour
    <3> QED BY <2>5, <3>1 DEF OwnColour
  <2> HIDE DEF s, known
  <2>8. ShownOK(s) /\ Agreement(lamp, s, known)
    BY <1>2, <2>4, <2>6, <2>7 DEF ShownOK, Agreement
  <2> QED BY <2>8 DEF s, known
<1>7. CASE r.action = "both" /\ ~Splits(family, r)
  <2>1. s = shown /\ known = agreed
    BY <1>7 DEF OptimisticState, AgreedAfter, Awaited
  <2> QED BY <2>1
<1> QED BY <1>3, <1>4, <1>5, <1>6, <1>7

\* A push, or the echo of a command: the parsers store what it carries.
LEMMA ReadOK ==
    ASSUME family \in LightKind, LampOK(lamp), ShownOK(shown), Agreement(lamp, shown, agreed),
           NEW fields \in SUBSET LightFields, NEW sub \in BOOLEAN
    PROVE  /\ ShownOK(Parsed(family, lamp, fields, sub, shown))
           /\ Agreement(lamp, Parsed(family, lamp, fields, sub, shown), Heard(fields))
<1> DEFINE s == Parsed(family, lamp, fields, sub, shown)
           old(x) == IF family = "dim_color" THEN Unset ELSE x
           b == IF family \in Power THEN shown.brightness
                ELSE IF "level" \in fields THEN lamp.level ELSE old(shown.brightness)
           k == IF family \notin Tunable THEN shown.color_temp
                ELSE IF "colour" \in fields THEN ReadColour(family, lamp.colour)
                ELSE old(shown.color_temp)
<1>1. /\ shown.state \in BOOLEAN /\ shown.brightness \in Level /\ shown.color_temp \in Temperature
      /\ lamp.on \in BOOLEAN /\ lamp.level \in Level /\ lamp.colour \in OwnColours(family)
  BY DEF ShownOK, LampOK
<1>2. /\ ReadColour(family, lamp.colour) \in 2700..6500
      /\ lamp.colour = IF family = "cct" THEN ReadColour(family, lamp.colour)
                       ELSE WithinRange(family, Mired(ReadColour(family, lamp.colour)))
  BY <1>1, ColourBack
<1>3. /\ ReadColour(family, lamp.colour) \in Temperature
      /\ ReadColour(family, lamp.colour) > 0
  <2> DEFINE w == ReadColour(family, lamp.colour)
  <2>1. w \in 2700..6500
    BY <1>2
  <2> HIDE DEF w
  <2>2. w \in Int /\ -1 <= w /\ w <= 6500 /\ w > 0
    BY <2>1, SMT
  <2>3. w \in Temperature
    BY <2>2, TemperatureIs
  <2> QED BY <2>2, <2>3 DEF w
<1>4. Unset \in Level /\ Unset \in Temperature
  BY LevelIs, TemperatureIs DEF Unset
<1>5. s.brightness = b /\ s.color_temp = k
  BY DEF Parsed
<1>6. s.state \in BOOLEAN
  BY <1>1 DEF Parsed, ReadPower
<1>7. b \in Level /\ k \in Temperature
  BY <1>1, <1>3, <1>4
<1>8. s = [state |-> s.state, brightness |-> s.brightness, color_temp |-> s.color_temp]
  BY DEF Parsed
<1>9. Heard(fields) \subseteq Stored(family)
  BY DEF Heard
<1>10. ASSUME "level" \in Heard(fields) PROVE b = lamp.level
  <2>1. family \notin Power
    BY <1>10 DEF Heard, Stored
  <2>2. "level" \in fields \/ (family # "dim_color" /\ "level" \in agreed)
    BY <1>10 DEF Heard
  <2> QED BY <2>1, <2>2 DEF Agreement
<1>11. ASSUME "colour" \in Heard(fields)
       PROVE  /\ k > 0
              /\ lamp.colour = IF family = "cct" THEN k ELSE WithinRange(family, Mired(k))
  <2>1. family \in Tunable
    BY <1>11 DEF Heard, Stored
  <2>2. "colour" \in fields \/ (family # "dim_color" /\ "colour" \in agreed)
    BY <1>11 DEF Heard
  <2>3. CASE "colour" \in fields
    <3>1. k = ReadColour(family, lamp.colour)
      BY <2>1, <2>3
    <3> QED BY <1>2, <1>3, <3>1
  <2>4. CASE "colour" \notin fields
    <3>1. k = shown.color_temp /\ "colour" \in agreed
      BY <2>1, <2>2, <2>4
    <3> QED BY <3>1 DEF Agreement
  <2> QED BY <2>3, <2>4
<1> HIDE DEF s, b, k
<1>12. ShownOK(s)
  BY <1>5, <1>6, <1>7, <1>8 DEF ShownOK
<1>13. Agreement(lamp, s, Heard(fields))
  BY <1>5, <1>9, <1>10, <1>11 DEF Agreement
<1> QED BY <1>12, <1>13 DEF s

\* A level the user picks, in the lamp's unit.
LEMMA DeviceLevelOK ==
    ASSUME NEW b \in HaLevel
    PROVE  /\ DeviceLevel(family, b) \in Level /\ 1 <= DeviceLevel(family, b)
           /\ family \in Percent => DeviceLevel(family, b) <= 100
<1>1. b \in 0..255
  BY LightAssumption
<1> DEFINE v == DeviceLevel(family, b)
           x == Most(b, 1)
           y == (x * 100) \div 255
<1>2. x \in Int /\ 1 <= x /\ x <= 255
  BY <1>1 DEF Most
<1>3. CASE family \in Percent
  <2>1. v = Most(1, y)
    BY <1>3 DEF DeviceLevel
  <2> HIDE DEF x
  <2>2. y \in Int /\ y <= 100
    BY <1>2
  <2> HIDE DEF v, y
  <2>3. v \in Int /\ 1 <= v /\ v <= 100
    BY <2>1, <2>2 DEF Most
  <2>4. v \in Level
    BY <2>3, LevelIs
  <2> QED BY <2>3, <2>4 DEF v
<1>4. CASE family \notin Percent
  <2>1. v = x
    BY <1>4 DEF DeviceLevel
  <2> HIDE DEF v, x
  <2>2. v \in Level /\ 1 <= v
    BY <1>2, <2>1, LevelIs
  <2> QED BY <1>4, <2>2 DEF v
<1> QED BY <1>3, <1>4

\* A request of the entity is as it should be.
LEMMA RequestsOK ==
    ASSUME NEW r \in {q \in Requests(family) : q.action \in Actions(family)}
    PROVE  RequestOK(r)
<1>1. r \in Requests(family) /\ r.action \in Actions(family)
  OBVIOUS
<1> DEFINE Levels == {DeviceLevel(family, b) : b \in HaLevel}
<1>2. Unset \in Level /\ Unset \in Temperature
  BY LevelIs, TemperatureIs DEF Unset
<1>3. \A v \in Levels : v \in Level /\ 1 <= v /\ (family \in Percent => v <= 100)
  BY DeviceLevelOK
<1>4. ASSUME NEW k \in KelvinOffered(family)
      PROVE  k \in Temperature /\ 2700 <= k /\ (family = "fast_move" => k <= 6000)
  <2>1. k \in Kelvin /\ (family = "fast_move" => k <= 6000)
    BY DEF KelvinOffered
  <2>2. k \in 2700..6500
    BY <2>1, LightAssumption
  <2>3. k \in Int /\ 2700 <= k /\ k <= 6500 /\ -1 <= k
    BY <2>2
  <2> QED BY <2>1, <2>3, TemperatureIs
<1> DEFINE Colours == KelvinOffered(family)
<1>5. \/ r \in [action : {"on", "off"}, level : {Unset}, colour : {Unset}]
      \/ r \in [action : {"level"}, level : Levels, colour : {Unset}]
      \/ r \in [action : {"colour"}, level : {Unset}, colour : Colours]
      \/ r \in [action : {"both"}, level : Levels, colour : Colours]
  BY <1>1 DEF Requests
<1> HIDE DEF Levels, Colours
<1>6. \A k \in Colours : k \in Temperature /\ 2700 <= k /\ (family = "fast_move" => k <= 6000)
  BY <1>4 DEF Colours
<1>7. r \in [action : Actions(family), level : Level, colour : Temperature]
  BY <1>1, <1>2, <1>3, <1>5, <1>6
<1>8. r.action \in {"level", "both"} => r.level \in Levels
  BY <1>5
<1>9. r.action \in {"colour", "both"} => r.colour \in Colours
  BY <1>5
<1> QED BY <1>3, <1>6, <1>7, <1>8, <1>9 DEF RequestOK

\* The conversion as the property writes it.
LEMMA MiredDiv == \A b \in Nat \ {0} : Mired(b) = 1000000 \div b
BY SMT DEF Mired

\* The parts of the invariant in one call's terms.
LEMMA CallParts ==
    ASSUME LightInv, NEW t \in LightTask, calls[t].pc # "idle"
    PROVE  /\ calls[t] \in CallType /\ CallOK(lamp, calls[t])
           /\ RequestOK(calls[t].request) /\ PacketOK(calls[t].request, calls[t].packet)
           /\ Repeats(lamp, calls[t].request, calls[t].packet, calls[t].knew)
<1>1. calls[t] \in CallType /\ CallOK(lamp, calls[t])
  BY DEF LightInv
<1> QED BY <1>1 DEF CallOK

\* The lamp moves: what the store and the calls knew of it goes out of date.
LEMMA LampMoves ==
    ASSUME LightInv, LampOK(lamp'), UNCHANGED <<family, shown>>,
           agreed' = agreed \ Moved(lamp, lamp'),
           calls' \in [LightTask -> CallType],
           \A u \in LightTask : CallOK(lamp', calls'[u])
    PROVE  LightInv'
<1>1. /\ family \in LightKind /\ ShownOK(shown) /\ Agreement(lamp, shown, agreed)
  BY DEF LightInv
<1>2. ShownOK(shown') /\ Agreement(lamp', shown', agreed')
  <2>1. Agreement(lamp', shown, agreed \ Moved(lamp, lamp'))
    BY <1>1, StillAgrees
  <2> QED BY <1>1, <2>1
<1> QED BY <1>1, <1>2, LampFrame

\* The store or a call changes, the lamp does not.
LEMMA LampStays ==
    ASSUME LightInv, UNCHANGED <<family, lamp>>,
           ShownOK(shown'), Agreement(lamp, shown', agreed'),
           calls' \in [LightTask -> CallType],
           \A u \in LightTask : CallOK(lamp, calls'[u])
    PROVE  LightInv'
<1>1. family \in LightKind /\ LampOK(lamp)
  BY DEF LightInv
<1>2. LampOK(lamp') /\ Agreement(lamp', shown', agreed')
      /\ \A u \in LightTask : CallOK(lamp', calls'[u])
  BY <1>1
<1> QED BY <1>1, <1>2, LampFrame

\* A packet reaches the lamp over either channel.
LEMMA PacketReaches ==
    ASSUME LightInv, NEW t \in LightTask, calls[t].pc # "idle", NEW via \in {"lan", "ssl"},
           NEW pc \in {"acking", "obeyed", "idle"}, Delivered(t, via, pc)
    PROVE  LightInv' /\ Obeyed(t)
<1> DEFINE c == calls[t]
           r == c.request
           p == IF via = "lan" THEN Filled(c.packet) ELSE c.packet
           m == Obey(family, p, via, lamp)
<1>1. /\ c \in CallType /\ CallOK(lamp, c)
      /\ RequestOK(r) /\ PacketOK(r, c.packet) /\ Repeats(lamp, r, c.packet, c.knew)
  BY CallParts
<1>2. family \in LightKind /\ LampOK(lamp)
  BY DEF LightInv
<1>3. LampOK(m) /\ Follows(lamp, m, r, c.knew)
  BY <1>1, <1>2, DeliveryOK
<1>4. /\ lamp' = m /\ agreed' = agreed \ Moved(lamp, m) /\ UNCHANGED <<family, shown>>
      /\ calls' = [u \in LightTask |->
            IF u # t THEN Outdated(calls[u], m)
            ELSE IF pc = "idle" THEN NoCall ELSE [Outdated(c, m) EXCEPT !.pc = pc]]
  BY DEF Delivered, LampBecomes
<1> HIDE DEF m
<1>5. ASSUME NEW u \in LightTask PROVE calls'[u] \in CallType /\ CallOK(m, calls'[u])
  <2>1. calls[u] \in CallType /\ CallOK(lamp, calls[u])
    BY DEF LightInv
  <2>2. /\ Outdated(calls[u], m) \in CallType /\ CallOK(m, Outdated(calls[u], m))
        /\ Outdated(calls[u], m).pc = calls[u].pc
    BY <2>1, StillOK
  <2>3. CASE u # t
    BY <1>4, <2>2, <2>3
  <2>4. CASE u = t /\ pc = "idle"
    BY <1>4, <2>4, IdleOK
  <2>5. CASE u = t /\ pc # "idle"
    <3>1. calls'[u] = [Outdated(c, m) EXCEPT !.pc = pc]
      BY <1>4, <2>5
    <3>2. /\ [Outdated(c, m) EXCEPT !.pc = pc] \in CallType
          /\ CallOK(m, [Outdated(c, m) EXCEPT !.pc = pc])
      BY <2>2, <2>5, PlacedOK
    <3> QED BY <3>1, <3>2
  <2> QED BY <2>3, <2>4, <2>5
<1>6. calls' \in [LightTask -> CallType]
  BY <1>4, <1>5
<1>7. LightInv'
  BY <1>3, <1>4, <1>5, <1>6, LampMoves
<1>8. Obeyed(t)
  <2>1. Follows(lamp, lamp', r, c.knew)
    BY <1>3, <1>4
  <2>2. "colour" \in Named(r) =>
          OwnColour(family, r.colour) = (IF family = "cct" THEN r.colour ELSE 1000000 \div r.colour)
    <3> SUFFICES ASSUME "colour" \in Named(r)
                 PROVE  OwnColour(family, r.colour)
                          = (IF family = "cct" THEN r.colour ELSE 1000000 \div r.colour)
      OBVIOUS
    <3>1. r.action \in {"colour", "both"}
      BY <1>1, <1>2, NamedIs, Asked
    <3>2. r.colour \in Nat /\ 2700 <= r.colour
      BY <1>1, <1>2, <3>1, Asked
    <3>3. r.colour \in Nat \ {0}
      BY <3>2
    <3>4. Mired(r.colour) = 1000000 \div r.colour
      BY <3>3, MiredDiv
    <3>5. OwnColour(family, r.colour) = IF family = "cct" THEN r.colour ELSE Mired(r.colour)
      BY DEF OwnColour
    <3> QED BY <3>4, <3>5, SMT
  <2> QED BY <2>1, <2>2, SMT DEF Follows, Obeyed
<1> QED BY <1>7, <1>8

\* The gateway forwards the packet.
LEMMA LanOK ==
    ASSUME LightInv, NEW t \in LightTask, LanDelivers(t)
    PROVE  LightInv' /\ Obeyed(t)
<1>1. calls[t].pc # "idle" /\ Delivered(t, "lan", "acking")
  BY DEF LanDelivers
<1> QED BY <1>1, PacketReaches

\* The cloud brings the packet, in time or late.
LEMMA CloudOK ==
    ASSUME LightInv, NEW t \in LightTask, CloudDelivers(t)
    PROVE  LightInv' /\ Obeyed(t)
<1>1. CASE calls[t].pc = "waiting" /\ Delivered(t, "ssl", "obeyed")
  BY <1>1, PacketReaches
<1>2. CASE calls[t].pc = "late" /\ Delivered(t, "ssl", "idle")
  BY <1>2, PacketReaches
<1> QED BY <1>1, <1>2 DEF CloudDelivers

\* A service call of the entity.
LEMMA CallMade ==
    ASSUME LightInv, NEW t \in LightTask,
           NEW r \in {q \in Requests(family) : q.action \in Actions(family)}, LightCall(t, r)
    PROVE  LightInv'
<1> DEFINE c == [pc |-> "sending", request |-> r, packet |-> Route(family, r, shown),
                 knew |-> agreed]
<1>1. /\ family \in LightKind /\ LampOK(lamp) /\ ShownOK(shown) /\ Agreement(lamp, shown, agreed)
      /\ calls \in [LightTask -> CallType] /\ \A u \in LightTask : CallOK(lamp, calls[u])
  BY DEF LightInv
<1>2. RequestOK(r)
  BY RequestsOK
<1>3. c \in CallType /\ CallOK(lamp, c)
  BY <1>1, <1>2, SentOK
<1>4. calls' = [calls EXCEPT ![t] = c] /\ UNCHANGED <<family, lamp, shown, agreed>>
  BY DEF LightCall
<1> HIDE DEF c
<1>5. calls' \in [LightTask -> CallType] /\ \A u \in LightTask : CallOK(lamp, calls'[u])
  BY <1>1, <1>3, <1>4, OneSlot
<1>6. ShownOK(shown') /\ Agreement(lamp, shown', agreed')
  BY <1>1, <1>4
<1> QED BY <1>4, <1>5, <1>6, LampStays

\* The calls change, in one slot or when one of them ends.
LEMMA CallsChange ==
    ASSUME LightInv, UNCHANGED <<family, lamp, shown, agreed>>,
           calls' \in [LightTask -> CallType], \A u \in LightTask : CallOK(lamp, calls'[u])
    PROVE  LightInv'
<1>1. ShownOK(shown') /\ Agreement(lamp, shown', agreed')
  BY DEF LightInv
<1> QED BY <1>1, LampStays

\* The command goes out once more, over the cloud.
LEMMA FallBackOK ==
    ASSUME LightInv, NEW t \in LightTask, FallBack(t)
    PROVE  LightInv'
<1>1. /\ calls[t].pc # "idle" /\ UNCHANGED <<family, lamp, shown, agreed>>
      /\ calls' = [calls EXCEPT ![t] = [calls[t] EXCEPT !.pc = "waiting"]]
  BY DEF FallBack
<1>2. calls \in [LightTask -> CallType] /\ \A u \in LightTask : CallOK(lamp, calls[u])
  BY DEF LightInv
<1>3. /\ [calls[t] EXCEPT !.pc = "waiting"] \in CallType
      /\ CallOK(lamp, [calls[t] EXCEPT !.pc = "waiting"])
  BY <1>1, <1>2, PlacedOK
<1>4. calls' \in [LightTask -> CallType] /\ \A u \in LightTask : CallOK(lamp, calls'[u])
  BY <1>1, <1>2, <1>3, OneSlot
<1> QED BY <1>1, <1>4, CallsChange

\* A late packet is lost.
LEMMA CloudLosesOK ==
    ASSUME LightInv, NEW t \in LightTask, CloudLoses(t)
    PROVE  LightInv'
<1>1. calls' = [calls EXCEPT ![t] = NoCall] /\ UNCHANGED <<family, lamp, shown, agreed>>
  BY DEF CloudLoses
<1>2. calls \in [LightTask -> CallType] /\ \A u \in LightTask : CallOK(lamp, calls[u])
  BY DEF LightInv
<1>3. calls' \in [LightTask -> CallType] /\ \A u \in LightTask : CallOK(lamp, calls'[u])
  BY <1>1, <1>2, IdleOK, OneSlot
<1> QED BY <1>1, <1>3, CallsChange

\* A call ends with the store as it is left.
LEMMA LightFinished ==
    ASSUME LightInv, NEW t \in LightTask, calls[t].pc # "idle", UNCHANGED <<family, lamp>>,
           ShownOK(shown'), Agreement(lamp, shown', agreed'), calls' = CallEnds(t, shown')
    PROVE  LightInv'
<1>1. /\ family \in LightKind /\ LampOK(lamp)
      /\ calls \in [LightTask -> CallType] /\ \A u \in LightTask : CallOK(lamp, calls[u])
  BY DEF LightInv
<1>2. /\ CallEnds(t, shown') \in [LightTask -> CallType]
      /\ \A u \in LightTask : CallOK(lamp, CallEnds(t, shown')[u])
  BY <1>1, EndsOK
<1>3. calls' \in [LightTask -> CallType] /\ \A u \in LightTask : CallOK(lamp, calls'[u])
  BY <1>2
<1> QED BY <1>3, LampStays

\* No transport takes the command.
LEMMA CallFailsOK ==
    ASSUME LightInv, NEW t \in LightTask, CallFails(t)
    PROVE  LightInv'
<1>1. /\ calls[t].pc # "idle" /\ agreed' = agreed /\ calls' = CallEnds(t, shown')
      /\ UNCHANGED <<family, lamp, shown>>
  BY DEF CallFails
<1>2. ShownOK(shown') /\ Agreement(lamp, shown', agreed')
  BY <1>1 DEF LightInv
<1> QED BY <1>1, <1>2, LightFinished

\* A bare receipt ends the call.
LEMMA CallReceiptOK ==
    ASSUME LightInv, NEW t \in LightTask, CallReceipt(t)
    PROVE  LightInv'
<1>1. /\ calls[t].pc # "idle" /\ agreed' = agreed /\ calls' = CallEnds(t, shown')
      /\ UNCHANGED <<family, lamp, shown>>
  BY DEF CallReceipt
<1>2. ShownOK(shown') /\ Agreement(lamp, shown', agreed')
  BY <1>1 DEF LightInv
<1> QED BY <1>1, <1>2, LightFinished

\* The optimistic write ends the call.
LEMMA CallSettlesOK ==
    ASSUME LightInv, NEW t \in LightTask, CallSettles(t)
    PROVE  LightInv'
<1> DEFINE r == calls[t].request
           s == OptimisticState(family, r, shown)
<1>1. /\ calls[t].pc # "idle" /\ shown' = s /\ agreed' = AgreedAfter(r)
      /\ calls' = CallEnds(t, shown') /\ UNCHANGED <<family, lamp>>
  BY DEF CallSettles
<1>2. RequestOK(r)
  BY <1>1, CallParts
<1>3. family \in LightKind /\ LampOK(lamp) /\ ShownOK(shown) /\ Agreement(lamp, shown, agreed)
  BY DEF LightInv
<1>4. ShownOK(s) /\ Agreement(lamp, s, AgreedAfter(r))
  BY <1>2, <1>3, WriteOK
<1> HIDE DEF s, r
<1>5. ShownOK(shown') /\ Agreement(lamp, shown', agreed')
  BY <1>1, <1>4
<1> QED BY <1>1, <1>5, LightFinished

\* The echo ends the call.
LEMMA CallEchoedOK ==
    ASSUME LightInv, NEW t \in LightTask, NEW sub \in BOOLEAN, CallEchoed(t, sub)
    PROVE  LightInv'
<1> DEFINE s == Parsed(family, lamp, LightFields, sub, shown)
<1>1. /\ calls[t].pc # "idle" /\ shown' = s /\ agreed' = Heard(LightFields)
      /\ calls' = CallEnds(t, shown') /\ UNCHANGED <<family, lamp>>
  BY DEF CallEchoed
<1>2. family \in LightKind /\ LampOK(lamp) /\ ShownOK(shown) /\ Agreement(lamp, shown, agreed)
  BY DEF LightInv
<1>3. LightFields \in SUBSET LightFields
  OBVIOUS
<1>4. ShownOK(s) /\ Agreement(lamp, s, Heard(LightFields))
  BY <1>2, <1>3, ReadOK
<1> HIDE DEF s
<1>5. ShownOK(shown') /\ Agreement(lamp, shown', agreed')
  BY <1>1, <1>4
<1> QED BY <1>1, <1>5, LightFinished

\* A push of the lamp.
LEMMA LightPushOK ==
    ASSUME LightInv, NEW fields \in SUBSET LightFields, NEW sub \in BOOLEAN,
           LightPush(fields, sub)
    PROVE  LightInv'
<1> DEFINE s == Parsed(family, lamp, fields, sub, shown)
<1>1. shown' = s /\ agreed' = Heard(fields) /\ UNCHANGED <<family, lamp, calls>>
  BY DEF LightPush
<1>2. /\ family \in LightKind /\ LampOK(lamp) /\ ShownOK(shown) /\ Agreement(lamp, shown, agreed)
      /\ calls \in [LightTask -> CallType] /\ \A u \in LightTask : CallOK(lamp, calls[u])
  BY DEF LightInv
<1>3. ShownOK(s) /\ Agreement(lamp, s, Heard(fields))
  BY <1>2, ReadOK
<1> HIDE DEF s
<1>4. ShownOK(shown') /\ Agreement(lamp, shown', agreed')
  BY <1>1, <1>3
<1> QED BY <1>1, <1>2, <1>4, LampStays

\* A row of the cloud table.
LEMMA LightSnapshotOK ==
    ASSUME LightInv, LightSnapshot
    PROVE  LightInv'
<1> DEFINE k == IF family = "zigbee" THEN Unset ELSE lamp.colour
<1>1. /\ family \in {"zigbee", "dim_color", "fast_move"}
      /\ shown' = [state |-> lamp.on, brightness |-> lamp.level, color_temp |-> k]
      /\ agreed' = {"level"} /\ UNCHANGED <<family, lamp, calls>>
  BY DEF LightSnapshot
<1>2. /\ lamp.on \in BOOLEAN /\ lamp.level \in Level /\ lamp.colour \in OwnColours(family)
      /\ calls \in [LightTask -> CallType] /\ \A u \in LightTask : CallOK(lamp, calls[u])
  BY DEF LightInv, LampOK
<1>3. k \in Temperature
  <2>1. Unset \in Temperature
    BY TemperatureIs DEF Unset
  <2>2. ASSUME family # "zigbee" PROVE lamp.colour \in Temperature
    <3>1. lamp.colour \in 153..370
      BY <1>1, <1>2, <2>2 DEF OwnColours
    <3>2. lamp.colour \in Int /\ -1 <= lamp.colour /\ lamp.colour <= 6500
      BY <3>1
    <3> QED BY <3>2, TemperatureIs
  <2> QED BY <2>1, <2>2
<1> HIDE DEF k
<1>4. ShownOK(shown')
  BY <1>1, <1>2, <1>3 DEF ShownOK
<1>5. Agreement(lamp, shown', agreed')
  <2>1. {"level"} \subseteq Stored(family)
    BY <1>1 DEF Stored, Power
  <2>2. shown'.brightness = lamp.level /\ "colour" \notin agreed'
    BY <1>1
  <2> QED BY <1>1, <2>1, <2>2 DEF Agreement
<1> QED BY <1>1, <1>2, <1>4, <1>5, LampStays

\* The wall control.
LEMMA DialledOK ==
    ASSUME LightInv,
           NEW l \in [on : BOOLEAN, level : LampLevels(family), colour : LampColours(family)],
           Dial(l)
    PROVE  LightInv'
<1>1. LampOK(l)
  BY DialOK
<1>2. /\ lamp' = l /\ agreed' = agreed \ Moved(lamp, l) /\ UNCHANGED <<family, shown>>
      /\ calls' = [u \in LightTask |-> Outdated(calls[u], l)]
  BY DEF Dial, LampBecomes
<1>3. ASSUME NEW u \in LightTask PROVE calls'[u] \in CallType /\ CallOK(l, calls'[u])
  <2>1. calls[u] \in CallType /\ CallOK(lamp, calls[u])
    BY DEF LightInv
  <2>2. Outdated(calls[u], l) \in CallType /\ CallOK(l, Outdated(calls[u], l))
    BY <2>1, StillOK
  <2> QED BY <1>2, <2>2
<1>4. calls' \in [LightTask -> CallType]
  BY <1>2, <1>3
<1> QED BY <1>1, <1>2, <1>3, <1>4, LampMoves

\* The initial states.
LEMMA LightStarts ==
    ASSUME LightInit
    PROVE  LightInv
<1>1. /\ family \in LightKind
      /\ lamp \in [on : BOOLEAN, level : LampLevels(family), colour : LampColours(family)]
      /\ shown = [state |-> FALSE, brightness |-> Unset, color_temp |-> Unset]
      /\ calls = [t \in LightTask |-> NoCall] /\ agreed = {}
  BY DEF LightInit
<1>2. LampOK(lamp)
  BY <1>1, DialOK
<1>3. Unset \in Level /\ Unset \in Temperature
  BY LevelIs, TemperatureIs DEF Unset
<1>4. ShownOK(shown)
  BY <1>1, <1>3 DEF ShownOK
<1>5. Agreement(lamp, shown, agreed)
  BY <1>1 DEF Agreement
<1>6. calls \in [LightTask -> CallType] /\ \A t \in LightTask : CallOK(lamp, calls[t])
  BY <1>1, IdleOK
<1> QED BY <1>1, <1>2, <1>4, <1>5, <1>6 DEF LightInv

\* The invariant is inductive.
LEMMA LightInductive ==
    ASSUME LightInv, [LightNext]_lightVars
    PROVE  LightInv'
<1>1. CASE \E t \in LightTask :
              \E r \in {q \in Requests(family) : q.action \in Actions(family)} : LightCall(t, r)
  BY <1>1, CallMade
<1>2. CASE \E t \in LightTask : LanDelivers(t) \/ CloudDelivers(t)
  BY <1>2, LanOK, CloudOK
<1>3. CASE \E t \in LightTask : FallBack(t) \/ CallFails(t) \/ CloudLoses(t)
  BY <1>3, FallBackOK, CallFailsOK, CloudLosesOK
<1>4. CASE \E t \in LightTask : CallSettles(t) \/ CallReceipt(t)
  BY <1>4, CallSettlesOK, CallReceiptOK
<1>5. CASE \E t \in LightTask, sub \in BOOLEAN : CallEchoed(t, sub)
  BY <1>5, CallEchoedOK
<1>6. CASE \E fields \in SUBSET LightFields \ {{}}, sub \in BOOLEAN : LightPush(fields, sub)
  BY <1>6, LightPushOK
<1>7. CASE LightSnapshot
  BY <1>7, LightSnapshotOK
<1>8. CASE \E l \in [on : BOOLEAN, level : LampLevels(family), colour : LampColours(family)] :
              Dial(l)
  BY <1>8, DialledOK
<1>9. CASE UNCHANGED lightVars
  <2>1. UNCHANGED <<family, lamp, shown, calls, agreed>>
    BY <1>9 DEF lightVars
  <2>2. /\ ShownOK(shown') /\ Agreement(lamp, shown', agreed')
        /\ calls' \in [LightTask -> CallType] /\ \A u \in LightTask : CallOK(lamp, calls'[u])
    BY <2>1 DEF LightInv
  <2> QED BY <2>1, <2>2, LampStays
<1> QED BY <1>1, <1>2, <1>3, <1>4, <1>5, <1>6, <1>7, <1>8, <1>9 DEF LightNext

(***************************************************************************)
(* Whatever the interleaving of commands, late packets, pushes, snapshots  *)
(* and the wall control, the store and the lamp stay in their ranges, what *)
(* the store was told and nobody moved since is what the lamp holds, and   *)
(* every packet under way names what its request asked for and repeats the *)
(* rest (light.py, the routes of control_router.py, packet.py).            *)
(***************************************************************************)
THEOREM LightInvariant == LightSpec => []LightInv
<1>1. LightInit => LightInv
  BY LightStarts
<1>2. LightInv /\ [LightNext]_lightVars => LightInv'
  BY LightInductive
<1> QED BY <1>1, <1>2, PTL DEF LightSpec

(***************************************************************************)
(* A delivered command does to a lamp of any family what was asked, for    *)
(* every brightness and colour temperature the entity can be given, and    *)
(* leaves alone what the store had been told of and nobody has moved since *)
(* (the routes, their defaults and both conversions, and                   *)
(* lan/control_adapter.py).                                                *)
(***************************************************************************)
THEOREM LampObeys == LightSpec => LampFollowsCommands
<1>1. LightInv => \A t \in LightTask : LanDelivers(t) \/ CloudDelivers(t) => Obeyed(t)
  BY LanOK, CloudOK
<1>2. LightInv => [\A t \in LightTask : LanDelivers(t) \/ CloudDelivers(t) => Obeyed(t)]_lightVars
  BY <1>1
<1> QED BY <1>2, LightInvariant, PTL DEF LampFollowsCommands

=============================================================================
