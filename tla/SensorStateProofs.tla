--------------------------- MODULE SensorStateProofs ---------------------------
(***************************************************************************)
(* Proofs about what a device shows between its reports: a detection       *)
(* always has its reset ahead, and a device that has reported is shown     *)
(* offline only when the cloud said so; for any devices, delays, windows   *)
(* and length of the run.                                                  *)
(***************************************************************************)
EXTENDS SensorState, TLAPS

\* The clock stays within the values a time field can hold.
InTime == now <= MaxTime

\* The runtime flag of a device that has reported, and the cloud's record.
Evidence ==
    \A d \in Device :
        /\ heard[d] => d \in present /\ (states[d]["online"] = 1 \/ denied[d])
        /\ states[d]["cloud_online"] \in {0, 1, NoValue}
        /\ states[d]["cloud_online"] = 0 => denied[d]

\* Only a snapshot writes another value than 1 into the flag, so whatever
\* a push left there is 1: a push the store refuses finds the 1 of another.
PushedOnline ==
    \A d \in Device :
        revisions[d]["online"].source \in {SSL, LAN} => d \in present /\ states[d]["online"] = 1

\* The inductive invariant.
SensorInv == SensorTypeOK /\ InTime /\ Evidence /\ PushedOnline /\ DetectionWillEnd

-----------------------------------------------------------------------------
(* The store's operations on these fields *)

\* The four fields, and the values the proofs compare.
LEMMA FieldFacts ==
    /\ "flag" \in Field /\ "online" \in Field
    /\ "cloud_online" \in Field /\ "cloud_online_time" \in Field
    /\ \A f \in Field : f \in {"flag", "online", "cloud_online", "cloud_online_time"}
    /\ 0 \in Value /\ 1 \in Value /\ NoValue # 0 /\ NoValue # 1
    /\ \A n \in 0 .. MaxTime : n \in Value
BY SensorAssumption, StoreAssumption

\* What merge leaves of one field: the value it was given or the one it had.
LEMMA MergedFacts ==
    ASSUME StoreTypeOK, NEW d \in Device, NEW values \in Fields, NEW source \in StateSource
    PROVE  LET s == MergedState(d, values, source, FALSE)
               r == MergedRevisions(d, values, source, FALSE)
           IN  /\ s \in Fields
               /\ r \in [Field -> FieldRevision \cup {NoRevision}]
               /\ \A f \in Field :
                     \/ /\ s[f] = values[f] /\ values[f] # NoValue
                        /\ r[f].source = source
                     \/ /\ s[f] = states[d][f] /\ r[f] = revisions[d][f]
                        /\ values[f] = NoValue \/ source < revisions[d][f].source
<1> DEFINE s == MergedState(d, values, source, FALSE)
           r == MergedRevisions(d, values, source, FALSE)
<1>1. [source |-> source, updated_at |-> now] \in FieldRevision
  BY DEF FieldRevision, StoreTypeOK
<1>2. states[d] \in Fields /\ revisions[d] \in [Field -> FieldRevision \cup {NoRevision}]
  BY DEF StoreTypeOK
<1>3. s \in Fields
  BY <1>2 DEF MergedState, Fields
<1>4. r \in [Field -> FieldRevision \cup {NoRevision}]
  BY <1>1, <1>2 DEF MergedRevisions
<1>5. ASSUME NEW f \in Field
      PROVE  \/ /\ s[f] = values[f] /\ values[f] # NoValue
                /\ r[f].source = source
             \/ /\ s[f] = states[d][f] /\ r[f] = revisions[d][f]
                /\ values[f] = NoValue \/ source < revisions[d][f].source
  <2>1. CASE f \in Accepted(d, values, source, FALSE)
    BY <2>1 DEF Accepted, MergedState, MergedRevisions, Carries
  <2>2. CASE f \notin Accepted(d, values, source, FALSE)
    <3>1. s[f] = states[d][f] /\ r[f] = revisions[d][f]
      BY <2>2 DEF MergedState, MergedRevisions
    <3>2. values[f] = NoValue \/ source < revisions[d][f].source
      BY <2>2 DEF Accepted, Carries, Guarded
    <3> QED BY <3>1, <3>2
  <2> QED BY <2>1, <2>2
<1> QED BY <1>3, <1>4, <1>5

-----------------------------------------------------------------------------
\* At the start nothing has been heard, and what is set counts as abandoned.
LEMMA InitSensor == Init => SensorInv
<1> SUFFICES ASSUME Init PROVE SensorInv
  OBVIOUS
<1>1. /\ present = Device /\ kind \in [Device -> Kind] /\ now = 0
      /\ states \in [Device -> Fields]
      /\ \A d \in Device : states[d]["cloud_online"] = NoValue
      /\ revisions = [d \in Device |-> [f \in Field |-> NoRevision]]
  BY DEF Init
<1>2. StoreTypeOK
  BY <1>1 DEF StoreTypeOK
<1>3. /\ lastPush = [d \in Device |-> Never] /\ timer = [d \in Device |-> Never]
      /\ starting = [d \in Device |-> 0] /\ gateway = [d \in Device |-> FALSE]
      /\ heard = [d \in Device |-> FALSE] /\ denied = [d \in Device |-> FALSE]
      /\ abandoned = [d \in Device |-> states[d]["flag"] = 1]
  BY DEF Init
<1>4. SensorTypeOK
  BY <1>1, <1>2, <1>3, SensorAssumption DEF SensorTypeOK
<1>5. InTime
  BY <1>1, SensorAssumption DEF InTime
<1>6. Evidence
  BY <1>1, <1>3, FieldFacts DEF Evidence
<1>7. PushedOnline
  BY <1>1, FieldFacts DEF PushedOnline, NoRevision, SSL, LAN, INITIAL
<1>8. DetectionWillEnd
  BY <1>3 DEF DetectionWillEnd, FlagSet
<1> QED BY <1>4, <1>5, <1>6, <1>7, <1>8 DEF SensorInv

(***************************************************************************)
(* A push: the runtime flag is 1 afterwards, whether the store took it or  *)
(* kept the 1 of a channel above; the cloud's record is as it was.         *)
(***************************************************************************)
LEMMA PushSensor ==
    ASSUME SensorInv, NEW d \in Device, NEW source \in Channel, NEW flag \in {0, 1, NoValue},
           Push(d, source, flag)
    PROVE  SensorInv'
<1>0. /\ SensorTypeOK /\ StoreTypeOK /\ InTime /\ Evidence /\ PushedOnline /\ DetectionWillEnd
  BY DEF SensorInv, SensorTypeOK
<1>1. /\ d \in present /\ flag \in FlagsOf(d) /\ starting[d] < MaxStarting
      /\ Merge(d, Candidate(d, flag), source, FALSE)
      /\ Reschedule(d, flag)
      /\ lastPush' = [lastPush EXCEPT ![d] = now]
      /\ heard' = [heard EXCEPT ![d] = TRUE]
      /\ abandoned' = [abandoned EXCEPT ![d] = AbandonedBy(d, flag)]
      /\ UNCHANGED <<now, kind, gateway, denied>>
  BY DEF Push
<1> DEFINE values == Candidate(d, flag)
           s == MergedState(d, values, source, FALSE)
           r == MergedRevisions(d, values, source, FALSE)
<1>2. source \in {SSL, LAN} /\ source \in StateSource
  BY SensorAssumption DEF StateSource
<1>3. states[d] \in Fields /\ revisions[d] \in [Field -> FieldRevision \cup {NoRevision}]
  BY <1>0 DEF StoreTypeOK
<1>4. /\ values \in Fields /\ values["online"] = 1
      /\ values["cloud_online"] = states[d]["cloud_online"]
      /\ values["flag"] = IF flag = NoValue THEN states[d]["flag"] ELSE flag
  BY <1>3, FieldFacts DEF Candidate, Fields
<1> HIDE DEF values
<1>5. /\ s \in Fields /\ r \in [Field -> FieldRevision \cup {NoRevision}]
      /\ \A f \in Field :
            \/ /\ s[f] = values[f] /\ values[f] # NoValue /\ r[f].source = source
            \/ /\ s[f] = states[d][f] /\ r[f] = revisions[d][f]
               /\ values[f] = NoValue \/ source < revisions[d][f].source
  BY <1>0, <1>2, <1>4, MergedFacts
<1>6. /\ present' = present \cup {d} /\ states' = [states EXCEPT ![d] = s]
      /\ revisions' = [revisions EXCEPT ![d] = r]
  BY <1>1 DEF Merge, values
<1> HIDE DEF s, r
<1>7. /\ states'[d] = s /\ revisions'[d] = r
      /\ \A e \in Device : e # d => states'[e] = states[e] /\ revisions'[e] = revisions[e]
  BY <1>0, <1>6 DEF StoreTypeOK
<1>8. s["online"] = 1
  <2>1. CASE s["online"] = values["online"]
    BY <1>4, <2>1
  <2>2. CASE /\ s["online"] = states[d]["online"]
             /\ values["online"] = NoValue \/ source < revisions[d]["online"].source
    <3>1. source < revisions[d]["online"].source
      BY <1>4, <2>2, FieldFacts
    <3>2. revisions[d]["online"] \in FieldRevision \cup {NoRevision}
      BY <1>3, FieldFacts
    <3>3. revisions[d]["online"].source \in StateSource \cup {INITIAL - 1}
      BY <3>2 DEF FieldRevision, NoRevision
    <3>4. revisions[d]["online"].source = LAN
      BY <1>2, <3>1, <3>3 DEF StateSource, SSL, LAN, CLOUD, OPTIMISTIC, INITIAL
    <3> QED BY <1>0, <2>2, <3>4 DEF PushedOnline
  <2> QED BY <1>5, <2>1, <2>2, FieldFacts
<1>9. s["cloud_online"] = states[d]["cloud_online"]
  BY <1>4, <1>5, FieldFacts
<1>10. Evidence'
  <2> SUFFICES ASSUME NEW e \in Device
               PROVE  /\ heard'[e] => e \in present' /\ (states'[e]["online"] = 1 \/ denied'[e])
                      /\ states'[e]["cloud_online"] \in {0, 1, NoValue}
                      /\ states'[e]["cloud_online"] = 0 => denied'[e]
    BY DEF Evidence
  <2>1. CASE e = d
    BY <1>0, <1>1, <1>6, <1>7, <1>8, <1>9, <2>1 DEF Evidence
  <2>2. CASE e # d
    BY <1>0, <1>1, <1>6, <1>7, <2>2 DEF Evidence, SensorTypeOK
  <2> QED BY <2>1, <2>2
<1>11. PushedOnline'
  BY <1>0, <1>6, <1>7, <1>8 DEF PushedOnline
<1>12. StoreTypeOK'
  BY <1>0, <1>1, <1>5, <1>6 DEF StoreTypeOK
<1>13. /\ timer' \in [Device -> Nat \cup {Never}] /\ starting' \in [Device -> 0 .. MaxStarting]
       /\ \A e \in Device : timer'[e] \in now .. (now + ResetDelay[kind[e]]) \cup {Never}
       /\ \A e \in Device : e # d => timer'[e] = timer[e] /\ starting'[e] = starting[e]
  <2>0. /\ now \in Nat /\ kind[d] \in Kind /\ ResetDelay[kind[d]] \in Nat \ {0}
        /\ timer \in [Device -> Nat \cup {Never}] /\ starting \in [Device -> 0 .. MaxStarting]
        /\ \A e \in Device : timer[e] \in now .. (now + ResetDelay[kind[e]]) \cup {Never}
        /\ MaxStarting \in Nat
    BY <1>0, SensorAssumption DEF SensorTypeOK, StoreTypeOK
  <2>1. CASE kind[d] = "lock"
    <3>1. /\ timer' = (IF flag = 1 THEN [timer EXCEPT ![d] = now + ResetDelay["lock"]]
                                   ELSE timer)
          /\ starting' = starting
      BY <1>1, <2>1 DEF Reschedule
    <3> QED BY <2>0, <2>1, <3>1
  <2>2. CASE kind[d] # "lock"
    <3>1. /\ timer' = (IF flag = 0 THEN [timer EXCEPT ![d] = Never] ELSE timer)
          /\ starting' = (IF flag = 1 THEN [starting EXCEPT ![d] = starting[d] + 1] ELSE starting)
      BY <1>1, <2>2 DEF Reschedule
    <3>2. starting[d] + 1 \in 0 .. MaxStarting
      BY <1>1, <2>0
    <3> QED BY <2>0, <3>1, <3>2
  <2> QED BY <2>1, <2>2
<1>14. SensorTypeOK'
  <2>1. AbandonedBy(d, flag) \in BOOLEAN
    BY DEF AbandonedBy
  <2>2. /\ lastPush' \in [Device -> 0 .. now \cup {Never}] /\ heard' \in [Device -> BOOLEAN]
        /\ abandoned' \in [Device -> BOOLEAN]
    BY <1>0, <1>1, <2>1 DEF SensorTypeOK, StoreTypeOK
  <2> QED BY <1>0, <1>1, <1>12, <1>13, <2>2 DEF SensorTypeOK
<1>15. DetectionWillEnd'
  <2> SUFFICES ASSUME NEW e \in Device, e \in present', states'[e]["flag"] = 1,
                      ~(starting'[e] > 0), timer'[e] = Never
               PROVE  abandoned'[e]
    BY DEF DetectionWillEnd, FlagSet
  <2>1. CASE e # d
    <3>1. abandoned'[e] = abandoned[e] /\ e \in present
      BY <1>0, <1>1, <1>6, <2>1 DEF SensorTypeOK
    <3> QED BY <1>0, <1>7, <1>13, <2>1, <3>1 DEF DetectionWillEnd, FlagSet
  <2>2. CASE e = d
    <3>1. starting'[d] = 0
      BY <1>13, <2>2, SensorAssumption
    <3>2. abandoned'[d] = AbandonedBy(d, flag)
      BY <1>0, <1>1 DEF SensorTypeOK
    <3>3. flag = 0 \/ abandoned[d]
      <4> SUFFICES ASSUME flag # 0 PROVE abandoned[d]
        OBVIOUS
      <4>0. /\ now \in Nat /\ starting \in [Device -> 0 .. MaxStarting] /\ kind[d] \in Kind
            /\ timer \in [Device -> Nat \cup {Never}] /\ ResetDelay[kind[d]] \in Nat
        BY <1>0, SensorAssumption DEF SensorTypeOK, StoreTypeOK
      <4>1. flag # 1
        <5>1. CASE kind[d] = "lock"
          <6>1. flag = 1 => timer'[d] = now + ResetDelay["lock"]
            BY <1>1, <4>0, <5>1 DEF Reschedule
          <6> QED BY <2>2, <4>0, <5>1, <6>1 DEF Never
        <5>2. CASE kind[d] # "lock"
          <6>1. flag = 1 => starting'[d] = starting[d] + 1
            BY <1>1, <4>0, <5>2 DEF Reschedule
          <6> QED BY <3>1, <4>0, <6>1
        <5> QED BY <5>1, <5>2
      <4>2. flag = NoValue
        BY <4>1
      <4>3. timer'[d] = timer[d] /\ starting'[d] = starting[d]
        BY <1>1, <4>1, <4>2, FieldFacts DEF Reschedule
      <4>4. s["flag"] = states[d]["flag"]
        BY <1>4, <1>5, <4>2, FieldFacts
      <4> QED BY <1>0, <1>1, <1>7, <2>2, <3>1, <4>3, <4>4 DEF DetectionWillEnd, FlagSet
    <3> QED BY <2>2, <3>1, <3>2, <3>3 DEF AbandonedBy
  <2> QED BY <2>1, <2>2
<1>16. InTime'
  BY <1>0, <1>1 DEF InTime
<1> QED BY <1>10, <1>11, <1>14, <1>15, <1>16 DEF SensorInv

\* The reset is armed, and it fires.
LEMMA ResetSensor ==
    ASSUME SensorInv, NEW d \in Device, ScheduleReset(d) \/ ResetFires(d)
    PROVE  SensorInv'
<1>0. /\ SensorTypeOK /\ StoreTypeOK /\ InTime /\ Evidence /\ PushedOnline /\ DetectionWillEnd
  BY DEF SensorInv, SensorTypeOK
<1>1. /\ now \in Nat /\ kind[d] \in Kind /\ ResetDelay[kind[d]] \in Nat
      /\ timer \in [Device -> Nat \cup {Never}] /\ starting \in [Device -> 0 .. MaxStarting]
      /\ \A e \in Device : timer[e] \in now .. (now + ResetDelay[kind[e]]) \cup {Never}
      /\ MaxStarting \in Nat
  BY <1>0, SensorAssumption DEF SensorTypeOK, StoreTypeOK
<1>2. CASE ScheduleReset(d)
  <2>1. /\ starting[d] > 0 /\ starting' = [starting EXCEPT ![d] = starting[d] - 1]
        /\ timer' = [timer EXCEPT ![d] = now + ResetDelay[kind[d]]]
        /\ UNCHANGED <<present, states, revisions, now, kind, lastPush, gateway, heard,
                       denied, abandoned>>
    BY <1>2 DEF ScheduleReset
  <2>2. starting[d] - 1 \in 0 .. MaxStarting
    BY <1>1, <2>1
  <2>3. SensorTypeOK'
    BY <1>0, <1>1, <2>1, <2>2 DEF SensorTypeOK, StoreTypeOK
  <2>4. timer'[d] # Never /\ \A e \in Device : e # d => /\ timer'[e] = timer[e]
                                                        /\ starting'[e] = starting[e]
    BY <1>1, <2>1 DEF Never
  <2>5. DetectionWillEnd'
    BY <1>0, <2>1, <2>4 DEF DetectionWillEnd, FlagSet
  <2>6. Evidence' /\ PushedOnline' /\ InTime'
    BY <1>0, <2>1 DEF Evidence, PushedOnline, InTime
  <2> QED BY <2>3, <2>5, <2>6 DEF SensorInv
<1>3. CASE ResetFires(d)
  <2>1. /\ timer' = [timer EXCEPT ![d] = Never]
        /\ states' = (IF FlagSet(d) THEN [states EXCEPT ![d]["flag"] = 0] ELSE states)
        /\ abandoned' = [abandoned EXCEPT ![d] = FALSE]
        /\ UNCHANGED <<present, revisions, now, kind, lastPush, starting, gateway, heard,
                       denied>>
    BY <1>3 DEF ResetFires
  <2>2. /\ states' \in [Device -> Fields]
        /\ \A e \in Device : /\ states'[e]["online"] = states[e]["online"]
                             /\ states'[e]["cloud_online"] = states[e]["cloud_online"]
                             /\ e # d => states'[e] = states[e]
        /\ d \in present => states'[d]["flag"] # 1
    <3>1. states \in [Device -> Fields]
      BY <1>0 DEF StoreTypeOK
    <3>2. CASE FlagSet(d)
      <4>1. states' = [states EXCEPT ![d] = [states[d] EXCEPT !["flag"] = 0]]
        BY <2>1, <3>2
      <4>2. [states[d] EXCEPT !["flag"] = 0] \in Fields
        BY <3>1, FieldFacts DEF Fields
      <4> QED BY <3>1, <4>1, <4>2, FieldFacts DEF Fields
    <3>3. CASE ~FlagSet(d)
      BY <2>1, <3>1, <3>3 DEF FlagSet
    <3> QED BY <3>2, <3>3
  <2>3. SensorTypeOK'
    BY <1>0, <1>1, <2>1, <2>2 DEF SensorTypeOK, StoreTypeOK
  <2>4. Evidence' /\ PushedOnline' /\ InTime'
    BY <1>0, <2>1, <2>2 DEF Evidence, PushedOnline, InTime
  <2>5. \A e \in Device : e # d => timer'[e] = timer[e] /\ abandoned'[e] = abandoned[e]
    BY <1>0, <2>1 DEF SensorTypeOK
  <2>6. DetectionWillEnd'
    <3> SUFFICES ASSUME NEW e \in Device, e \in present', states'[e]["flag"] = 1
                 PROVE  starting'[e] > 0 \/ timer'[e] # Never \/ abandoned'[e]
      BY DEF DetectionWillEnd, FlagSet
    <3>1. e # d /\ e \in present /\ states[e]["flag"] = 1
      BY <2>1, <2>2
    <3> QED BY <1>0, <2>1, <2>5, <3>1 DEF DetectionWillEnd, FlagSet
  <2> QED BY <2>3, <2>4, <2>6 DEF SensorInv
<1> QED BY <1>2, <1>3

\* A snapshot: whoever is written offline is denied by the same row.
LEMMA CloudSensor ==
    ASSUME SensorInv, NEW d \in Device, NEW row \in CloudRecord, MergeCloud(d, row)
    PROVE  SensorInv'
<1>0. /\ SensorTypeOK /\ StoreTypeOK /\ InTime /\ Evidence /\ PushedOnline /\ DetectionWillEnd
  BY DEF SensorInv, SensorTypeOK
<1>1. /\ denied' = [denied EXCEPT ![d] = denied[d] \/ row.online = 0]
      /\ UNCHANGED <<now, kind, lastPush, starting, timer, gateway, heard, abandoned>>
  BY DEF MergeCloud
<1> DEFINE values == CloudState(row)
           r == MergedRevisions(d, values, CLOUD, FALSE)
<1>2. row.online \in {0, 1, NoValue} /\ row.time \in 0 .. now \cup {NoValue}
  BY DEF CloudRecord
<1>3. row.time \in Value \cup {NoValue} /\ row.online \in Value \cup {NoValue}
  <2>1. now \in Nat /\ now <= MaxTime /\ MaxTime \in Nat
    BY <1>0, SensorAssumption DEF StoreTypeOK, InTime
  <2>2. \A n \in 0 .. now : n \in 0 .. MaxTime
    BY <2>1
  <2> QED BY <1>2, <2>2, FieldFacts
<1>4. /\ values \in Fields /\ values["flag"] = NoValue
      /\ values["online"] = row.online /\ values["cloud_online"] = row.online
  BY <1>3, FieldFacts DEF CloudState, Fields
<1>5. CLOUD \in StateSource
  BY DEF StateSource
<1> HIDE DEF values
\* Either way the dictionary keeps its flag, or is new and has none.
<1>6. PICK s \in Fields :
         /\ present' = present \cup {d} /\ states' = [states EXCEPT ![d] = s]
         /\ revisions' = [revisions EXCEPT ![d] = r]
         /\ r \in [Field -> FieldRevision \cup {NoRevision}]
         /\ IF d \in present THEN s["flag"] = states[d]["flag"] ELSE s["flag"] = NoValue
         /\ \/ s["online"] = states[d]["online"] /\ r["online"] = revisions[d]["online"]
            \/ s["online"] = row.online /\ r["online"].source = CLOUD /\ row.online # NoValue
            \/ d \notin present /\ r["online"] = revisions[d]["online"]
         /\ s["cloud_online"] \in {row.online, states[d]["cloud_online"], NoValue}
  <2> DEFINE m == MergedState(d, values, CLOUD, FALSE)
  <2>1. /\ m \in Fields /\ r \in [Field -> FieldRevision \cup {NoRevision}]
        /\ \A f \in Field :
              \/ m[f] = values[f] /\ values[f] # NoValue /\ r[f].source = CLOUD
              \/ m[f] = states[d][f] /\ r[f] = revisions[d][f]
    BY <1>0, <1>4, <1>5, MergedFacts
  <2>2. CASE d \in present
    <3>1. /\ present' = present \cup {d} /\ states' = [states EXCEPT ![d] = m]
          /\ revisions' = [revisions EXCEPT ![d] = r]
      BY <2>2 DEF MergeCloud, Merge, values
    <3> HIDE DEF m, r
    <3>2. /\ m["flag"] = states[d]["flag"]
          /\ \/ m["online"] = states[d]["online"] /\ r["online"] = revisions[d]["online"]
             \/ /\ m["online"] = row.online /\ r["online"].source = CLOUD
                /\ row.online # NoValue
          /\ m["cloud_online"] \in {row.online, states[d]["cloud_online"], NoValue}
      BY <1>4, <2>1, FieldFacts
    <3> QED BY <2>1, <2>2, <3>1, <3>2
  <2>3. CASE d \notin present
    <3> DEFINE initial == PeriodicInitialState(row)
               n == [f \in Field |-> IF Carries(values, f) THEN values[f] ELSE initial[f]]
    <3>1. /\ present' = present \cup {d} /\ states' = [states EXCEPT ![d] = n]
          /\ revisions' = [revisions EXCEPT ![d] = r]
      BY <2>3 DEF MergeCloud, values
    <3>2. initial \in Fields /\ initial["flag"] = NoValue /\ initial["cloud_online"] = NoValue
      BY <1>3, FieldFacts DEF PeriodicInitialState, Fields
    <3> HIDE DEF initial
    <3>3. n \in Fields
      BY <1>4, <3>2 DEF Fields
    <3>4. /\ n["flag"] = NoValue /\ n["cloud_online"] \in {row.online, NoValue}
          /\ values["online"] # NoValue => n["online"] = row.online
      BY <1>4, <3>2, FieldFacts DEF Carries
    <3> HIDE DEF n, r, m
    <3>5. \/ n["online"] = row.online /\ r["online"].source = CLOUD /\ row.online # NoValue
          \/ r["online"] = revisions[d]["online"]
      BY <1>4, <2>1, <3>4, FieldFacts
    <3> QED BY <2>1, <2>3, <3>1, <3>3, <3>4, <3>5
  <2> QED BY <2>2, <2>3
<1> HIDE DEF r
<1>7. /\ states'[d] = s /\ revisions'[d] = r
      /\ \A e \in Device : e # d => states'[e] = states[e] /\ revisions'[e] = revisions[e]
  BY <1>0, <1>6 DEF StoreTypeOK
<1>8. /\ denied'[d] = (denied[d] \/ row.online = 0)
      /\ \A e \in Device : e # d => denied'[e] = denied[e]
  BY <1>0, <1>1 DEF SensorTypeOK
<1>9. SensorTypeOK'
  <2>1. StoreTypeOK'
    BY <1>0, <1>1, <1>6 DEF StoreTypeOK
  <2>2. denied' \in [Device -> BOOLEAN]
    BY <1>0, <1>1 DEF SensorTypeOK
  <2> QED BY <1>0, <1>1, <2>1, <2>2 DEF SensorTypeOK
<1>10. Evidence'
  <2> SUFFICES ASSUME NEW e \in Device
               PROVE  /\ heard'[e] => e \in present' /\ (states'[e]["online"] = 1 \/ denied'[e])
                      /\ states'[e]["cloud_online"] \in {0, 1, NoValue}
                      /\ states'[e]["cloud_online"] = 0 => denied'[e]
    BY DEF Evidence
  <2>1. CASE e # d
    BY <1>0, <1>1, <1>6, <1>7, <1>8, <2>1 DEF Evidence
  <2>2. CASE e = d
    <3>1. s["cloud_online"] \in {0, 1, NoValue} /\ (s["cloud_online"] = 0 => denied'[d])
      BY <1>0, <1>2, <1>6, <1>8, FieldFacts DEF Evidence
    <3>2. heard[d] => s["online"] = 1 \/ denied'[d]
      <4> SUFFICES ASSUME heard[d] PROVE s["online"] = 1 \/ denied'[d]
        OBVIOUS
      <4>1. d \in present /\ (states[d]["online"] = 1 \/ denied[d])
        BY <1>0 DEF Evidence
      <4>2. CASE s["online"] = states[d]["online"]
        BY <1>8, <4>1, <4>2
      <4>3. CASE s["online"] = row.online /\ row.online # NoValue
        BY <1>2, <1>8, <4>3
      <4> QED BY <1>6, <4>1, <4>2, <4>3
    <3> QED BY <1>1, <1>6, <1>7, <2>2, <3>1, <3>2
  <2> QED BY <2>1, <2>2
<1>11. PushedOnline'
  <2> SUFFICES ASSUME NEW e \in Device, revisions'[e]["online"].source \in {SSL, LAN}
               PROVE  e \in present' /\ states'[e]["online"] = 1
    BY DEF PushedOnline
  <2>1. CASE e # d
    BY <1>0, <1>6, <1>7, <2>1 DEF PushedOnline
  <2>2. CASE e = d
    <3>1. r["online"].source # CLOUD
      BY <1>7, <2>2 DEF CLOUD, SSL, LAN
    <3> QED BY <1>0, <1>6, <1>7, <2>2, <3>1 DEF PushedOnline
  <2> QED BY <2>1, <2>2
<1>12. DetectionWillEnd'
  BY <1>0, <1>1, <1>6, <1>7, FieldFacts DEF DetectionWillEnd, FlagSet
<1>13. InTime'
  BY <1>0, <1>1 DEF InTime
<1> QED BY <1>9, <1>10, <1>11, <1>12, <1>13 DEF SensorInv

\* Removal, the gateway's session and the clock.
LEMMA OtherSensor ==
    ASSUME SensorInv, (\E d \in Device : Remove(d) \/ GatewayChanges(d)) \/ Tick
    PROVE  SensorInv'
<1>0. /\ SensorTypeOK /\ StoreTypeOK /\ InTime /\ Evidence /\ PushedOnline /\ DetectionWillEnd
  BY DEF SensorInv, SensorTypeOK
<1>1. ASSUME NEW d \in Device, Remove(d)
      PROVE  SensorInv'
  <2> DEFINE none == [f \in Field |-> NoRevision]
  <2>1. /\ d \in present /\ present' = present \ {d}
        /\ states' = [states EXCEPT ![d] = NoFields]
        /\ revisions' = [revisions EXCEPT ![d] = none]
        /\ heard' = [heard EXCEPT ![d] = FALSE]
        /\ denied' = [denied EXCEPT ![d] = FALSE]
        /\ abandoned' = [abandoned EXCEPT ![d] = FALSE]
        /\ UNCHANGED <<now, kind, lastPush, starting, timer, gateway>>
    BY <1>1 DEF Remove
  <2>2. /\ NoFields \in Fields /\ NoFields["cloud_online"] = NoValue
        /\ none \in [Field -> FieldRevision \cup {NoRevision}]
        /\ none["online"].source \notin {SSL, LAN}
    BY FieldFacts DEF NoFields, Fields, NoRevision, SSL, LAN, INITIAL
  <2> HIDE DEF none
  <2>3. StoreTypeOK'
    BY <1>0, <2>1, <2>2 DEF StoreTypeOK
  <2>4. SensorTypeOK'
    BY <1>0, <2>1, <2>3 DEF SensorTypeOK
  <2>5. /\ states'[d] = NoFields /\ revisions'[d] = none
        /\ heard'[d] = FALSE /\ denied'[d] = FALSE
        /\ \A e \in Device : e # d => /\ states'[e] = states[e] /\ revisions'[e] = revisions[e]
                                      /\ heard'[e] = heard[e] /\ denied'[e] = denied[e]
                                      /\ abandoned'[e] = abandoned[e]
    BY <1>0, <2>1 DEF SensorTypeOK, StoreTypeOK
  <2>6. Evidence'
    <3> SUFFICES ASSUME NEW e \in Device
                 PROVE  /\ heard'[e] => e \in present' /\ (states'[e]["online"] = 1 \/ denied'[e])
                        /\ states'[e]["cloud_online"] \in {0, 1, NoValue}
                        /\ states'[e]["cloud_online"] = 0 => denied'[e]
      BY DEF Evidence
    <3>1. CASE e = d
      BY <2>2, <2>5, <3>1, FieldFacts
    <3>2. CASE e # d
      BY <1>0, <2>1, <2>5, <3>2 DEF Evidence
    <3> QED BY <3>1, <3>2
  <2>7. PushedOnline'
    BY <1>0, <2>1, <2>2, <2>5 DEF PushedOnline
  <2>8. DetectionWillEnd'
    BY <1>0, <2>1, <2>5 DEF DetectionWillEnd, FlagSet
  <2>9. InTime'
    BY <1>0, <2>1 DEF InTime
  <2> QED BY <2>4, <2>6, <2>7, <2>8, <2>9 DEF SensorInv
<1>2. ASSUME NEW d \in Device, GatewayChanges(d)
      PROVE  SensorInv'
  <2>1. /\ gateway' = [gateway EXCEPT ![d] = ~gateway[d]]
        /\ UNCHANGED <<present, states, revisions, now, kind, lastPush, starting, timer,
                       heard, denied, abandoned>>
    BY <1>2 DEF GatewayChanges
  <2>2. gateway' \in [Device -> BOOLEAN]
    BY <1>0, <2>1 DEF SensorTypeOK
  <2>3. SensorTypeOK'
    BY <1>0, <2>1, <2>2 DEF SensorTypeOK, StoreTypeOK
  <2>4. Evidence' /\ PushedOnline' /\ DetectionWillEnd' /\ InTime'
    BY <1>0, <2>1 DEF Evidence, PushedOnline, DetectionWillEnd, FlagSet, InTime
  <2> QED BY <2>3, <2>4 DEF SensorInv
<1>3. CASE Tick
  <2>1. /\ now < MaxTime /\ now' = now + 1 /\ \A d \in Device : timer[d] # now
        /\ UNCHANGED <<present, states, revisions, kind, lastPush, starting, timer,
                       gateway, heard, denied, abandoned>>
    BY <1>3 DEF Tick
  <2>2. /\ now \in Nat /\ MaxTime \in Nat
        /\ \A d \in Device : /\ timer[d] \in now .. (now + ResetDelay[kind[d]]) \cup {Never}
                             /\ lastPush[d] \in 0 .. now \cup {Never}
                             /\ ResetDelay[kind[d]] \in Nat
    BY <1>0, SensorAssumption DEF SensorTypeOK, StoreTypeOK
  <2>3. \A d \in Device : /\ timer'[d] \in now' .. (now' + ResetDelay[kind'[d]]) \cup {Never}
                          /\ lastPush[d] \in 0 .. now' \cup {Never}
    BY <2>1, <2>2
  <2>4. lastPush' \in [Device -> 0 .. now' \cup {Never}]
    BY <1>0, <2>1, <2>3 DEF SensorTypeOK
  <2>5. SensorTypeOK'
    BY <1>0, <2>1, <2>2, <2>3, <2>4 DEF SensorTypeOK, StoreTypeOK
  <2>6. InTime'
    BY <2>1, <2>2 DEF InTime
  <2>7. Evidence' /\ PushedOnline' /\ DetectionWillEnd'
    BY <1>0, <2>1 DEF Evidence, PushedOnline, DetectionWillEnd, FlagSet
  <2> QED BY <2>5, <2>6, <2>7 DEF SensorInv
<1> QED BY <1>1, <1>2, <1>3

\* Every step keeps the invariant.
LEMMA NextSensor == SensorInv /\ [Next]_vars => SensorInv'
<1> SUFFICES ASSUME SensorInv, [Next]_vars PROVE SensorInv'
  OBVIOUS
<1>1. CASE UNCHANGED vars
  BY <1>1 DEF vars, SensorInv, SensorTypeOK, StoreTypeOK, InTime, Evidence, PushedOnline,
              DetectionWillEnd, FlagSet
<1>2. CASE Next
  BY <1>2, PushSensor, ResetSensor, CloudSensor, OtherSensor DEF Next
<1> QED BY <1>1, <1>2

\* The inductive invariant holds in every behaviour.
THEOREM SensorInvariant == Spec => []SensorInv
BY InitSensor, NextSensor, PTL DEF Spec

(***************************************************************************)
(* A set flag has its reset armed or about to be armed, unless it came     *)
(* with the first snapshot or the store refused its end.                   *)
(***************************************************************************)
THEOREM DetectionsEnd == Spec => []DetectionWillEnd
<1>1. SensorInv => DetectionWillEnd
  BY DEF SensorInv
<1> QED BY <1>1, SensorInvariant, PTL

(***************************************************************************)
(* _derive_online shows a device that has reported offline only when a     *)
(* snapshot said so: both the runtime flag and the cloud's record hold a 0 *)
(* only after such a row, whatever the order of pushes and snapshots.      *)
(***************************************************************************)
THEOREM OfflineIsTheCloudsWord == Spec => []OfflineOnlyOnCloudsWord
<1>1. ASSUME SensorInv PROVE OfflineOnlyOnCloudsWord
  <2> SUFFICES ASSUME NEW d \in present, heard[d], ~DeriveOnline(d) PROVE denied[d]
    BY DEF OfflineOnlyOnCloudsWord
  <2>1. d \in Device
    BY <1>1 DEF SensorInv, SensorTypeOK, StoreTypeOK
  <2>2. \/ states[d]["online"] # 1
        \/ states[d]["cloud_online"] # 1 /\ states[d]["cloud_online"] # NoValue
    BY DEF DeriveOnline, RecordFresh
  <2> QED BY <1>1, <2>1, <2>2 DEF SensorInv, Evidence
<1> QED BY <1>1, SensorInvariant, PTL

=============================================================================
