------------------------- MODULE GatewayManagerProofs -------------------------
(***************************************************************************)
(* Proofs that pushes are accepted only from proven or cloud-named         *)
(* endpoints and, as long as the reconciliation does not drop the record,  *)
(* that every live connection has an owner, at most one pushes and none    *)
(* survives close(); for any number of callers, endpoints and connections. *)
(***************************************************************************)
EXTENDS GatewayManager, FiniteSetTheorems, TLAPS

\* The types the argument needs.
Shape ==
    /\ current \in RecordId \cup {None}
    /\ record \in [RecordId -> [cloud_host : Host, active_host : Host,
                                connection : ConnId \cup {None}, miss_count : Nat]]
    /\ conn \in [ConnId -> Connection]
    /\ task \in [Task -> TaskState]
    /\ cloudHosts \subseteq Host

\* Every endpoint in a record as cloud_host was named by the cloud.
RecordsNamed == \A r \in RecordId : record[r].cloud_host \in cloudHosts

(***************************************************************************)
(* A task that connects owns a connection object, and when it would accept *)
(* an anonymous gateway, the endpoint is one the cloud named.              *)
(***************************************************************************)
ConnectsNamed ==
    \A t \in Task : task[t].pc = "connecting" =>
        /\ task[t].con \in ConnId
        /\ task[t].rec \in RecordId
        /\ task[t].missing_ok => conn[task[t].con].host \in cloudHosts

\* What a task holds while it closes, promotes or detaches.
HandsFull ==
    \A t \in Task :
        /\ task[t].pc \in {"closing", "discard", "after"} => task[t].con \in ConnId
        /\ task[t].pc \in {"closing", "promote", "detach"} => task[t].rec \in RecordId
        /\ task[t].pc = "promote" => task[t].host \in Host
        /\ task[t].pc = "connecting" => task[t].host \in Host

\* The inductive invariant.
TrustInv == Shape /\ RecordsNamed /\ ConnectsNamed /\ HandsFull /\ PushesOnlyTrusted

-----------------------------------------------------------------------------
\* The initial records name only the cloud's endpoint and nothing is up.
LEMMA InitTrust == Init => TrustInv
<1> SUFFICES ASSUME Init PROVE TrustInv
  OBVIOUS
<1>1. PICK h \in Host : /\ record = [r \in RecordId |-> NewRecord(h)]
                        /\ cloudHosts = {h}
                        /\ conn = [c \in ConnId |->
                              [state |-> "dead", host |-> h, pushes |-> FALSE,
                               identity_confirmed |-> FALSE]]
  BY DEF Init
<1>2. Idle \in TaskState /\ Idle.pc = "idle"
  BY DEF Idle, TaskState
<1>3. Shape
  BY <1>1, <1>2 DEF Init, Shape, NewRecord, Connection
<1>4. RecordsNamed
  BY <1>1 DEF RecordsNamed, NewRecord
<1>5. ConnectsNamed /\ HandsFull
  BY <1>2 DEF Init, ConnectsNamed, HandsFull
<1>6. PushesOnlyTrusted
  BY <1>1 DEF PushesOnlyTrusted
<1> QED BY <1>3, <1>4, <1>5, <1>6 DEF TrustInv

\* The connections, some of them closed.
SomeClosed(others) ==
    /\ others \in [ConnId -> Connection]
    /\ \A c \in ConnId : \/ others[c] = conn[c]
                         \/ others[c] = [conn[c] EXCEPT !.state = "dead"]

\* Opening a connection leaves the others' endpoints alone and hands the
\* opener an object whose endpoint is the one asked for.
LEMMA OpenTrust ==
    ASSUME TrustInv, NEW t \in Task, NEW r \in RecordId, NEW h \in Host,
           NEW push \in BOOLEAN, NEW missing_ok \in BOOLEAN,
           missing_ok => h \in cloudHosts,
           NEW others, SomeClosed(others),
           Open(t, r, h, push, missing_ok, others),
           UNCHANGED <<current, record, cloudHosts>>
    PROVE  TrustInv'
<1>0. /\ others \in [ConnId -> Connection]
      /\ \A c \in ConnId : \/ others[c] = conn[c]
                           \/ others[c] = [conn[c] EXCEPT !.state = "dead"]
  BY DEF SomeClosed
<1>1. PICK c \in FreeConn :
         /\ conn' = [others EXCEPT ![c] = [state |-> "connecting", host |-> h,
                                           pushes |-> push, identity_confirmed |-> FALSE]]
         /\ task' = [task EXCEPT ![t] = [pc |-> "connecting", rec |-> r, con |-> c,
                                         host |-> h, missing_ok |-> missing_ok]]
  BY DEF Open, Goto
<1>2. c \in ConnId /\ \A u \in Task : task[u].con # c
  BY DEF FreeConn
<1>3. Shape'
  BY <1>0, <1>1, <1>2 DEF TrustInv, Shape, Connection, TaskState
<1>4. RecordsNamed'
  BY DEF TrustInv, RecordsNamed
<1>5. ConnectsNamed'
  <2> SUFFICES ASSUME NEW u \in Task, task'[u].pc = "connecting"
               PROVE  /\ task'[u].con \in ConnId
                      /\ task'[u].rec \in RecordId
                      /\ task'[u].missing_ok => conn'[task'[u].con].host \in cloudHosts'
    BY DEF ConnectsNamed
  <2>1. CASE u = t
    BY <1>0, <1>1, <1>2, <2>1 DEF TrustInv, Shape
  <2>2. CASE u # t
    <3>1. task'[u] = task[u] /\ task[u].pc = "connecting"
      BY <1>1, <2>2 DEF TrustInv, Shape
    <3>2. task[u].con \in ConnId /\ task[u].con # c /\ task[u].rec \in RecordId
      BY <1>2, <3>1 DEF TrustInv, ConnectsNamed
    <3>3. conn'[task[u].con] = others[task[u].con]
      BY <1>0, <1>1, <3>2
    <3>4. conn'[task[u].con].host = conn[task[u].con].host
      BY <1>0, <3>2, <3>3 DEF TrustInv, Shape, Connection
    <3> QED BY <3>1, <3>2, <3>4 DEF TrustInv, ConnectsNamed
  <2> QED BY <2>1, <2>2
<1>6. HandsFull'
  BY <1>1, <1>2 DEF TrustInv, Shape, HandsFull
<1>7. PushesOnlyTrusted'
  <2> SUFFICES ASSUME NEW e \in ConnId, conn'[e].state = "up", conn'[e].pushes
               PROVE  conn'[e].identity_confirmed \/ conn'[e].host \in cloudHosts'
    BY DEF PushesOnlyTrusted
  <2>1. e # c
    BY <1>0, <1>1, <1>2
  <2>2. conn'[e] = others[e]
    BY <1>0, <1>1, <2>1
  <2>3. conn'[e] = conn[e]
    BY <1>0, <2>2 DEF TrustInv, Shape, Connection
  <2> QED BY <2>3 DEF TrustInv, PushesOnlyTrusted
<1> QED BY <1>3, <1>4, <1>5, <1>6, <1>7 DEF TrustInv

\* Closing a connection and moving one task to a state that connects to
\* nothing keeps the invariant.
LEMMA MoveTrust ==
    ASSUME TrustInv, NEW t \in Task, NEW ts \in TaskState,
           task' = [task EXCEPT ![t] = ts],
           ts.pc # "connecting",
           ts.pc \in {"closing", "discard", "after"} => ts.con \in ConnId,
           ts.pc \in {"closing", "promote", "detach"} => ts.rec \in RecordId,
           ts.pc = "promote" => ts.host \in Host,
           Shape', RecordsNamed', PushesOnlyTrusted',
           cloudHosts \subseteq cloudHosts',
           \A c \in ConnId : conn'[c].host = conn[c].host
    PROVE  TrustInv'
<1>1. ConnectsNamed'
  BY DEF TrustInv, Shape, ConnectsNamed
<1>2. HandsFull'
  BY DEF TrustInv, Shape, HandsFull
<1> QED BY <1>1, <1>2 DEF TrustInv

\* Letting one connection die keeps every endpoint and every proof of identity.
LEMMA KillTrust ==
    ASSUME TrustInv, NEW c \in ConnId, Kill(c), UNCHANGED <<current, cloudHosts>>,
           record' = record, task' \in [Task -> TaskState]
    PROVE  /\ Shape' /\ RecordsNamed' /\ PushesOnlyTrusted'
           /\ \A e \in ConnId : conn'[e].host = conn[e].host
<1>1. conn' = [conn EXCEPT ![c].state = "dead"]
  BY DEF Kill
<1>2. Shape'
  BY <1>1 DEF TrustInv, Shape, Connection
<1>3. RecordsNamed'
  BY DEF TrustInv, RecordsNamed
<1>4. PushesOnlyTrusted'
  BY <1>1 DEF TrustInv, Shape, PushesOnlyTrusted, Connection
<1>5. \A e \in ConnId : conn'[e].host = conn[e].host
  BY <1>1 DEF TrustInv, Shape, Connection
<1> QED BY <1>2, <1>3, <1>4, <1>5

\* A step that changes neither records nor connections but moves a task.
LEMMA GotoTrust ==
    ASSUME TrustInv, NEW t \in Task, NEW ts \in TaskState, Goto(t, ts),
           ts.pc # "connecting",
           ts.pc \in {"closing", "discard", "after"} => ts.con \in ConnId,
           ts.pc \in {"closing", "promote", "detach"} => ts.rec \in RecordId,
           ts.pc = "promote" => ts.host \in Host,
           UNCHANGED <<current, record, conn, cloudHosts>>
    PROVE  TrustInv'
<1>1. Shape' /\ RecordsNamed' /\ PushesOnlyTrusted'
  BY DEF TrustInv, Shape, RecordsNamed, PushesOnlyTrusted, Goto
<1> QED BY <1>1, MoveTrust DEF Goto

\* The states tasks are sent to.
LEMMA TaskStates ==
    /\ Idle \in TaskState /\ Idle.pc = "idle"
    /\ \A pc \in {"ensure", "reconnect", "broadcast", "pop", "done"} :
          [Idle EXCEPT !.pc = pc] \in TaskState /\ [Idle EXCEPT !.pc = pc].pc = pc
    /\ \A c \in ConnId : LET ts == [Idle EXCEPT !.pc = "after", !.con = c]
                          IN  ts \in TaskState /\ ts.pc = "after" /\ ts.con = c
    /\ \A r \in RecordId : LET ts == [Idle EXCEPT !.pc = "detach", !.rec = r]
                            IN  ts \in TaskState /\ ts.pc = "detach" /\ ts.rec = r
    /\ \A r \in RecordId, c \in ConnId :
          LET ts == [Idle EXCEPT !.pc = "closing", !.rec = r, !.con = c]
          IN  ts \in TaskState /\ ts.pc = "closing" /\ ts.rec = r /\ ts.con = c
    /\ \A r \in RecordId, h \in Host :
          LET ts == [Idle EXCEPT !.pc = "promote", !.rec = r, !.host = h]
          IN  ts \in TaskState /\ ts.pc = "promote" /\ ts.rec = r /\ ts.host = h
BY DEF Idle, TaskState

\* The callers of ensure() and reconnect().
LEMMA CallTrust ==
    ASSUME TrustInv, NEW t \in Task, Steps(t)
    PROVE  TrustInv'
<1>0. Shape /\ RecordsNamed /\ ConnectsNamed /\ HandsFull /\ PushesOnlyTrusted
  BY DEF TrustInv
<1>a. \A r \in RecordId : /\ record[r].active_host \in Host
                          /\ record[r].connection \in ConnId \cup {None}
                          /\ MissingUidAllowed(r) \in BOOLEAN
                          /\ MissingUidAllowed(r) => record[r].active_host \in cloudHosts
  BY <1>0 DEF Shape, RecordsNamed, MissingUidAllowed
<1>1. CASE CallEnter(t)
  <2>1. CASE CallReturns(t)
    BY <1>1, <2>1, TaskStates, GotoTrust DEF CallEnter
  <2>2. CASE ~CallReturns(t)
    <3>1. current \in RecordId
      BY <1>0, <2>2 DEF CallReturns, Shape
    <3>2. CASE record[current].connection # None
      <4>1. record[current].connection \in ConnId
        BY <1>a, <3>1, <3>2
      <4> DEFINE ts == [Idle EXCEPT !.pc = "closing", !.rec = current,
                                    !.con = record[current].connection]
      <4>2. Goto(t, ts) /\ UNCHANGED <<current, record, conn, cloudHosts>>
        BY <1>1, <2>2, <3>2 DEF CallEnter
      <4>3. /\ ts \in TaskState /\ ts.pc = "closing"
            /\ ts.rec \in RecordId /\ ts.con \in ConnId
        BY <3>1, <4>1 DEF Idle, TaskState
      <4> HIDE DEF ts
      <4> QED BY <4>2, <4>3, GotoTrust
    <3>3. CASE record[current].connection = None
      <4>1. Open(t, current, record[current].active_host, TRUE,
                 MissingUidAllowed(current), conn)
            /\ UNCHANGED <<current, record, cloudHosts>>
        BY <1>1, <2>2, <3>3 DEF CallEnter
      <4>2. SomeClosed(conn)
        BY <1>0 DEF Shape, SomeClosed
      <4> QED BY <1>a, <3>1, <4>1, <4>2, OpenTrust
    <3> QED BY <3>2, <3>3
  <2> QED BY <2>1, <2>2
<1>2. CASE CallOldClosed(t)
  <2>1. task[t].con \in ConnId /\ task[t].rec \in RecordId
    BY <1>0, <1>2 DEF CallOldClosed, HandsFull
  <2>2. CASE closed
    <3>1. Kill(task[t].con) /\ Goto(t, Idle) /\ UNCHANGED <<current, record, cloudHosts>>
      BY <1>2, <2>2 DEF CallOldClosed
    <3>2. task' \in [Task -> TaskState]
      BY <1>0, <3>1, TaskStates DEF Shape, Goto
    <3>3. /\ Shape' /\ RecordsNamed' /\ PushesOnlyTrusted'
          /\ \A e \in ConnId : conn'[e].host = conn[e].host
      BY <2>1, <3>1, <3>2, KillTrust
    <3> QED BY <3>1, <3>3, TaskStates, MoveTrust DEF Goto
  <2>3. CASE ~closed
    <3> DEFINE others == [conn EXCEPT ![task[t].con].state = "dead"]
    <3>1. Open(t, task[t].rec, record[task[t].rec].active_host, TRUE,
               MissingUidAllowed(task[t].rec), others)
          /\ UNCHANGED <<current, record, cloudHosts>>
      BY <1>2, <2>3 DEF CallOldClosed
    <3>2. SomeClosed(others)
      BY <1>0, <2>1 DEF Shape, SomeClosed, Connection
    <3> DEFINE h == record[task[t].rec].active_host
               allowed == MissingUidAllowed(task[t].rec)
    <3>3. h \in Host /\ allowed \in BOOLEAN /\ (allowed => h \in cloudHosts)
      BY <1>a, <2>1
    <3>4. Open(t, task[t].rec, h, TRUE, allowed, others)
      BY <3>1
    <3>5. UNCHANGED <<current, record, cloudHosts>>
      BY <3>1
    <3> HIDE DEF others, h, allowed
    <3> QED BY <2>1, <3>2, <3>3, <3>4, <3>5, OpenTrust
  <2> QED BY <2>2, <2>3
<1>3. ASSUME NEW confirmed \in BOOLEAN, CallConnected(t, confirmed)
      PROVE  TrustInv'
  <2>1. task[t].con \in ConnId /\ task[t].rec \in RecordId
        /\ (task[t].missing_ok => conn[task[t].con].host \in cloudHosts)
    BY <1>0, <1>3 DEF CallConnected, ConnectsNamed
  <2>2. conn' = [conn EXCEPT ![task[t].con].state = "up",
                             ![task[t].con].identity_confirmed = confirmed]
        /\ (confirmed \/ task[t].missing_ok)
        /\ UNCHANGED <<current, cloudHosts>>
    BY <1>3 DEF CallConnected
  <2>3. conn' \in [ConnId -> Connection] /\ \A c \in ConnId : conn'[c].host = conn[c].host
    BY <1>0, <2>1, <2>2 DEF Shape, Connection
  <2>4. PushesOnlyTrusted'
    BY <1>0, <2>1, <2>2 DEF Shape, PushesOnlyTrusted, Connection
  <2>5. CASE closed
    <3> DEFINE ts == [task[t] EXCEPT !.pc = "discard"]
    <3>1. ts \in TaskState /\ ts.pc = "discard" /\ ts.con \in ConnId
      BY <1>0, <2>1 DEF Shape, TaskState
    <3>2. task' = [task EXCEPT ![t] = ts] /\ record' = record
      BY <1>3, <2>5 DEF CallConnected, Goto
    <3> HIDE DEF ts
    <3>3. Shape' /\ RecordsNamed'
      BY <1>0, <2>2, <2>3, <3>1, <3>2 DEF Shape, RecordsNamed
    <3> QED BY <2>2, <2>3, <2>4, <3>1, <3>2, <3>3, MoveTrust
  <2>6. CASE ~closed
    <3>1. /\ record' = [record EXCEPT ![task[t].rec].connection = task[t].con]
          /\ task' = [task EXCEPT ![t] = Idle]
      BY <1>3, <2>6 DEF CallConnected, Goto
    <3>2. record' \in [RecordId -> [cloud_host : Host, active_host : Host,
                                    connection : ConnId \cup {None}, miss_count : Nat]]
          /\ \A r \in RecordId : record'[r].cloud_host = record[r].cloud_host
      BY <1>0, <2>1, <3>1 DEF Shape
    <3>3. task' \in [Task -> TaskState]
      BY <1>0, <3>1, TaskStates DEF Shape
    <3>4. Shape' /\ RecordsNamed'
      BY <1>0, <2>2, <2>3, <3>2, <3>3 DEF Shape, RecordsNamed
    <3>5. Idle \in TaskState /\ Idle.pc = "idle"
      BY TaskStates
    <3> QED BY <2>2, <2>3, <2>4, <3>1, <3>4, <3>5, MoveTrust
  <2> QED BY <2>5, <2>6
<1>4. CASE ConnectFails(t) \/ CloseReleased(t)
  <2>1. PICK ts \in TaskState : ts.pc \in {"idle", "done"} /\ Goto(t, ts)
    <3>1. CASE ConnectFails(t)
      BY <3>1, TaskStates DEF ConnectFails
    <3>2. CASE CloseReleased(t)
      <4> DEFINE ts == [Idle EXCEPT !.pc = IF t = "close" THEN "done" ELSE "idle"]
      <4>1. ts \in TaskState /\ ts.pc \in {"idle", "done"}
        BY DEF Idle, TaskState
      <4> QED BY <3>2, <4>1 DEF CloseReleased
    <3> QED BY <1>4, <3>1, <3>2
  <2>2. task[t].con \in ConnId /\ Kill(task[t].con) /\ UNCHANGED <<current, record, cloudHosts>>
    BY <1>0, <1>4 DEF ConnectFails, CloseReleased, HandsFull, ConnectsNamed
  <2>3. task' \in [Task -> TaskState]
    BY <1>0, <2>1 DEF Shape, Goto
  <2>4. /\ Shape' /\ RecordsNamed' /\ PushesOnlyTrusted'
        /\ \A e \in ConnId : conn'[e].host = conn[e].host
    BY <2>2, <2>3, KillTrust
  <2> QED BY <2>1, <2>2, <2>4, MoveTrust DEF Goto
<1> QED BY <1>1, <1>2, <1>3, <1>4 DEF Steps

\* The discovery loop: a candidate must prove the UID before it may push.
LEMMA DiscoverTrust ==
    ASSUME TrustInv, DiscoverStart \/ Discover
    PROVE  TrustInv'
<1>0. Shape /\ RecordsNamed /\ ConnectsNamed /\ HandsFull /\ PushesOnlyTrusted
  BY DEF TrustInv
<1>t. "discover" \in Task
  BY DEF Task
<1> DEFINE me == task["discover"]
<1>1. CASE DiscoverStart
  <2> DEFINE ts == [Idle EXCEPT !.pc = "broadcast"]
  <2>1. ts \in TaskState /\ ts.pc = "broadcast"
    BY DEF Idle, TaskState
  <2>2. Goto("discover", ts) /\ UNCHANGED <<current, record, conn, cloudHosts>>
    BY <1>1 DEF DiscoverStart
  <2> HIDE DEF ts
  <2> QED BY <1>t, <2>1, <2>2, GotoTrust
<1>2. ASSUME NEW h \in Host, DiscoverCandidate(h)
      PROVE  TrustInv'
  <2>1. CASE Goto("discover", Idle)
    <3>1. UNCHANGED <<current, record, conn, cloudHosts>>
      BY <1>2 DEF DiscoverCandidate
    <3> QED BY <1>t, <2>1, <3>1, TaskStates, GotoTrust
  <2>2. CASE ~Goto("discover", Idle)
    <3> DEFINE ts == [Idle EXCEPT !.pc = "promote", !.rec = current, !.host = h]
    <3>1. /\ Goto("discover", ts) /\ current # None
          /\ UNCHANGED <<current, record, conn, cloudHosts>>
      BY <1>2, <2>2 DEF DiscoverCandidate
    <3>2. current \in RecordId
      BY <1>0, <3>1 DEF Shape
    <3>3. /\ ts \in TaskState /\ ts.pc = "promote"
          /\ ts.rec \in RecordId /\ ts.host \in Host
      BY <3>2 DEF Idle, TaskState
    <3> HIDE DEF ts
    <3> QED BY <1>t, <3>1, <3>3, GotoTrust
  <2> QED BY <2>1, <2>2
<1>3. CASE DiscoverEnter
  <2>1. me.rec \in RecordId /\ me.host \in Host
    BY <1>0, <1>3, <1>t DEF DiscoverEnter, HandsFull
  <2>2. UNCHANGED <<current, record, cloudHosts>>
    BY <1>3 DEF DiscoverEnter
  <2>3. CASE closed
    <3>1. Goto("discover", Idle) /\ conn' = conn
      BY <1>3, <2>3 DEF DiscoverEnter
    <3> QED BY <1>t, <2>2, <3>1, TaskStates, GotoTrust
  <2>4. CASE ~closed
    <3>1. Open("discover", me.rec, me.host, FALSE, FALSE, conn)
      BY <1>3, <2>4 DEF DiscoverEnter
    <3>2. SomeClosed(conn)
      BY <1>0 DEF Shape, SomeClosed
    <3> QED BY <1>t, <2>1, <2>2, <3>1, <3>2, OpenTrust
  <2> QED BY <2>3, <2>4
<1>4. CASE DiscoverConnected
  <2>1. me.con \in ConnId /\ me.rec \in RecordId /\ me.host \in Host
    BY <1>0, <1>4, <1>t DEF DiscoverConnected, ConnectsNamed, HandsFull
  <2>2. UNCHANGED <<current, cloudHosts>>
    BY <1>4 DEF DiscoverConnected
  <2>3. PICK push \in BOOLEAN :
           conn' = [conn EXCEPT ![me.con].state = "up",
                                ![me.con].identity_confirmed = TRUE,
                                ![me.con].pushes = push]
    <3>1. CASE closed
      <4>1. conn[me.con].pushes \in BOOLEAN
        BY <1>0, <2>1 DEF Shape, Connection
      <4>2. conn' = [conn EXCEPT ![me.con].state = "up",
                                 ![me.con].identity_confirmed = TRUE]
        BY <1>4, <3>1 DEF DiscoverConnected
      <4>3. conn' = [conn EXCEPT ![me.con].state = "up",
                                 ![me.con].identity_confirmed = TRUE,
                                 ![me.con].pushes = conn[me.con].pushes]
        BY <1>0, <2>1, <4>2 DEF Shape, Connection
      <4> QED BY <4>1, <4>3
    <3>2. CASE ~closed
      BY <1>4, <3>2 DEF DiscoverConnected
    <3> QED BY <3>1, <3>2
  <2>4. conn' \in [ConnId -> Connection] /\ \A c \in ConnId : conn'[c].host = conn[c].host
    BY <1>0, <2>1, <2>3 DEF Shape, Connection
  <2>5. PushesOnlyTrusted'
    BY <1>0, <2>1, <2>2, <2>3 DEF Shape, PushesOnlyTrusted, Connection
  <2>6. CASE closed
    <3> DEFINE ts == [me EXCEPT !.pc = "discard"]
    <3>1. ts \in TaskState /\ ts.pc = "discard" /\ ts.con \in ConnId
      BY <1>0, <1>t, <2>1 DEF Shape, TaskState
    <3>2. task' = [task EXCEPT !["discover"] = ts] /\ record' = record
      BY <1>4, <2>6 DEF DiscoverConnected, Goto
    <3> HIDE DEF ts
    <3>3. Shape' /\ RecordsNamed'
      BY <1>0, <2>2, <2>4, <3>1, <3>2 DEF Shape, RecordsNamed
    <3> QED BY <1>t, <2>2, <2>4, <2>5, <3>1, <3>2, <3>3, MoveTrust
  <2>7. CASE ~closed
    <3> DEFINE previous == record[me.rec].connection
               ts == IF previous = None THEN Idle
                     ELSE [Idle EXCEPT !.pc = "after", !.con = previous]
    <3>1. previous \in ConnId \cup {None}
      BY <1>0, <2>1 DEF Shape
    <3>2. /\ ts \in TaskState /\ ts.pc \in {"idle", "after"}
          /\ ts.pc = "after" => ts.con \in ConnId
      BY <3>1 DEF Idle, TaskState
    <3>3. /\ record' = [record EXCEPT ![me.rec].connection = me.con,
                                      ![me.rec].active_host = me.host]
          /\ task' = [task EXCEPT !["discover"] = ts]
      BY <1>4, <2>7 DEF DiscoverConnected, Goto
    <3> HIDE DEF ts
    <3>4. /\ record' \in [RecordId -> [cloud_host : Host, active_host : Host,
                                       connection : ConnId \cup {None}, miss_count : Nat]]
          /\ \A r \in RecordId : record'[r].cloud_host = record[r].cloud_host
      BY <1>0, <2>1, <3>3 DEF Shape
    <3>5. task' \in [Task -> TaskState]
      BY <1>0, <3>2, <3>3 DEF Shape
    <3>6. Shape' /\ RecordsNamed'
      BY <1>0, <2>2, <2>4, <3>4, <3>5 DEF Shape, RecordsNamed
    <3> QED BY <1>t, <2>2, <2>4, <2>5, <3>2, <3>3, <3>6, MoveTrust
  <2> QED BY <2>6, <2>7
<1> QED BY <1>1, <1>2, <1>3, <1>4 DEF Discover

\* The snapshot reconciliation: the endpoint it names joins the history.
LEMMA SyncTrust ==
    ASSUME TrustInv, (\E h \in Host : SyncListed(h)) \/ SyncOmitted \/ SyncPop
    PROVE  TrustInv'
<1>0. Shape /\ RecordsNamed /\ ConnectsNamed /\ HandsFull /\ PushesOnlyTrusted
  BY DEF TrustInv
<1>t. "sync" \in Task
  BY DEF Task
<1>1. ASSUME NEW h \in Host, SyncListed(h)
      PROVE  TrustInv'
  <2>1. conn' = conn /\ task' = task /\ cloudHosts' = cloudHosts \cup {h}
    BY <1>1 DEF SyncListed
  <2>2. /\ current' \in RecordId \cup {None}
        /\ record' \in [RecordId -> [cloud_host : Host, active_host : Host,
                                     connection : ConnId \cup {None}, miss_count : Nat]]
        /\ \A r \in RecordId : record'[r].cloud_host \in {record[r].cloud_host, h}
    <3>1. CASE current = None
      <4>1. PICK r \in FreeRecord : /\ current' = r
                                    /\ record' = [record EXCEPT ![r] = NewRecord(h)]
        BY <1>1, <3>1 DEF SyncListed
      <4>2. r \in RecordId
        BY DEF FreeRecord
      <4> QED BY <1>0, <4>1, <4>2 DEF Shape, NewRecord
    <3>2. CASE current # None
      <4>1. current \in RecordId
        BY <1>0, <3>2 DEF Shape
      <4> DEFINE g == IF record[current].active_host = record[current].cloud_host
                        THEN h ELSE record[current].active_host
      <4>2. g \in Host
        BY <1>0, <4>1 DEF Shape
      <4>3. /\ current' = current
            /\ record' = [record EXCEPT ![current].miss_count = 0,
                                        ![current].cloud_host = h,
                                        ![current].active_host = g]
        BY <1>1, <3>2 DEF SyncListed
      <4> HIDE DEF g
      <4> QED BY <1>0, <4>1, <4>2, <4>3 DEF Shape
    <3> QED BY <3>1, <3>2
  <2>3. Shape'
    BY <1>0, <2>1, <2>2 DEF Shape
  <2>4. RecordsNamed'
    BY <1>0, <2>1, <2>2 DEF RecordsNamed
  <2>5. ConnectsNamed' /\ HandsFull'
    BY <1>0, <2>1 DEF ConnectsNamed, HandsFull
  <2>6. PushesOnlyTrusted'
    BY <1>0, <2>1 DEF PushesOnlyTrusted
  <2> QED BY <2>3, <2>4, <2>5, <2>6 DEF TrustInv
<1>2. CASE SyncOmitted
  <2> DEFINE ts == IF record[current].miss_count + 1 < MissTolerance THEN Idle
                   ELSE [Idle EXCEPT !.pc = "pop"]
  <2>1. ts \in TaskState /\ ts.pc \in {"idle", "pop"}
    BY DEF Idle, TaskState
  <2>2. /\ current \in RecordId /\ task' = [task EXCEPT !["sync"] = ts]
        /\ record' = [record EXCEPT ![current].miss_count = @ + 1]
        /\ UNCHANGED <<current, conn, cloudHosts>>
    BY <1>0, <1>2 DEF SyncOmitted, Shape, Goto
  <2> HIDE DEF ts
  <2>3. /\ record' \in [RecordId -> [cloud_host : Host, active_host : Host,
                                     connection : ConnId \cup {None}, miss_count : Nat]]
        /\ \A r \in RecordId : record'[r].cloud_host = record[r].cloud_host
    BY <1>0, <2>2 DEF Shape
  <2>4. task' \in [Task -> TaskState]
    BY <1>0, <2>1, <2>2 DEF Shape
  <2>5. Shape' /\ RecordsNamed' /\ PushesOnlyTrusted'
    BY <1>0, <2>2, <2>3, <2>4 DEF Shape, RecordsNamed, PushesOnlyTrusted
  <2> QED BY <1>t, <2>1, <2>2, <2>5, MoveTrust
<1>3. CASE SyncPop
  <2> DEFINE ts == IF current = None \/ record[current].connection = None THEN Idle
                   ELSE [Idle EXCEPT !.pc = "after", !.con = record[current].connection]
  <2>1. /\ ts \in TaskState /\ ts.pc \in {"idle", "after"}
        /\ ts.pc = "after" => ts.con \in ConnId
    BY <1>0 DEF Shape, Idle, TaskState
  <2>2. /\ task' = [task EXCEPT !["sync"] = ts] /\ current' = None
        /\ UNCHANGED <<record, conn, cloudHosts>>
    BY <1>3 DEF SyncPop, Goto
  <2> HIDE DEF ts
  <2>3. task' \in [Task -> TaskState]
    BY <1>0, <2>1, <2>2 DEF Shape
  <2>4. Shape' /\ RecordsNamed' /\ PushesOnlyTrusted'
    BY <1>0, <2>2, <2>3 DEF Shape, RecordsNamed, PushesOnlyTrusted
  <2> QED BY <1>t, <2>1, <2>2, <2>4, MoveTrust
<1> QED BY <1>1, <1>2, <1>3

\* close() only takes connections away.
LEMMA CloseTrust ==
    ASSUME TrustInv, CloseStart \/ CloseDetach
    PROVE  TrustInv'
<1>0. Shape /\ RecordsNamed /\ ConnectsNamed /\ HandsFull /\ PushesOnlyTrusted
  BY DEF TrustInv
<1>t. "close" \in Task
  BY DEF Task
<1>1. CASE CloseStart
  <2> DEFINE ts == IF current = None THEN [Idle EXCEPT !.pc = "done"]
                   ELSE [Idle EXCEPT !.pc = "detach", !.rec = current]
  <2>1. /\ ts \in TaskState /\ ts.pc \in {"done", "detach"}
        /\ ts.pc = "detach" => ts.rec \in RecordId
    BY <1>0 DEF Shape, Idle, TaskState
  <2>2. Goto("close", ts) /\ UNCHANGED <<current, record, conn, cloudHosts>>
    BY <1>1 DEF CloseStart
  <2> HIDE DEF ts
  <2> QED BY <1>t, <2>1, <2>2, GotoTrust
<1>2. CASE CloseDetach
  <2> DEFINE r == task["close"].rec
             ts == IF record[r].connection = None THEN [Idle EXCEPT !.pc = "done"]
                   ELSE [Idle EXCEPT !.pc = "after", !.con = record[r].connection]
  <2>1. r \in RecordId
    BY <1>0, <1>2, <1>t DEF CloseDetach, HandsFull
  <2>2. record[r].connection \in ConnId \cup {None}
    BY <1>0, <2>1 DEF Shape
  <2>3. /\ ts \in TaskState /\ ts.pc \in {"done", "after"}
        /\ ts.pc = "after" => ts.con \in ConnId
    BY <2>2 DEF Idle, TaskState
  <2>4. /\ record' = [record EXCEPT ![r].connection = None]
        /\ task' = [task EXCEPT !["close"] = ts]
        /\ UNCHANGED <<current, conn, cloudHosts>>
    BY <1>2 DEF CloseDetach, Goto
  <2> HIDE DEF ts
  <2>5. /\ record' \in [RecordId -> [cloud_host : Host, active_host : Host,
                                     connection : ConnId \cup {None}, miss_count : Nat]]
        /\ \A q \in RecordId : record'[q].cloud_host = record[q].cloud_host
    BY <1>0, <2>1, <2>4 DEF Shape
  <2>6. task' \in [Task -> TaskState]
    BY <1>0, <2>3, <2>4 DEF Shape
  <2>7. Shape' /\ RecordsNamed' /\ PushesOnlyTrusted'
    BY <1>0, <2>4, <2>5, <2>6 DEF Shape, RecordsNamed, PushesOnlyTrusted
  <2> QED BY <1>t, <2>3, <2>4, <2>7, MoveTrust
<1> QED BY <1>1, <1>2

\* Every step keeps the invariant.
LEMMA NextTrust == TrustInv /\ [Next]_vars => TrustInv'
<1> SUFFICES ASSUME TrustInv, [Next]_vars PROVE TrustInv'
  OBVIOUS
<1>1. ASSUME NEW t \in Caller, NEW pc \in {"ensure", "reconnect"}, CallStart(t, pc)
      PROVE  TrustInv'
  <2> DEFINE ts == [Idle EXCEPT !.pc = pc]
  <2>1. t \in Task /\ ts \in TaskState /\ ts.pc \in {"ensure", "reconnect"}
    BY <1>1 DEF Task, Idle, TaskState
  <2>2. Goto(t, ts) /\ UNCHANGED <<current, record, conn, cloudHosts>>
    BY <1>1 DEF CallStart
  <2> HIDE DEF ts
  <2> QED BY <2>1, <2>2, GotoTrust
<1>2. ASSUME NEW t \in Task, Progress(t)
      PROVE  TrustInv'
  BY <1>2, CallTrust, DiscoverTrust, SyncTrust, CloseTrust DEF Progress
<1>3. ASSUME NEW c \in ConnId, ConnectionLost(c)
      PROVE  TrustInv'
  <2>1. Kill(c) /\ UNCHANGED <<current, record, task, cloudHosts>>
    BY <1>3 DEF ConnectionLost
  <2>2. task' \in [Task -> TaskState]
    BY <2>1 DEF TrustInv, Shape
  <2>3. /\ Shape' /\ RecordsNamed' /\ PushesOnlyTrusted'
        /\ \A e \in ConnId : conn'[e].host = conn[e].host
    BY <2>1, <2>2, KillTrust
  <2>4. ConnectsNamed' /\ HandsFull'
    BY <2>1, <2>3 DEF TrustInv, ConnectsNamed, HandsFull
  <2> QED BY <2>3, <2>4 DEF TrustInv
<1>4. CASE UNCHANGED vars
  BY <1>4 DEF vars, TrustInv, Shape, RecordsNamed, ConnectsNamed, HandsFull, PushesOnlyTrusted
<1> QED BY <1>1, <1>2, <1>3, <1>4, DiscoverTrust, SyncTrust, CloseTrust DEF Next

(***************************************************************************)
(* Pushes are accepted only from proven or cloud-named endpoints.          *)
(***************************************************************************)
THEOREM TrustedPushes == Spec => []PushesOnlyTrusted
<1>1. Init => TrustInv
  BY InitTrust
<1>2. TrustInv /\ [Next]_vars => TrustInv'
  BY NextTrust
<1>3. TrustInv => PushesOnlyTrusted
  BY DEF TrustInv
<1> QED BY <1>1, <1>2, <1>3, PTL DEF Spec

-----------------------------------------------------------------------------
(* Ownership: who holds a live connection. *)

Working == {"closing", "connecting", "discard"}

\* What each kind of task can be doing.
Role(t) ==
    CASE t = "discover" -> {"idle", "broadcast", "promote", "connecting", "discard", "after"}
      [] t = "sync"     -> {"idle", "pop"}
      [] t = "close"    -> {"idle", "detach", "after", "done"}
      [] OTHER          -> {"idle", "ensure", "reconnect"} \cup Working

Roles == \A t \in Task : task[t].pc \in Role(t)

\* Only a task that connects or closes has a connection in its hands.
HandsEmpty ==
    \A t \in Task : task[t].pc \notin Working \cup {"after"} => task[t].con = None

\* A record in a task's hands is still the known one.
HandsCurrent == \A t \in Task : task[t].rec # None => task[t].rec = current

\* Whoever replaces the connection holds the lock of the UID.
Locked == \A t \in Task : task[t].pc \in Working => lock = t /\ task[t].rec # None

\* The connection a caller closes is the managed one ...
ClosingManaged == \A t \in Task : task[t].pc = "closing" => task[t].con = Managed

\* ... and it is dead before the caller's new connection can come up.
ConnectingQuiet ==
    \A t \in Caller : task[t].pc = "connecting" =>
        Managed = None \/ conn[Managed].state = "dead"

\* A candidate does not push before it is promoted.
CandidateSilent ==
    task["discover"].pc = "connecting" => ~conn[task["discover"].con].pushes

\* close() empties the record, and nobody fills it afterwards.
CloseEmpties ==
    /\ ~closed => task["close"].pc = "idle"
    /\ task["close"].pc \in {"after", "done"} => Managed = None

\* Every connection object that is not dead is managed or being worked on.
LiveOwned ==
    \A c \in ConnId : conn[c].state # "dead" =>
        \/ c = Managed
        \/ \E t \in Task : task[t].pc \in Working \cup {"after"} /\ task[t].con = c

\* The inductive invariant, as long as the record is not dropped.
OwnInv ==
    /\ TrustInv /\ Roles /\ HandsEmpty /\ HandsCurrent /\ Locked
    /\ ClosingManaged /\ ConnectingQuiet /\ CandidateSilent /\ CloseEmpties /\ LiveOwned

\* Nothing is known to be owned by a task at the start.
LEMMA InitOwn == Init => OwnInv
<1> SUFFICES ASSUME Init PROVE OwnInv
  OBVIOUS
<1>1. TrustInv
  BY InitTrust
<1>2. \A t \in Task : task[t].pc = "idle" /\ task[t].con = None /\ task[t].rec = None
  BY DEF Init, Idle
<1>3. Caller \subseteq Task /\ {"discover", "sync", "close"} \subseteq Task
  BY DEF Task
<1>4. \A c \in ConnId : conn[c].state = "dead"
  BY DEF Init
<1>5. ~closed
  BY DEF Init
<1> QED BY <1>1, <1>2, <1>3, <1>4, <1>5
        DEF OwnInv, Roles, Role, HandsEmpty, HandsCurrent, Locked, Working, ClosingManaged,
            ConnectingQuiet, CandidateSilent, CloseEmpties, LiveOwned

Holding == Working \cup {"after"}

(***************************************************************************)
(* One step of one task.  Either no other task holds the lock, and then no *)
(* other task connects or closes, or the step leaves alone what the holder *)
(* relies on; and whatever connection is live afterwards has an owner.     *)
(***************************************************************************)
LEMMA StepOwn ==
    ASSUME OwnInv, TrustInv', CloseEmpties', current' = current,
           NEW t \in Task, NEW ts \in TaskState, task' = [task EXCEPT ![t] = ts],
           ts.pc \in Role(t),
           \/ lock = None \/ lock = t
           \/ /\ lock' = lock /\ Managed' = Managed
              /\ \A c \in ConnId : /\ conn'[c].pushes => conn[c].pushes
                                   /\ conn[c].state = "dead" => conn'[c].state = "dead",
           ts.pc \notin Holding => ts.con = None,
           ts.rec # None => ts.rec = current,
           ts.pc \in Working => lock' = t /\ ts.rec # None,
           ts.pc = "closing" => ts.con = Managed',
           ts.pc = "connecting" /\ t \in Caller =>
              Managed' = None \/ conn'[Managed'].state = "dead",
           ts.pc = "connecting" /\ t = "discover" => ~conn'[ts.con].pushes,
           \A c \in ConnId : conn'[c].state # "dead" =>
              \/ c = Managed'
              \/ ts.pc \in Holding /\ ts.con = c
              \/ conn[c].state # "dead" /\ c # Managed /\ c # task[t].con
    PROVE  OwnInv'
<1>0. /\ TrustInv /\ Roles /\ HandsEmpty /\ HandsCurrent /\ Locked
      /\ ClosingManaged /\ ConnectingQuiet /\ CandidateSilent /\ CloseEmpties /\ LiveOwned
  BY DEF OwnInv
<1>1. task'[t] = ts /\ \A u \in Task : u # t => task'[u] = task[u]
  BY <1>0 DEF TrustInv, Shape
<1>2. \A u \in Task : u # t /\ task[u].pc \in Working =>
         /\ lock = u /\ lock' = lock /\ Managed' = Managed
         /\ \A c \in ConnId : /\ conn'[c].pushes => conn[c].pushes
                              /\ conn[c].state = "dead" => conn'[c].state = "dead"
  BY <1>0, ManagerAssumption DEF Locked
<1>3. Caller \subseteq Task /\ "discover" \in Task
  BY DEF Task
<1>4. Managed \in ConnId \cup {None}
  BY <1>0 DEF TrustInv, Shape, Managed
<1>r. Roles'
  BY <1>0, <1>1 DEF Roles
<1>5. HandsEmpty' /\ HandsCurrent'
  BY <1>0, <1>1 DEF HandsEmpty, HandsCurrent, Holding
<1>6. Locked'
  BY <1>0, <1>1, <1>2 DEF Locked
<1>7. ClosingManaged'
  BY <1>0, <1>1, <1>2 DEF ClosingManaged, Working
<1>8. ConnectingQuiet'
  BY <1>0, <1>1, <1>2, <1>3, <1>4 DEF ConnectingQuiet, Working
<1>9. CandidateSilent'
  <2>1. CASE t = "discover"
    BY <1>1, <2>1 DEF CandidateSilent
  <2>2. CASE t # "discover"
    <3> SUFFICES ASSUME task'["discover"].pc = "connecting"
                 PROVE  ~conn'[task'["discover"].con].pushes
      BY DEF CandidateSilent
    <3>1. task'["discover"] = task["discover"] /\ task["discover"].con \in ConnId
      BY <1>0, <1>1, <1>3, <2>2 DEF TrustInv, ConnectsNamed
    <3> QED BY <1>0, <1>2, <1>3, <2>2, <3>1 DEF CandidateSilent, Working
  <2> QED BY <2>1, <2>2
<1>10. LiveOwned'
  <2> SUFFICES ASSUME NEW c \in ConnId, conn'[c].state # "dead"
               PROVE  \/ c = Managed'
                      \/ \E u \in Task : task'[u].pc \in Holding /\ task'[u].con = c
    BY DEF LiveOwned, Holding
  <2>1. CASE ts.pc \in Holding /\ ts.con = c
    BY <1>1, <2>1
  <2>2. CASE conn[c].state # "dead" /\ c # Managed /\ c # task[t].con
    <3>1. PICK u \in Task : task[u].pc \in Holding /\ task[u].con = c
      BY <1>0, <2>2 DEF LiveOwned, Holding
    <3>2. task'[u] = task[u]
      BY <1>1, <2>2, <3>1
    <3> QED BY <3>1, <3>2
  <2> QED BY <2>1, <2>2
<1> QED BY <1>r, <1>5, <1>6, <1>7, <1>8, <1>9, <1>10 DEF OwnInv

\* Who can be at which point.
LEMMA RoleFacts ==
    /\ Caller \subseteq Task /\ {"discover", "sync", "close"} \subseteq Task
    /\ \A t \in Caller : t # "discover" /\ t # "sync" /\ t # "close"
    /\ \A t \in Task : t \in Caller \/ t = "discover" \/ t = "sync" \/ t = "close"
    /\ \A t \in Caller : Role(t) = {"idle", "ensure", "reconnect"} \cup Working
BY ManagerAssumption DEF Task, Role

\* A step that changes neither connections nor records and takes no lock,
\* of a task with nothing in its hands before and after.
LEMMA EmptyHandsOwn ==
    ASSUME OwnInv, TrustInv', NEW t \in Task, NEW ts \in TaskState, Goto(t, ts),
           ts.pc \in Role(t) \ Holding, ts.con = None,
           ts.rec # None => ts.rec = current,
           task[t].con = None, closed' \in {closed, TRUE}, t = "close" \/ closed' = closed,
           t = "close" => CloseEmpties',
           UNCHANGED <<current, record, conn, lock>>
    PROVE  OwnInv'
<1>1. Managed' = Managed
  BY DEF Managed
<1>2. TrustInv /\ LiveOwned /\ CloseEmpties
  BY DEF OwnInv
<1>3. task' = [task EXCEPT ![t] = ts]
  BY DEF Goto
<1>4. CloseEmpties'
  BY <1>1, <1>2, <1>3, RoleFacts DEF CloseEmpties, TrustInv, Shape
<1>5. \A c \in ConnId : conn'[c].state # "dead" =>
         c = Managed' \/ (conn[c].state # "dead" /\ c # Managed /\ c # task[t].con)
  BY <1>1, ManagerAssumption
<1> QED BY <1>1, <1>3, <1>4, <1>5, StepOwn DEF Holding, Working

\* A new connection: nobody referred to the object, so it becomes the opener's.
LEMMA OpenOwn ==
    ASSUME OwnInv, TrustInv', NEW t \in Task, t \in Caller \/ t = "discover",
           NEW h, NEW push \in BOOLEAN, NEW missing_ok, NEW others,
           t = "discover" => push = FALSE,
           SomeClosed(others),
           Open(t, current, h, push, missing_ok, others),
           current # None,
           UNCHANGED <<current, record, closed>>,
           lock = None \/ lock = t, lock' = t,
           t \in Caller => Managed = None \/ others[Managed].state = "dead",
           task[t].con = None \/ others[task[t].con].state = "dead"
    PROVE  OwnInv'
<1>1. PICK c \in FreeConn :
         /\ conn' = [others EXCEPT ![c] = [state |-> "connecting", host |-> h,
                                           pushes |-> push, identity_confirmed |-> FALSE]]
         /\ task' = [task EXCEPT ![t] = [pc |-> "connecting", rec |-> current, con |-> c,
                                         host |-> h, missing_ok |-> missing_ok]]
  BY DEF Open, Goto
<1> DEFINE ts == [pc |-> "connecting", rec |-> current, con |-> c, host |-> h,
                  missing_ok |-> missing_ok]
<1>0. TrustInv /\ LiveOwned /\ CloseEmpties /\ Shape /\ Shape'
  BY DEF OwnInv, TrustInv
<1>2. /\ c \in ConnId /\ conn[c].state = "dead"
      /\ \A r \in RecordId : record[r].connection # c
      /\ \A u \in Task : task[u].con # c
  BY DEF FreeConn
<1>3. Managed' = Managed /\ Managed \in ConnId \cup {None} /\ c # Managed
  BY <1>0, <1>2, ManagerAssumption DEF Managed, Shape
<1>4. ts \in TaskState
  BY <1>0, <1>1 DEF Shape
<1>5. /\ conn'[c].state = "connecting" /\ conn'[c].pushes = push
      /\ \A e \in ConnId : e # c => conn'[e] = others[e]
      /\ \A e \in ConnId : conn[e].state = "dead" => others[e].state = "dead"
  BY <1>0, <1>1, <1>2 DEF SomeClosed, Shape, Connection
<1>6. CloseEmpties'
  BY <1>0, <1>1, <1>3, RoleFacts DEF CloseEmpties, Shape
<1>7. ts.pc \in Role(t)
  BY RoleFacts DEF Role, Working
<1>8. t \in Caller => Managed' = None \/ conn'[Managed'].state = "dead"
  BY <1>3, <1>5
<1>9. t = "discover" => ~conn'[ts.con].pushes
  BY <1>5
<1>10. ASSUME NEW e \in ConnId, conn'[e].state # "dead"
       PROVE  \/ e = Managed'
              \/ ts.pc \in Holding /\ ts.con = e
              \/ conn[e].state # "dead" /\ e # Managed /\ e # task[t].con
  BY <1>2, <1>3, <1>5, <1>10, ManagerAssumption DEF Holding, Working
<1>11. task' = [task EXCEPT ![t] = ts]
  BY <1>1
<1>12. /\ ts.pc = "connecting" /\ ts.rec = current
       /\ ts.pc \in Holding /\ ts.pc \in Working
  BY DEF Holding, Working
<1> HIDE DEF ts
<1> QED BY <1>4, <1>6, <1>7, <1>8, <1>9, <1>10, <1>11, <1>12, StepOwn

\* A task closes the connection in its hands and comes to rest.
LEMMA ReleaseOwn ==
    ASSUME OwnInv, TrustInv', NEW t \in Task, NEW ts \in TaskState, Goto(t, ts),
           ts.pc \in Role(t) \ Holding, ts.con = None, ts.rec = None,
           task[t].con \in ConnId, Kill(task[t].con),
           lock' = lock \/ lock = t, t = "close" => CloseEmpties',
           UNCHANGED <<current, record, closed>>
    PROVE  OwnInv'
<1>0. TrustInv /\ Shape /\ LiveOwned /\ CloseEmpties
  BY DEF OwnInv, TrustInv
<1>1. Managed' = Managed
  BY DEF Managed
<1>2. task' = [task EXCEPT ![t] = ts] /\ conn' = [conn EXCEPT ![task[t].con].state = "dead"]
  BY DEF Goto, Kill
<1>3. \A c \in ConnId : /\ conn'[c].pushes => conn[c].pushes
                        /\ conn[c].state = "dead" => conn'[c].state = "dead"
                        /\ c # task[t].con => conn'[c] = conn[c]
                        /\ c = task[t].con => conn'[c].state = "dead"
  BY <1>0, <1>2 DEF Shape, Connection
<1>4. CloseEmpties'
  BY <1>0, <1>1, <1>2, RoleFacts DEF CloseEmpties, Shape
<1>5. ts.pc \notin Working /\ ts.pc \notin Holding /\ ts.pc # "closing" /\ ts.pc # "connecting"
  BY DEF Holding, Working
<1>6. \A c \in ConnId : conn'[c].state # "dead" =>
         c = Managed' \/ (conn[c].state # "dead" /\ c # Managed /\ c # task[t].con)
  BY <1>1, <1>3
<1>7. \/ lock = None \/ lock = t
      \/ /\ lock' = lock /\ Managed' = Managed
         /\ \A c \in ConnId : /\ conn'[c].pushes => conn[c].pushes
                              /\ conn[c].state = "dead" => conn'[c].state = "dead"
  BY <1>1, <1>3
<1> QED BY <1>2, <1>4, <1>5, <1>6, <1>7, StepOwn

\* The callers of ensure() and reconnect(), and everybody's releases.
LEMMA CallOwn ==
    ASSUME OwnInv, TrustInv', NEW t \in Task, Steps(t)
    PROVE  OwnInv'
<1>0. /\ TrustInv /\ Shape /\ HandsFull /\ ConnectsNamed
      /\ Roles /\ HandsEmpty /\ HandsCurrent /\ Locked
      /\ ClosingManaged /\ ConnectingQuiet /\ CandidateSilent /\ CloseEmpties /\ LiveOwned
  BY DEF OwnInv, TrustInv
<1>i. Idle \in TaskState /\ Idle.pc = "idle" /\ Idle.con = None /\ Idle.rec = None
  BY DEF Idle, TaskState
<1>r. \A u \in Task : "idle" \in Role(u)
  BY DEF Role
<1>h. "idle" \notin Holding /\ "done" \notin Holding
  BY DEF Holding, Working
<1>1. CASE CallEnter(t)
  <2>0. t \in Caller /\ task[t].con = None
    <3>1. task[t].pc \in {"ensure", "reconnect"}
      BY <1>1 DEF CallEnter
    <3> QED BY <1>0, <3>1, RoleFacts DEF Roles, Role, HandsEmpty, Holding, Working
  <2>1. CASE CallReturns(t)
    <3>1. Goto(t, Idle) /\ UNCHANGED <<current, record, conn, lock, closed>>
      BY <1>1, <2>1 DEF CallEnter
    <3> QED BY <1>i, <1>r, <1>h, <2>0, <3>1, RoleFacts, EmptyHandsOwn
  <2>2. CASE ~CallReturns(t)
    <3>1. current \in RecordId /\ ~closed /\ current # None
      BY <1>0, <2>2 DEF CallReturns, Shape
    <3>2. CASE record[current].connection # None
      <4> DEFINE ts == [Idle EXCEPT !.pc = "closing", !.rec = current,
                                    !.con = record[current].connection]
      <4>1. /\ ts \in TaskState /\ ts.pc = "closing" /\ ts.rec = current
            /\ ts.con = record[current].connection
        BY <1>0, <3>1 DEF Idle, TaskState, Shape
      <4>2. /\ task' = [task EXCEPT ![t] = ts]
            /\ lock = None /\ lock' = t
            /\ UNCHANGED <<current, record, conn, closed>>
        BY <1>1, <2>2, <3>2 DEF CallEnter, Goto
      <4> HIDE DEF ts
      <4>3. Managed' = Managed /\ Managed = record[current].connection
        BY <3>1, <4>2 DEF Managed
      <4>4. CloseEmpties'
        BY <1>0, <2>0, <4>2, <4>3, RoleFacts DEF CloseEmpties, Shape
      <4>5. ts.pc \in Role(t) /\ ts.pc \in Holding /\ ts.pc \in Working
        BY <2>0, <4>1, RoleFacts DEF Working, Holding
      <4>6. \A c \in ConnId : conn'[c].state # "dead" =>
               c = Managed' \/ (conn[c].state # "dead" /\ c # Managed /\ c # task[t].con)
        BY <2>0, <4>2, <4>3, ManagerAssumption
      <4> QED BY <3>1, <4>1, <4>2, <4>3, <4>4, <4>5, <4>6, StepOwn
    <3>3. CASE record[current].connection = None
      <4>1. /\ Open(t, current, record[current].active_host, TRUE,
                    MissingUidAllowed(current), conn)
            /\ lock = None /\ lock' = t
            /\ UNCHANGED <<current, record, closed>>
        BY <1>1, <2>2, <3>3 DEF CallEnter
      <4>2. SomeClosed(conn)
        BY <1>0 DEF Shape, SomeClosed
      <4>3. Managed = None
        BY <3>3 DEF Managed
      <4> QED BY <2>0, <3>1, <4>1, <4>2, <4>3, RoleFacts, OpenOwn
    <3> QED BY <3>2, <3>3
  <2> QED BY <2>1, <2>2
<1>2. CASE CallOldClosed(t)
  <2>0. /\ task[t].pc = "closing" /\ t \in Caller /\ lock = t
        /\ task[t].con \in ConnId /\ task[t].con = Managed
        /\ task[t].rec = current /\ current # None
    <3>1. task[t].pc = "closing"
      BY <1>2 DEF CallOldClosed
    <3>2. task[t].pc \in Working
      BY <3>1 DEF Working
    <3>3. t \in Caller
      BY <1>0, <3>1, RoleFacts DEF Roles, Role
    <3> QED BY <1>0, <3>1, <3>2, <3>3 DEF Locked, HandsFull, ClosingManaged, HandsCurrent
  <2>1. CASE closed
    <3>1. /\ Kill(task[t].con) /\ Goto(t, Idle) /\ lock' = None
          /\ UNCHANGED <<current, record, closed>>
      BY <1>2, <2>1 DEF CallOldClosed
    <3> QED BY <1>i, <1>r, <1>h, <2>0, <3>1, RoleFacts, ReleaseOwn
  <2>2. CASE ~closed
    <3> DEFINE others == [conn EXCEPT ![task[t].con].state = "dead"]
    <3>1. /\ Open(t, task[t].rec, record[task[t].rec].active_host, TRUE,
                  MissingUidAllowed(task[t].rec), others)
          /\ UNCHANGED <<current, record, lock, closed>>
      BY <1>2, <2>2 DEF CallOldClosed
    <3>2. SomeClosed(others) /\ others[task[t].con].state = "dead"
      BY <1>0, <2>0 DEF Shape, SomeClosed, Connection
    <3> DEFINE h == record[task[t].rec].active_host
               allowed == MissingUidAllowed(task[t].rec)
    <3>3. Open(t, current, h, TRUE, allowed, others)
      BY <2>0, <3>1
    <3>4. UNCHANGED <<current, record, closed>> /\ lock' = t
      BY <2>0, <3>1
    <3> HIDE DEF others, h, allowed
    <3> QED BY <2>0, <3>2, <3>3, <3>4, RoleFacts, OpenOwn
  <2> QED BY <2>1, <2>2
<1>3. ASSUME NEW confirmed \in BOOLEAN, CallConnected(t, confirmed)
      PROVE  OwnInv'
  <2>0. /\ task[t].pc = "connecting" /\ t \in Caller /\ lock = t
        /\ task[t].con \in ConnId /\ task[t].rec = current /\ current \in RecordId
        /\ current # None
        /\ Managed = None \/ conn[Managed].state = "dead"
    <3>1. task[t].pc = "connecting" /\ t \in Caller
      BY <1>3 DEF CallConnected
    <3>2. task[t].pc \in Working
      BY <3>1 DEF Working
    <3> QED BY <1>0, <3>1, <3>2, ManagerAssumption
            DEF Locked, ConnectsNamed, HandsCurrent, ConnectingQuiet
  <2>1. /\ conn' = [conn EXCEPT ![task[t].con].state = "up",
                                ![task[t].con].identity_confirmed = confirmed]
        /\ UNCHANGED <<current, closed>>
    BY <1>3 DEF CallConnected
  <2>2. \A c \in ConnId : c # task[t].con => conn'[c] = conn[c]
    BY <1>0, <2>0, <2>1 DEF Shape
  <2>3. CASE closed
    <3> DEFINE ts == [task[t] EXCEPT !.pc = "discard"]
    <3>1. /\ ts \in TaskState /\ ts.pc = "discard" /\ ts.con = task[t].con
          /\ ts.rec = current
      BY <1>0, <2>0 DEF Shape, TaskState
    <3>2. task' = [task EXCEPT ![t] = ts] /\ record' = record /\ lock' = t
      BY <1>3, <2>0, <2>3 DEF CallConnected, Goto
    <3> HIDE DEF ts
    <3>3. Managed' = Managed
      BY <2>1, <3>2 DEF Managed
    <3>4. CloseEmpties'
      BY <1>0, <2>0, <2>1, <3>2, <3>3, RoleFacts DEF CloseEmpties, Shape
    <3>5. ts.pc \in Role(t) /\ ts.pc \in Holding /\ ts.pc \in Working
      BY <2>0, <3>1, RoleFacts DEF Working, Holding
    <3>6. \A c \in ConnId : conn'[c].state # "dead" =>
             \/ c = Managed'
             \/ ts.pc \in Holding /\ ts.con = c
             \/ conn[c].state # "dead" /\ c # Managed /\ c # task[t].con
      BY <2>2, <3>1, <3>3, <3>5
    <3> QED BY <2>0, <2>1, <3>1, <3>2, <3>4, <3>5, <3>6, StepOwn
  <2>4. CASE ~closed
    <3>1. /\ record' = [record EXCEPT ![task[t].rec].connection = task[t].con]
          /\ task' = [task EXCEPT ![t] = Idle]
      BY <1>3, <2>4 DEF CallConnected, Goto
    <3>2. Managed' = task[t].con
      BY <1>0, <2>0, <2>1, <3>1 DEF Managed, Shape
    <3>3. CloseEmpties'
      BY <1>0, <2>0, <2>1, <2>4, <3>1, RoleFacts DEF CloseEmpties, Shape
    <3>4. Idle.pc \in Role(t) /\ Idle.pc \notin Working
      BY <1>i, <1>r DEF Working
    <3>5. \A c \in ConnId : conn'[c].state # "dead" =>
             c = Managed' \/ (conn[c].state # "dead" /\ c # Managed /\ c # task[t].con)
      BY <2>0, <2>2, <3>2, ManagerAssumption
    <3> QED BY <1>i, <2>0, <2>1, <3>1, <3>3, <3>4, <3>5, StepOwn
  <2> QED BY <2>3, <2>4
<1>4. CASE ConnectFails(t)
  <2>1. task[t].pc \in {"connecting", "discard"}
    BY <1>4 DEF ConnectFails
  <2>2. lock = t /\ task[t].con \in ConnId /\ t # "close"
    BY <1>0, <2>1 DEF Locked, Working, ConnectsNamed, HandsFull, Roles, Role
  <2>3. Kill(task[t].con) /\ Goto(t, Idle) /\ UNCHANGED <<current, record, closed>>
    BY <1>4 DEF ConnectFails
  <2> QED BY <1>i, <1>r, <1>h, <2>2, <2>3, ReleaseOwn
<1>5. CASE CloseReleased(t)
  <2> DEFINE ts == [Idle EXCEPT !.pc = IF t = "close" THEN "done" ELSE "idle"]
  <2>1. /\ ts \in TaskState /\ ts.con = None /\ ts.rec = None
        /\ ts.pc = IF t = "close" THEN "done" ELSE "idle"
    BY DEF Idle, TaskState
  <2>2. ts.pc \in Role(t) \ Holding
    BY <1>r, <1>h, <2>1 DEF Role
  <2>3. task[t].pc = "after" /\ task[t].con \in ConnId
    BY <1>0, <1>5 DEF CloseReleased, HandsFull
  <2>4. Kill(task[t].con) /\ Goto(t, ts) /\ UNCHANGED <<current, record, lock, closed>>
    BY <1>5 DEF CloseReleased
  <2> HIDE DEF ts
  <2>5. t = "close" => CloseEmpties'
    <3> SUFFICES ASSUME t = "close" PROVE CloseEmpties'
      OBVIOUS
    <3>1. Managed = None /\ closed
      BY <1>0, <2>3 DEF CloseEmpties
    <3>2. Managed' = Managed /\ closed' = closed
      BY <2>4 DEF Managed
    <3> QED BY <3>1, <3>2, <1>0 DEF CloseEmpties, Shape
  <2> QED BY <2>1, <2>2, <2>3, <2>4, <2>5, ReleaseOwn
<1> QED BY <1>1, <1>2, <1>3, <1>4, <1>5 DEF Steps

\* The discovery loop: what it replaces stays in its hands until it is closed.
LEMMA DiscoverOwn ==
    ASSUME OwnInv, TrustInv', DiscoverStart \/ Discover
    PROVE  OwnInv'
<1>0. /\ TrustInv /\ Shape /\ HandsFull /\ ConnectsNamed
      /\ Roles /\ HandsEmpty /\ HandsCurrent /\ Locked
      /\ ClosingManaged /\ ConnectingQuiet /\ CandidateSilent /\ CloseEmpties /\ LiveOwned
  BY DEF OwnInv, TrustInv
<1>t. "discover" \in Task /\ "discover" # "close" /\ "discover" \notin Caller
  BY RoleFacts
<1>i. Idle \in TaskState /\ Idle.pc = "idle" /\ Idle.con = None /\ Idle.rec = None
  BY DEF Idle, TaskState
<1>r. Role("discover") = {"idle", "broadcast", "promote", "connecting", "discard", "after"}
  BY DEF Role
<1>h. Holding = {"closing", "connecting", "discard", "after"}
  BY DEF Holding, Working
<1> DEFINE me == task["discover"]
<1>1. CASE DiscoverStart
  <2> DEFINE ts == [Idle EXCEPT !.pc = "broadcast"]
  <2>1. ts \in TaskState /\ ts.pc = "broadcast" /\ ts.con = None /\ ts.rec = None
    BY DEF Idle, TaskState
  <2>2. Goto("discover", ts) /\ UNCHANGED <<current, record, conn, lock, closed>>
        /\ me.pc = "idle"
    BY <1>1 DEF DiscoverStart
  <2> HIDE DEF ts
  <2>3. me.con = None
    BY <1>0, <1>t, <2>2 DEF HandsEmpty, Working
  <2> QED BY <1>t, <1>r, <1>h, <2>1, <2>2, <2>3, EmptyHandsOwn
<1>2. ASSUME NEW h \in Host, DiscoverCandidate(h)
      PROVE  OwnInv'
  <2> DEFINE promoted == [Idle EXCEPT !.pc = "promote", !.rec = current, !.host = h]
  <2>1. PICK ts \in {Idle, promoted} : Goto("discover", ts)
    BY <1>2 DEF DiscoverCandidate
  <2>2. /\ ts \in TaskState /\ ts.pc \in {"idle", "promote"} /\ ts.con = None
        /\ ts.rec # None => ts.rec = current
    BY <1>0, <1>i, <2>1 DEF Idle, TaskState, Shape
  <2>3. UNCHANGED <<current, record, conn, lock, closed>> /\ me.pc = "broadcast"
    BY <1>2 DEF DiscoverCandidate
  <2>4. me.con = None
    BY <1>0, <1>t, <2>3 DEF HandsEmpty, Working
  <2> HIDE DEF promoted
  <2> QED BY <1>t, <1>r, <1>h, <2>1, <2>2, <2>3, <2>4, EmptyHandsOwn
<1>3. CASE DiscoverEnter
  <2>0. me.pc = "promote" /\ lock = None /\ UNCHANGED <<current, record, closed>>
    BY <1>3 DEF DiscoverEnter
  <2>1. me.con = None /\ me.rec = current /\ current # None
    BY <1>0, <1>t, <2>0, ManagerAssumption DEF HandsEmpty, Working, HandsFull, HandsCurrent
  <2>2. CASE closed
    <3>1. Goto("discover", Idle) /\ UNCHANGED <<conn, lock>>
      BY <1>3, <2>2 DEF DiscoverEnter
    <3> QED BY <1>i, <1>t, <1>r, <1>h, <2>0, <2>1, <3>1, EmptyHandsOwn
  <2>3. CASE ~closed
    <3>1. Open("discover", me.rec, me.host, FALSE, FALSE, conn) /\ lock' = "discover"
      BY <1>3, <2>3 DEF DiscoverEnter
    <3>2. SomeClosed(conn)
      BY <1>0 DEF Shape, SomeClosed
    <3> QED BY <1>t, <2>0, <2>1, <3>1, <3>2, OpenOwn
  <2> QED BY <2>2, <2>3
<1>4. CASE DiscoverConnected
  <2>0. me.pc = "connecting" /\ UNCHANGED <<current, closed>>
    BY <1>4 DEF DiscoverConnected
  <2>1. /\ lock = "discover" /\ me.con \in ConnId /\ me.rec = current
        /\ current \in RecordId /\ current # None
    BY <1>0, <1>t, <2>0, ManagerAssumption DEF Locked, Working, ConnectsNamed, HandsCurrent
  <2>2. CASE closed
    <3> DEFINE ts == [me EXCEPT !.pc = "discard"]
    <3>1. /\ ts \in TaskState /\ ts.pc = "discard" /\ ts.con = me.con /\ ts.rec = current
      BY <1>0, <1>t, <2>1 DEF Shape, TaskState
    <3>2. /\ conn' = [conn EXCEPT ![me.con].state = "up", ![me.con].identity_confirmed = TRUE]
          /\ task' = [task EXCEPT !["discover"] = ts] /\ record' = record /\ lock' = lock
      BY <1>4, <2>2 DEF DiscoverConnected, Goto
    <3> HIDE DEF ts
    <3>3. Managed' = Managed
      BY <2>0, <3>2 DEF Managed
    <3>4. CloseEmpties'
      BY <1>0, <1>t, <2>0, <3>2, <3>3 DEF CloseEmpties, Shape
    <3>5. \A c \in ConnId : c # me.con => conn'[c] = conn[c]
      BY <1>0, <2>1, <3>2 DEF Shape
    <3>6. \A c \in ConnId : conn'[c].state # "dead" =>
             \/ c = Managed'
             \/ ts.pc \in Holding /\ ts.con = c
             \/ conn[c].state # "dead" /\ c # Managed /\ c # task["discover"].con
      BY <1>h, <3>1, <3>3, <3>5
    <3> QED BY <1>t, <1>r, <1>h, <2>0, <2>1, <3>1, <3>2, <3>4, <3>6, StepOwn DEF Working
  <2>3. CASE ~closed
    <3> DEFINE previous == record[me.rec].connection
               ts == IF previous = None THEN Idle
                     ELSE [Idle EXCEPT !.pc = "after", !.con = previous]
    <3>1. previous = Managed /\ Managed \in ConnId \cup {None}
      BY <1>0, <2>1 DEF Managed, Shape
    <3>2. /\ ts \in TaskState /\ ts.pc \in {"idle", "after"} /\ ts.rec = None
          /\ ts.pc = "idle" => ts.con = None /\ Managed = None
          /\ ts.pc = "after" => ts.con = Managed
      BY <3>1 DEF Idle, TaskState
    <3>3. /\ conn' = [conn EXCEPT ![me.con].state = "up", ![me.con].identity_confirmed = TRUE,
                                  ![me.con].pushes = TRUE]
          /\ record' = [record EXCEPT ![me.rec].connection = me.con,
                                      ![me.rec].active_host = me.host]
          /\ task' = [task EXCEPT !["discover"] = ts]
      BY <1>4, <2>3 DEF DiscoverConnected, Goto
    <3> HIDE DEF ts
    <3>4. Managed' = me.con
      BY <1>0, <2>0, <2>1, <3>3 DEF Managed, Shape
    <3>5. CloseEmpties'
      BY <1>0, <1>t, <2>0, <2>3, <3>3 DEF CloseEmpties, Shape
    <3>6. \A c \in ConnId : c # me.con => conn'[c] = conn[c]
      BY <1>0, <2>1, <3>3 DEF Shape
    <3>7. \A c \in ConnId : conn'[c].state # "dead" =>
             \/ c = Managed'
             \/ ts.pc \in Holding /\ ts.con = c
             \/ conn[c].state # "dead" /\ c # Managed /\ c # task["discover"].con
      BY <1>h, <3>2, <3>4, <3>6, ManagerAssumption
    <3> QED BY <1>t, <1>r, <1>h, <2>0, <2>1, <3>2, <3>3, <3>5, <3>7, StepOwn DEF Working
  <2> QED BY <2>2, <2>3
<1> QED BY <1>1, <1>2, <1>3, <1>4 DEF Discover

\* The snapshot reconciliation up to the point where it would drop the record.
LEMMA SyncOwn ==
    ASSUME OwnInv, TrustInv', (\E h \in Host : SyncListed(h)) \/ SyncOmitted
    PROVE  OwnInv'
<1>0. /\ TrustInv /\ Shape /\ HandsFull /\ ConnectsNamed
      /\ Roles /\ HandsEmpty /\ HandsCurrent /\ Locked
      /\ ClosingManaged /\ ConnectingQuiet /\ CandidateSilent /\ CloseEmpties /\ LiveOwned
  BY DEF OwnInv, TrustInv
<1>t. "sync" \in Task /\ "sync" # "close" /\ "sync" \notin Caller
  BY RoleFacts
<1>1. ASSUME NEW h \in Host, SyncListed(h)
      PROVE  OwnInv'
  <2>1. UNCHANGED <<conn, lock, closed, task>>
    BY <1>1 DEF SyncListed
  <2>2. Managed' = Managed /\ (current # None => current' = current)
    <3>1. CASE current = None
      <4>1. PICK r \in FreeRecord : current' = r /\ record' = [record EXCEPT ![r] = NewRecord(h)]
        BY <1>1, <3>1 DEF SyncListed
      <4>2. r \in RecordId
        BY DEF FreeRecord
      <4>3. record'[r].connection = None
        BY <1>0, <4>1, <4>2 DEF Shape, NewRecord
      <4> QED BY <3>1, <4>1, <4>2, <4>3, ManagerAssumption DEF Managed
    <3>2. CASE current # None
      <4>1. current \in RecordId
        BY <1>0, <3>2 DEF Shape
      <4> DEFINE g == IF record[current].active_host = record[current].cloud_host
                        THEN h ELSE record[current].active_host
      <4>2. /\ current' = current
            /\ record' = [record EXCEPT ![current].miss_count = 0,
                                        ![current].cloud_host = h,
                                        ![current].active_host = g]
        BY <1>1, <3>2 DEF SyncListed
      <4> HIDE DEF g
      <4>3. record'[current].connection = record[current].connection
        BY <1>0, <4>1, <4>2 DEF Shape
      <4> QED BY <3>2, <4>2, <4>3 DEF Managed
    <3> QED BY <3>1, <3>2
  <2>3. HandsCurrent'
    <3> SUFFICES ASSUME NEW u \in Task, task[u].rec # None PROVE task[u].rec = current'
      BY <2>1 DEF HandsCurrent
    <3>1. task[u].rec = current
      BY <1>0 DEF HandsCurrent
    <3> QED BY <2>2, <3>1
  <2> QED BY <1>0, <2>1, <2>2, <2>3
          DEF OwnInv, Roles, HandsEmpty, Locked, ClosingManaged, ConnectingQuiet,
              CandidateSilent, CloseEmpties, LiveOwned
<1>2. CASE SyncOmitted
  <2> DEFINE ts == IF record[current].miss_count + 1 < MissTolerance THEN Idle
                   ELSE [Idle EXCEPT !.pc = "pop"]
  <2>1. /\ ts \in TaskState /\ ts.pc \in {"idle", "pop"} /\ ts.con = None /\ ts.rec = None
    BY DEF Idle, TaskState
  <2>2. /\ current \in RecordId /\ task' = [task EXCEPT !["sync"] = ts]
        /\ record' = [record EXCEPT ![current].miss_count = @ + 1]
        /\ UNCHANGED <<current, conn, lock, closed>> /\ task["sync"].pc = "idle"
    BY <1>0, <1>2 DEF SyncOmitted, Shape, Goto
  <2> HIDE DEF ts
  <2>3. Managed' = Managed
    BY <1>0, <2>2 DEF Managed, Shape
  <2>4. CloseEmpties'
    BY <1>0, <1>t, <2>2, <2>3 DEF CloseEmpties, Shape
  <2>5. task["sync"].con = None
    BY <1>0, <1>t, <2>2 DEF HandsEmpty, Working
  <2>6. ts.pc \in Role("sync") /\ ts.pc \notin Holding /\ ts.pc \notin Working
    BY <2>1 DEF Role, Holding, Working
  <2>7. \A c \in ConnId : conn'[c].state # "dead" =>
           c = Managed' \/ (conn[c].state # "dead" /\ c # Managed /\ c # task["sync"].con)
    BY <2>2, <2>3, <2>5, ManagerAssumption
  <2> QED BY <1>t, <2>1, <2>2, <2>3, <2>4, <2>6, <2>7, StepOwn DEF Working
<1> QED BY <1>1, <1>2

\* close() takes the managed connection into its own hands.
LEMMA CloseOwn ==
    ASSUME OwnInv, TrustInv', CloseStart \/ CloseDetach
    PROVE  OwnInv'
<1>0. /\ TrustInv /\ Shape /\ HandsFull /\ ConnectsNamed
      /\ Roles /\ HandsEmpty /\ HandsCurrent /\ Locked
      /\ ClosingManaged /\ ConnectingQuiet /\ CandidateSilent /\ CloseEmpties /\ LiveOwned
  BY DEF OwnInv, TrustInv
<1>t. "close" \in Task /\ "close" \notin Caller
  BY RoleFacts
<1>1. CASE CloseStart
  <2> DEFINE ts == IF current = None THEN [Idle EXCEPT !.pc = "done"]
                   ELSE [Idle EXCEPT !.pc = "detach", !.rec = current]
  <2>1. /\ ts \in TaskState /\ ts.pc \in {"done", "detach"} /\ ts.con = None
        /\ ts.pc = "done" => current = None
        /\ ts.rec # None => ts.rec = current
    BY <1>0 DEF Shape, Idle, TaskState
  <2>2. /\ Goto("close", ts) /\ UNCHANGED <<current, record, conn, lock>>
        /\ ~closed /\ closed' = TRUE
    BY <1>1 DEF CloseStart
  <2> HIDE DEF ts
  <2>3. task["close"].con = None
    BY <1>0, <1>t, <2>2 DEF CloseEmpties, HandsEmpty, Working
  <2>4. CloseEmpties'
    BY <1>0, <1>t, <2>1, <2>2 DEF CloseEmpties, Shape, Goto, Managed
  <2>5. ts.pc \in Role("close") \ Holding
    BY <2>1 DEF Role, Holding, Working
  <2> QED BY <1>t, <2>1, <2>2, <2>3, <2>4, <2>5, EmptyHandsOwn
<1>2. CASE CloseDetach
  <2> DEFINE r == task["close"].rec
             ts == IF record[r].connection = None THEN [Idle EXCEPT !.pc = "done"]
                   ELSE [Idle EXCEPT !.pc = "after", !.con = record[r].connection]
  <2>0. /\ task["close"].pc = "detach" /\ lock = None
        /\ UNCHANGED <<current, conn, lock, closed>>
    BY <1>2 DEF CloseDetach
  <2>1. r = current /\ current \in RecordId /\ current # None /\ closed
    BY <1>0, <1>t, <2>0, ManagerAssumption DEF HandsFull, HandsCurrent, CloseEmpties
  <2>2. Managed = record[r].connection /\ Managed \in ConnId \cup {None}
    BY <1>0, <2>1 DEF Managed, Shape
  <2>3. /\ ts \in TaskState /\ ts.pc \in {"done", "after"} /\ ts.rec = None
        /\ ts.pc = "done" => ts.con = None /\ Managed = None
        /\ ts.pc = "after" => ts.con = Managed
    BY <2>2 DEF Idle, TaskState
  <2>4. /\ record' = [record EXCEPT ![r].connection = None]
        /\ task' = [task EXCEPT !["close"] = ts]
    BY <1>2 DEF CloseDetach, Goto
  <2> HIDE DEF ts
  <2>5. Managed' = None
    BY <1>0, <2>0, <2>1, <2>4 DEF Managed, Shape
  <2>6. CloseEmpties'
    BY <2>0, <2>1, <2>5 DEF CloseEmpties
  <2>7. task["close"].con = None
    BY <1>0, <1>t, <2>0 DEF HandsEmpty, Working
  <2>8. ts.pc \in Role("close") /\ (ts.pc \notin Holding <=> ts.pc = "done")
        /\ ts.pc \notin Working
    BY <2>3 DEF Role, Holding, Working
  <2>9. \A c \in ConnId : conn'[c].state # "dead" =>
           \/ c = Managed'
           \/ ts.pc \in Holding /\ ts.con = c
           \/ conn[c].state # "dead" /\ c # Managed /\ c # task["close"].con
    BY <2>0, <2>3, <2>7, <2>8, ManagerAssumption
  <2> QED BY <1>t, <2>0, <2>3, <2>4, <2>6, <2>8, <2>9, StepOwn DEF Working
<1> QED BY <1>1, <1>2

\* Every step but the one that drops the record keeps the ownership.
LEMMA NextOwn == OwnInv /\ [Next]_vars /\ [~SyncPop]_vars => OwnInv'
<1> SUFFICES ASSUME OwnInv, [Next]_vars, [~SyncPop]_vars PROVE OwnInv'
  OBVIOUS
<1>0. TrustInv'
  BY NextTrust DEF OwnInv
<1>1. ASSUME NEW t \in Caller, NEW pc \in {"ensure", "reconnect"}, CallStart(t, pc)
      PROVE  OwnInv'
  <2> DEFINE ts == [Idle EXCEPT !.pc = pc]
  <2>1. /\ t \in Task /\ t # "close" /\ ts \in TaskState
        /\ ts.pc \in {"ensure", "reconnect"} /\ ts.con = None /\ ts.rec = None
    BY <1>1, RoleFacts DEF Idle, TaskState
  <2>2. /\ Goto(t, ts) /\ UNCHANGED <<current, record, conn, lock, closed>>
        /\ task[t].pc = "idle"
    BY <1>1 DEF CallStart
  <2> HIDE DEF ts
  <2>3. task[t].con = None
    BY <2>1, <2>2 DEF OwnInv, HandsEmpty, Working
  <2>4. ts.pc \in Role(t) \ Holding
    BY <1>1, <2>1, RoleFacts DEF Holding, Working
  <2> QED BY <1>0, <2>1, <2>2, <2>3, <2>4, EmptyHandsOwn
<1>2. ASSUME NEW t \in Task, Progress(t), ~SyncPop
      PROVE  OwnInv'
  BY <1>0, <1>2, CallOwn, DiscoverOwn, CloseOwn DEF Progress
<1>3. ASSUME NEW c \in ConnId, ConnectionLost(c)
      PROVE  OwnInv'
  <2>1. /\ conn' = [conn EXCEPT ![c].state = "dead"]
        /\ UNCHANGED <<current, record, lock, closed, task>>
    BY <1>3 DEF ConnectionLost, Kill
  <2>2. /\ TrustInv /\ Shape /\ ConnectsNamed /\ ConnectingQuiet /\ CandidateSilent /\ LiveOwned
        /\ Managed' = Managed /\ Managed \in ConnId \cup {None}
    BY <2>1 DEF OwnInv, TrustInv, Shape, Managed
  <2>3. \A e \in ConnId : /\ conn'[e].pushes = conn[e].pushes
                          /\ conn[e].state = "dead" => conn'[e].state = "dead"
    BY <2>1, <2>2 DEF Shape, Connection
  <2>4. ConnectingQuiet' /\ LiveOwned'
    BY <2>1, <2>2, <2>3 DEF ConnectingQuiet, LiveOwned
  <2>5. CandidateSilent'
    BY <2>1, <2>2, <2>3, RoleFacts DEF CandidateSilent, ConnectsNamed
  <2> QED BY <1>0, <2>1, <2>2, <2>4, <2>5
          DEF OwnInv, Roles, HandsEmpty, HandsCurrent, Locked, ClosingManaged, CloseEmpties
<1>4. CASE UNCHANGED vars
  <2>1. Managed' = Managed
    BY <1>4 DEF vars, Managed
  <2> QED BY <1>0, <1>4, <2>1
          DEF vars, OwnInv, Roles, HandsEmpty, HandsCurrent, Locked, ClosingManaged,
              ConnectingQuiet, CandidateSilent, CloseEmpties, LiveOwned
<1>5. ASSUME Next, ~SyncPop PROVE OwnInv'
  BY <1>0, <1>1, <1>2, <1>3, <1>5, DiscoverOwn, SyncOwn, CloseOwn DEF Next
<1> QED BY <1>4, <1>5

\* The ownership invariant holds until the record is dropped.
LEMMA AlwaysOwned == Spec /\ [][~SyncPop]_vars => []OwnInv
BY InitOwn, NextOwn, PTL DEF Spec

(***************************************************************************)
(* As long as the snapshot reconciliation does not drop the record, every  *)
(* live connection is the managed one or in the hands of a task, so that   *)
(* close() reaches all of them.  (When it does drop the record, a caller   *)
(* that holds it can still install a connection: see the run that omits.)  *)
(***************************************************************************)
THEOREM ConnectionsOwned == Spec /\ [][~SyncPop]_vars => []EveryConnectionOwned
<1>1. OwnInv => EveryConnectionOwned
  <2> SUFFICES ASSUME OwnInv, NEW c \in ConnId, conn[c].state = "up"
               PROVE  c = Managed \/ c \in InHand
    BY DEF EveryConnectionOwned
  <2> QED BY DEF OwnInv, LiveOwned, InHand
<1> QED BY <1>1, AlwaysOwned, PTL

(***************************************************************************)
(* Under the same condition at most one live connection pushes states,     *)
(* leaving out those about to be closed: a caller's new connection exists  *)
(* only once the managed one is dead, a candidate is silent until it takes *)
(* the managed one's place.                                                *)
(***************************************************************************)
THEOREM OnePushes == Spec /\ [][~SyncPop]_vars => []OnePushingConnection
<1>1. ASSUME OwnInv PROVE OnePushingConnection
  <2> DEFINE S == {c \in ConnId : /\ conn[c].state # "dead" /\ conn[c].pushes
                                  /\ \A t \in Task :
                                        task[t].pc \in {"after", "closing", "discard"}
                                           => task[t].con # c}
  <2>0. /\ TrustInv /\ Roles /\ Locked /\ ConnectingQuiet /\ CandidateSilent /\ LiveOwned
    BY <1>1 DEF OwnInv
  <2>1. ASSUME NEW c \in S, c # Managed
        PROVE  \E t \in Caller : task[t].pc = "connecting" /\ task[t].con = c
    <3>1. PICK t \in Task : task[t].pc \in Working \cup {"after"} /\ task[t].con = c
      BY <2>0, <2>1 DEF LiveOwned
    <3>2. task[t].pc = "connecting"
      BY <3>1 DEF Working
    <3>3. t # "discover"
      BY <2>0, <3>1, <3>2 DEF CandidateSilent
    <3>4. t \in Caller
      BY <2>0, <3>2, <3>3, RoleFacts DEF Roles, Role
    <3> QED BY <3>1, <3>2, <3>4
  <2>2. ASSUME NEW c \in S, NEW d \in S PROVE c = d
    <3>1. CASE c = Managed /\ d = Managed
      BY <3>1
    <3>2. ASSUME NEW x \in S, NEW y \in S, x # Managed PROVE x = y
      <4>1. PICK t \in Caller : task[t].pc = "connecting" /\ task[t].con = x
        BY <2>1, <3>2
      <4>2. y # Managed
        BY <2>0, <4>1, ManagerAssumption DEF ConnectingQuiet
      <4>3. PICK u \in Caller : task[u].pc = "connecting" /\ task[u].con = y
        BY <2>1, <4>2
      <4>4. t = u
        BY <2>0, <4>1, <4>3, RoleFacts DEF Locked, Working
      <4> QED BY <4>1, <4>3, <4>4
    <3> QED BY <3>1, <3>2
  <2>3. Cardinality(S) <= 1
    <3>1. CASE S = {}
      BY <3>1, FS_EmptySet
    <3>2. CASE S # {}
      <4>1. PICK x \in S : TRUE
        BY <3>2
      <4>2. S = {x}
        BY <2>2, <4>1
      <4> HIDE DEF S
      <4> QED BY <4>2, FS_Singleton
    <3> QED BY <3>1, <3>2
  <2> QED BY <2>3 DEF OnePushingConnection
<1> QED BY <1>1, AlwaysOwned, PTL

\* Under the same condition nothing stays up after close() but what a task
\* is about to close.
THEOREM ClosedForGood == Spec /\ [][~SyncPop]_vars => []CloseIsFinal
<1>1. OwnInv => CloseIsFinal
  BY ManagerAssumption DEF OwnInv, CloseEmpties, LiveOwned, CloseIsFinal, InHand
<1> QED BY <1>1, AlwaysOwned, PTL

(***************************************************************************)
(* The condition holds whenever the cloud's snapshots always list the      *)
(* gateway.                                                                *)
(***************************************************************************)
THEOREM ListedIsKept ==
    ASSUME ~SnapshotMayOmit PROVE Spec => [][~SyncPop]_vars
<1> DEFINE Kept == task \in [Task -> TaskState] /\ task["sync"].pc = "idle"
<1>1. Init => Kept
  <2> SUFFICES ASSUME Init PROVE Kept
    OBVIOUS
  <2>1. Shape /\ task["sync"].pc = "idle"
    BY InitTrust, RoleFacts DEF Init, Idle, TrustInv
  <2> QED BY <2>1 DEF Shape
<1>2. TrustInv /\ Kept /\ [Next]_vars => Kept'
  <2> SUFFICES ASSUME TrustInv, Kept, [Next]_vars PROVE Kept'
    OBVIOUS
  <2>1. TrustInv'
    BY NextTrust
  <2>2. task' \in [Task -> TaskState]
    BY <2>1 DEF TrustInv, Shape
  <2>3. ASSUME NEW t \in Task, t # "sync", NEW ts, Goto(t, ts) PROVE task'["sync"] = task["sync"]
    BY <2>3, RoleFacts DEF Goto
  <2>4. ASSUME NEW t \in Task, Steps(t) PROVE task'["sync"].pc = "idle"
    <3>1. t # "sync"
      BY <2>4 DEF Steps, CallEnter, CallOldClosed, CallConnected, ConnectFails, CloseReleased
    <3> QED BY <2>3, <2>4, <3>1
            DEF Steps, CallEnter, CallOldClosed, CallConnected, ConnectFails, CloseReleased, Open
  <2>5. ASSUME DiscoverStart \/ Discover \/ CloseStart \/ CloseDetach
        PROVE  task'["sync"].pc = "idle"
    BY <2>3, <2>5, RoleFacts
       DEF DiscoverStart, Discover, DiscoverCandidate, DiscoverEnter, DiscoverConnected, Open,
           CloseStart, CloseDetach
  <2>6. ~SyncOmitted /\ ~SyncPop
    BY DEF SyncOmitted, SyncPop
  <2>7. ASSUME NEW t \in Task, Progress(t) PROVE task'["sync"].pc = "idle"
    BY <2>4, <2>5, <2>6, <2>7 DEF Progress
  <2>8. ASSUME NEW t \in Caller, NEW pc \in {"ensure", "reconnect"}, CallStart(t, pc)
        PROVE  task'["sync"].pc = "idle"
    BY <2>3, <2>8, RoleFacts DEF CallStart
  <2>9. CASE (\E h \in Host : SyncListed(h)) \/ (\E c \in ConnId : ConnectionLost(c))
             \/ UNCHANGED vars
    BY <2>9 DEF SyncListed, ConnectionLost, vars
  <2> QED BY <2>2, <2>5, <2>6, <2>7, <2>8, <2>9 DEF Next
<1>3. Kept => [~SyncPop]_vars
  BY DEF SyncPop
<1> HIDE DEF Kept
<1> QED BY <1>1, <1>2, <1>3, InitTrust, NextTrust, PTL DEF Spec

=============================================================================
