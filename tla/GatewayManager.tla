----------------------------- MODULE GatewayManager -----------------------------
(***************************************************************************)
(* The life of one gateway UID in lan/gateway_manager.py: its record, its  *)
(* per-UID lock and its connections, worked on by concurrent callers of    *)
(* ensure() and reconnect(), the discovery loop, the cloud snapshot        *)
(* reconciliation and close().  Locks and records of different UIDs are    *)
(* independent, so one UID is modelled.                                    *)
(*                                                                         *)
(* A step is what runs between two awaits.  A connection is "connecting",  *)
(* "up" (transport active and login complete) or "dead"; an identifier is  *)
(* used again once nothing refers to a dead connection.                    *)
(***************************************************************************)
EXTENDS Naturals, FiniteSets

CONSTANTS
    Host,                 \* private IPv4 endpoints
    Caller,               \* tasks that call ensure(), reconnect() or send()
    ConnId,               \* identities of GatewayConnection objects
    RecordId,             \* identities of _GatewayRecord objects
    None,                 \* Python's None
    MissTolerance,        \* GATEWAY_MISS_TOLERANCE
    SnapshotMayOmit       \* may a cloud snapshot leave the gateway out?

Task == Caller \cup {"discover", "sync", "close"}

ASSUME ManagerAssumption ==
    /\ MissTolerance \in Nat \ {0}
    /\ SnapshotMayOmit \in BOOLEAN
    /\ None \notin Host \cup ConnId \cup RecordId \cup Task
    /\ Caller \cap {"discover", "sync", "close"} = {}
    /\ Host # {}

VARIABLES
    current,     \* _records.get(uid)
    record,      \* the record objects
    conn,        \* the connection objects
    lock,        \* the task that holds _lock(uid), or None
    closed,      \* GatewayManager._closed
    task,        \* where each task is
    cloudHosts   \* history: every endpoint the cloud has named

vars == <<current, record, conn, lock, closed, task, cloudHosts>>

Record == [cloud_host : Host, active_host : Host,
           connection : ConnId \cup {None}, miss_count : 0 .. MissTolerance]

Connection == [state : {"dead", "connecting", "up"}, host : Host,
               pushes : BOOLEAN, identity_confirmed : BOOLEAN]

TaskState == [pc : {"idle", "ensure", "reconnect", "closing", "connecting", "discard",
                    "broadcast", "promote", "pop", "detach", "after", "done"},
              rec : RecordId \cup {None},   \* the local variable record
              con : ConnId \cup {None},     \* the connection it works on
              host : Host \cup {None},      \* the candidate's endpoint
              missing_ok : BOOLEAN]         \* allow_missing_uid

Idle == [pc |-> "idle", rec |-> None, con |-> None, host |-> None, missing_ok |-> FALSE]

NewRecord(h) == [cloud_host |-> h, active_host |-> h, connection |-> None, miss_count |-> 0]

Init ==
    /\ current \in RecordId \cup {None}
    /\ \E h \in Host : /\ record = [r \in RecordId |-> NewRecord(h)]
                       /\ cloudHosts = {h}
                       /\ conn = [c \in ConnId |->
                             [state |-> "dead", host |-> h, pushes |-> FALSE,
                              identity_confirmed |-> FALSE]]
    /\ lock = None
    /\ closed = FALSE
    /\ task = [t \in Task |-> Idle]

-----------------------------------------------------------------------------
\* Nothing refers to these objects any more.
FreeConn == {c \in ConnId : /\ conn[c].state = "dead"
                            /\ \A r \in RecordId : record[r].connection # c
                            /\ \A t \in Task : task[t].con # c}

FreeRecord == {r \in RecordId : r # current /\ \A t \in Task : task[t].rec # r}

Goto(t, ts) == task' = [task EXCEPT ![t] = ts]

Kill(c) == conn' = [conn EXCEPT ![c].state = "dead"]

(***************************************************************************)
(* _connect: a new connection object; the pushes are bound at once unless  *)
(* the endpoint still has to prove itself.                                 *)
(***************************************************************************)
Open(t, r, h, enable_pushes, missing_ok, others) ==
    \E c \in FreeConn :
        /\ conn' = [others EXCEPT ![c] = [state |-> "connecting", host |-> h,
                                          pushes |-> enable_pushes,
                                          identity_confirmed |-> FALSE]]
        /\ Goto(t, [pc |-> "connecting", rec |-> r, con |-> c, host |-> h,
                    missing_ok |-> missing_ok])

\* Mutant of MissingUidAllowed: any endpoint may stay anonymous.
MissingUidAlwaysAllowed(r) == r \in RecordId

\* allow_missing_uid of _reconnect_locked
MissingUidAllowed(r) == record[r].active_host = record[r].cloud_host

-----------------------------------------------------------------------------
(* ensure(), reconnect() and send() *)

CallStart(t, pc) ==
    /\ task[t].pc = "idle"
    /\ ~closed                                      \* _raise_if_closed
    /\ Goto(t, [Idle EXCEPT !.pc = pc])
    /\ UNCHANGED <<current, record, conn, lock, closed, cloudHosts>>

(***************************************************************************)
(* The lock is taken.  A closed manager or an unknown UID raises and a     *)
(* healthy connection is returned, both with the lock released; otherwise  *)
(* the old connection is closed first, or a new one opened.                *)
(***************************************************************************)
CallReturns(t) ==
    \/ closed
    \/ current = None
    \/ /\ task[t].pc = "ensure"
       /\ record[current].connection # None
       /\ conn[record[current].connection].state = "up"

CallEnter(t) ==
    /\ task[t].pc \in {"ensure", "reconnect"}
    /\ lock = None
    /\ IF CallReturns(t) THEN Goto(t, Idle) /\ UNCHANGED <<conn, lock>>
       ELSE /\ lock' = t
            /\ IF record[current].connection # None
                 THEN /\ Goto(t, [Idle EXCEPT !.pc = "closing", !.rec = current,
                                              !.con = record[current].connection])
                      /\ UNCHANGED conn
                 ELSE Open(t, current, record[current].active_host, TRUE,
                           MissingUidAllowed(current), conn)
    /\ UNCHANGED <<current, record, closed, cloudHosts>>

\* await current.close() has returned.
CallOldClosed(t) ==
    /\ task[t].pc = "closing"
    /\ IF closed
         THEN Kill(task[t].con) /\ Goto(t, Idle) /\ lock' = None
         ELSE /\ Open(t, task[t].rec, record[task[t].rec].active_host, TRUE,
                      MissingUidAllowed(task[t].rec),
                      [conn EXCEPT ![task[t].con].state = "dead"])
              /\ UNCHANGED lock
    /\ UNCHANGED <<current, record, closed, cloudHosts>>

(***************************************************************************)
(* The login succeeded: the gateway named the expected UID, or named none  *)
(* and that is allowed.  A manager closed meanwhile discards the           *)
(* connection, still holding the lock.                                     *)
(***************************************************************************)
CallConnected(t, confirmed) ==
    /\ task[t].pc = "connecting" /\ t \in Caller
    /\ confirmed \/ task[t].missing_ok
    /\ conn' = [conn EXCEPT ![task[t].con].state = "up",
                            ![task[t].con].identity_confirmed = confirmed]
    /\ IF closed
         THEN Goto(t, [task[t] EXCEPT !.pc = "discard"]) /\ UNCHANGED <<record, lock>>
         ELSE /\ record' = [record EXCEPT ![task[t].rec].connection = task[t].con]
              /\ Goto(t, Idle) /\ lock' = None
    /\ UNCHANGED <<current, closed, cloudHosts>>

\* Mutant of ConnectFails: the failed connection object is not closed.
ConnectFailsOpen(t) ==
    /\ task[t].pc \in {"connecting", "discard"}
    /\ Goto(t, Idle) /\ lock' = None
    /\ UNCHANGED <<current, record, conn, closed, cloudHosts>>

\* connect() failed, timed out or was rejected; or the discard is complete.
ConnectFails(t) ==
    /\ task[t].pc \in {"connecting", "discard"}
    /\ Kill(task[t].con)
    /\ Goto(t, Idle) /\ lock' = None
    /\ UNCHANGED <<current, record, closed, cloudHosts>>

-----------------------------------------------------------------------------
(* discover() *)

DiscoverStart ==
    /\ task["discover"].pc = "idle"
    /\ ~closed
    /\ current # None                     \* known_uids
    /\ Goto("discover", [Idle EXCEPT !.pc = "broadcast"])
    /\ UNCHANGED <<current, record, conn, lock, closed, cloudHosts>>

\* The answers are in.  The record is looked up before the lock is taken.
DiscoverCandidate(h) ==
    /\ task["discover"].pc = "broadcast"
    /\ IF closed \/ current = None
         THEN Goto("discover", Idle)
         ELSE IF h = record[current].active_host THEN Goto("discover", Idle)
         ELSE Goto("discover", [Idle EXCEPT !.pc = "promote", !.rec = current, !.host = h])
    /\ UNCHANGED <<current, record, conn, lock, closed, cloudHosts>>

\* Mutant of DiscoverEnter: the candidate may push before it is confirmed.
DiscoverEnterTrusting ==
    LET ts == task["discover"] IN
    /\ ts.pc = "promote"
    /\ lock = None
    /\ IF closed THEN Goto("discover", Idle) /\ UNCHANGED <<conn, lock>>
       ELSE /\ Open("discover", ts.rec, ts.host, TRUE, FALSE, conn)
            /\ lock' = "discover"
    /\ UNCHANGED <<current, record, closed, cloudHosts>>

DiscoverEnter ==
    LET ts == task["discover"] IN
    /\ ts.pc = "promote"
    /\ lock = None
    /\ IF closed THEN Goto("discover", Idle) /\ UNCHANGED <<conn, lock>>
       ELSE /\ Open("discover", ts.rec, ts.host, FALSE, FALSE, conn)
            /\ lock' = "discover"
    /\ UNCHANGED <<current, record, closed, cloudHosts>>

\* Mutant of DiscoverConnected: the replaced connection is forgotten.
DiscoverConnectedForgetful ==
    LET ts == task["discover"] IN
    /\ ts.pc = "connecting"
    /\ conn' = [conn EXCEPT ![ts.con].state = "up", ![ts.con].identity_confirmed = TRUE,
                            ![ts.con].pushes = TRUE]
    /\ record' = [record EXCEPT ![ts.rec].connection = ts.con,
                                ![ts.rec].active_host = ts.host]
    /\ lock' = None
    /\ Goto("discover", Idle)
    /\ UNCHANGED <<current, closed, cloudHosts>>

\* The candidate's login confirmed the UID: it replaces the old connection,
\* which is closed after the lock is released.
DiscoverConnected ==
    LET ts == task["discover"] previous == record[ts.rec].connection IN
    /\ ts.pc = "connecting"
    /\ IF closed
         THEN /\ conn' = [conn EXCEPT ![ts.con].state = "up",
                                      ![ts.con].identity_confirmed = TRUE]
              /\ Goto("discover", [ts EXCEPT !.pc = "discard"])
              /\ UNCHANGED <<record, lock>>
         ELSE /\ conn' = [conn EXCEPT ![ts.con].state = "up",
                                      ![ts.con].identity_confirmed = TRUE,
                                      ![ts.con].pushes = TRUE]
              /\ record' = [record EXCEPT ![ts.rec].connection = ts.con,
                                          ![ts.rec].active_host = ts.host]
              /\ lock' = None
              /\ Goto("discover", IF previous = None THEN Idle
                                  ELSE [Idle EXCEPT !.pc = "after", !.con = previous])
    /\ UNCHANGED <<current, closed, cloudHosts>>

-----------------------------------------------------------------------------
(* async_update_cloud_gateways(): one caller, the periodic update *)

\* The snapshot names the gateway (update_cloud_gateways).
SyncListed(h) ==
    /\ task["sync"].pc = "idle"
    /\ ~closed
    /\ cloudHosts' = cloudHosts \cup {h}
    /\ IF current = None
         THEN \E r \in FreeRecord : /\ current' = r
                                    /\ record' = [record EXCEPT ![r] = NewRecord(h)]
         ELSE /\ record' = [record EXCEPT
                     ![current].miss_count = 0,
                     ![current].cloud_host = h,
                     ![current].active_host = IF @ = record[current].cloud_host THEN h ELSE @]
              /\ UNCHANGED current
    /\ UNCHANGED <<conn, lock, closed, task>>

\* The snapshot leaves it out.
SyncOmitted ==
    /\ SnapshotMayOmit
    /\ task["sync"].pc = "idle"
    /\ ~closed
    /\ current # None
    /\ record' = [record EXCEPT ![current].miss_count = @ + 1]
    /\ Goto("sync", IF record[current].miss_count + 1 < MissTolerance THEN Idle
                    ELSE [Idle EXCEPT !.pc = "pop"])
    /\ UNCHANGED <<current, conn, lock, closed, cloudHosts>>

\* Under the lock the record is forgotten; its connection is closed outside.
SyncPop ==
    /\ task["sync"].pc = "pop"
    /\ lock = None
    /\ current' = None
    /\ Goto("sync", IF current = None \/ record[current].connection = None THEN Idle
                    ELSE [Idle EXCEPT !.pc = "after", !.con = record[current].connection])
    /\ UNCHANGED <<record, conn, lock, closed, cloudHosts>>

-----------------------------------------------------------------------------
(* close() *)

\* Mutant of CloseStart: the manager is not marked closed.
CloseStartUnmarked ==
    /\ ~closed
    /\ Goto("close", IF current = None THEN [Idle EXCEPT !.pc = "done"]
                     ELSE [Idle EXCEPT !.pc = "detach", !.rec = current])
    /\ UNCHANGED <<current, record, conn, lock, closed, cloudHosts>>

CloseStart ==
    /\ ~closed
    /\ closed' = TRUE
    /\ Goto("close", IF current = None THEN [Idle EXCEPT !.pc = "done"]
                     ELSE [Idle EXCEPT !.pc = "detach", !.rec = current])
    /\ UNCHANGED <<current, record, conn, lock, cloudHosts>>

CloseDetach ==
    LET ts == task["close"] IN
    /\ ts.pc = "detach"
    /\ lock = None
    /\ record' = [record EXCEPT ![ts.rec].connection = None]
    /\ Goto("close", IF record[ts.rec].connection = None THEN [Idle EXCEPT !.pc = "done"]
                     ELSE [Idle EXCEPT !.pc = "after", !.con = record[ts.rec].connection])
    /\ UNCHANGED <<current, conn, lock, closed, cloudHosts>>

\* A connection that was let go under the lock is closed after it.
CloseReleased(t) ==
    /\ task[t].pc = "after"
    /\ Kill(task[t].con)
    /\ Goto(t, [Idle EXCEPT !.pc = IF t = "close" THEN "done" ELSE "idle"])
    /\ UNCHANGED <<current, record, lock, closed, cloudHosts>>

-----------------------------------------------------------------------------
\* The reader stopped, a write failed or the heartbeat gave up.
ConnectionLost(c) ==
    /\ conn[c].state = "up"
    /\ Kill(c)
    /\ UNCHANGED <<current, record, lock, closed, task, cloudHosts>>

Steps(t) ==
    \/ CallEnter(t)
    \/ CallOldClosed(t)
    \/ \E confirmed \in BOOLEAN : CallConnected(t, confirmed)
    \/ ConnectFails(t)
    \/ CloseReleased(t)

Discover ==
    \/ \E h \in Host : DiscoverCandidate(h)
    \/ DiscoverEnter
    \/ DiscoverConnected

\* What a task does on its own once it was started.
Progress(t) ==
    \/ Steps(t)
    \/ t = "discover" /\ Discover
    \/ t = "sync" /\ SyncPop
    \/ t = "close" /\ CloseDetach

Next ==
    \/ \E t \in Caller, pc \in {"ensure", "reconnect"} : CallStart(t, pc)
    \/ DiscoverStart
    \/ \E h \in Host : SyncListed(h)
    \/ SyncOmitted
    \/ CloseStart
    \/ \E t \in Task : Progress(t)
    \/ \E c \in ConnId : ConnectionLost(c)

Spec == Init /\ [][Next]_vars

\* Every await of a started task ends: network calls have deadlines, and the
\* event loop runs what is ready.  A lock that stays free is taken.
Fairness == \A t \in Task : WF_vars(Progress(t))

FairSpec == Spec /\ Fairness

-----------------------------------------------------------------------------
(* Properties *)

\* Type correctness of the manager's objects.
ManagerTypeOK ==
    /\ current \in RecordId \cup {None}
    /\ record \in [RecordId -> Record]
    /\ conn \in [ConnId -> Connection]
    /\ lock \in Task \cup {None}
    /\ closed \in BOOLEAN
    /\ task \in [Task -> TaskState]
    /\ cloudHosts \subseteq Host

\* The connections some task is still going to install or to close.
InHand == {task[t].con : t \in Task}

\* The connection the manager would use and close.
Managed == IF current = None THEN None ELSE record[current].connection

(***************************************************************************)
(* "Own one serialized connection lifecycle per known gateway UID": every  *)
(* live connection is the one in the known record or in the hands of a     *)
(* task, so close() reaches all of them.                                   *)
(***************************************************************************)
EveryConnectionOwned ==
    \A c \in ConnId : conn[c].state = "up" => c = Managed \/ c \in InHand

(***************************************************************************)
(* At most one live connection pushes state for the gateway, leaving out   *)
(* those a task has replaced or dropped and is about to close.             *)
(***************************************************************************)
OnePushingConnection ==
    Cardinality({c \in ConnId : /\ conn[c].state # "dead" /\ conn[c].pushes
                                /\ \A t \in Task :
                                      task[t].pc \in {"after", "closing", "discard"}
                                         => task[t].con # c}) <= 1

(***************************************************************************)
(* Pushes are accepted only from an endpoint that proved the gateway's UID *)
(* or that the cloud named: discovery never makes an unproven answer to a  *)
(* broadcast the source of states, nor does a later reconnect to it.       *)
(***************************************************************************)
PushesOnlyTrusted ==
    \A c \in ConnId :
        conn[c].state = "up" /\ conn[c].pushes
            => conn[c].identity_confirmed \/ conn[c].host \in cloudHosts

\* Once close() has returned, what is still up is being closed.
CloseIsFinal ==
    task["close"].pc = "done" =>
        \A c \in ConnId : conn[c].state = "up" => c \in InHand

(***************************************************************************)
(* close() returns and the whole manager comes to rest: no task waits for  *)
(* the lock for ever and no connection stays up.                           *)
(***************************************************************************)
CloseTerminates ==
    closed ~> /\ task["close"].pc = "done"
              /\ \A t \in Task \ {"close"} : task[t].pc = "idle"
              /\ \A c \in ConnId : conn[c].state = "dead"

=============================================================================
