--------------------------- MODULE GatewayConnection ---------------------------
(***************************************************************************)
(* One GatewayConnection of lan/gateway_connection.py: the task that       *)
(* connects, callers of send(), the reader and the heartbeat of each       *)
(* transport generation, and close().                                      *)
(*                                                                         *)
(* A step is what runs between two awaits.  reader, writer and _closed     *)
(* always change together, so one variable, transport, stands for the      *)
(* three.  The lifecycle lock is held across awaits only by the connecting *)
(* task.  A cancelled task takes no further step that has an effect: the   *)
(* finally clauses find the generation closed, hence cancelling ends it.   *)
(***************************************************************************)
EXTENDS Naturals

CONSTANTS
    Caller,            \* tasks that call send()
    MaxGeneration,     \* bound: transport generations
    AllowMissingUid,   \* connect(allow_missing_uid)
    SameMillisecond    \* may two payloads carry the same uniSerial?

ASSUME ConnectionAssumption ==
    /\ MaxGeneration \in Nat
    /\ AllowMissingUid \in BOOLEAN
    /\ SameMillisecond \in BOOLEAN
    /\ "connector" \notin Caller /\ "beat" \notin Caller

VARIABLES
    generation,   \* GatewayConnection.generation
    transport,    \* the generation whose reader and writer are installed, 0 when _closed
    ready,        \* _ready
    identity_confirmed,
    held,         \* _reader_task or _heartbeat_task is not None
    socket,       \* per generation, the socket
    closing,      \* sockets in the hands of a close() that is under way
    reader,       \* per generation, the reader loop
    heart,        \* per generation, the heartbeat loop
    conn,         \* the connecting task: where it is, start_generation, hello_uid
    req,          \* the request each task has under way, with its future
    stray,        \* futures left in _pending that no request waits for
    peer,         \* whose gateway is at the other end of the latest socket
    silent        \* that gateway answers no more

vars == <<generation, transport, ready, identity_confirmed, held, socket, closing, reader,
          heart, conn, req, stray, peer, silent>>

Generation == 1 .. MaxGeneration

Requester == Caller \cup {"connector", "beat"}

Uid == {"expected", "other", "none"}

\* A request and its future; routes are registered while fut is "pending".
Request == [pc : {"idle", "write", "drain", "wait"}, gen : 0 .. MaxGeneration,
            fut : {"none", "pending", "answered", "failed"}]

NoRequest == [pc |-> "idle", gen |-> 0, fut |-> "none"]

Connected == transport # 0 /\ ready

\* The connecting task is inside the lifecycle lock.
Locked == conn.pc \in {"opening", "hello", "login"}

Init ==
    /\ generation = 0 /\ transport = 0 /\ ready = FALSE
    /\ identity_confirmed = FALSE /\ held = FALSE
    /\ socket = [g \in Generation |-> "none"] /\ closing = {}
    /\ reader = [g \in Generation |-> "none"] /\ heart = [g \in Generation |-> "none"]
    /\ conn = [pc |-> "idle", start |-> 0, hello |-> "none"]
    /\ req = [t \in Requester |-> NoRequest] /\ stray = {}
    /\ peer = "right" /\ silent = FALSE

-----------------------------------------------------------------------------
(* The shared steps *)

\* _fail_pending, on the requests r
FailPending(r) ==
    [t \in Requester |-> IF r[t].fut = "pending" THEN [r[t] EXCEPT !.fut = "failed"] ELSE r[t]]

Ended(f) == [g \in Generation |-> IF f[g] = "none" THEN "none" ELSE "done"]

Without(t) == [req EXCEPT ![t] = NoRequest]

\* Mutant of Disconnected: the heartbeat outlives its generation and its waiters hang.
DisconnectedQuietly(r) ==
    /\ transport' = 0 /\ ready' = FALSE /\ identity_confirmed' = FALSE
    /\ socket' = [socket EXCEPT ![transport] = "shut"]
    /\ reader' = Ended(reader) /\ heart' = Ended(heart)
    /\ req' = [r EXCEPT !["beat"] = NoRequest] /\ stray' = {}
    /\ UNCHANGED closing

(***************************************************************************)
(* _disconnect_generation of the installed transport, which leaves the     *)
(* generation number and the task attributes alone.                        *)
(***************************************************************************)
Disconnected(r) ==
    /\ transport' = 0 /\ ready' = FALSE /\ identity_confirmed' = FALSE
    /\ socket' = [socket EXCEPT ![transport] = "shut"]
    /\ reader' = Ended(reader) /\ heart' = Ended(heart)
    /\ req' = FailPending([r EXCEPT !["beat"] = NoRequest]) /\ stray' = {}
    /\ UNCHANGED closing

\* The socket that close() takes with it; a disconnect may have cleared the writer.
CapturedWriter == {transport} \ {0}

(***************************************************************************)
(* close() up to the release of the lifecycle lock; its socket is shut     *)
(* later, by ShutDown.  Nothing happens on a connection that is closed     *)
(* already and has no tasks.                                               *)
(***************************************************************************)
Closed(r) ==
    IF transport = 0 /\ ~held
      THEN /\ req' = r
           /\ UNCHANGED <<generation, held, transport, ready, identity_confirmed, closing,
                          socket, reader, heart, stray>>
      ELSE /\ generation < MaxGeneration
           /\ generation' = generation + 1 /\ held' = FALSE
           /\ transport' = 0 /\ ready' = FALSE /\ identity_confirmed' = FALSE
           /\ closing' = closing \cup CapturedWriter
           /\ reader' = Ended(reader) /\ heart' = Ended(heart)
           /\ req' = FailPending([r EXCEPT !["beat"] = NoRequest]) /\ stray' = {}
           /\ UNCHANGED socket

ShutDown(g) ==
    /\ g \in closing
    /\ closing' = closing \ {g} /\ socket' = [socket EXCEPT ![g] = "shut"]
    /\ UNCHANGED <<generation, transport, ready, identity_confirmed, held, reader, heart, conn,
                   req, stray, peer, silent>>

\* request() up to its first await: the future is registered under its serials.
Registered(t, r) == [r EXCEPT ![t] = [pc |-> "write", gen |-> generation, fut |-> "pending"]]

-----------------------------------------------------------------------------
(* connect() *)

ConnectBegin ==
    /\ conn.pc = "idle" /\ ~Connected
    /\ conn' = [pc |-> "opening", start |-> generation, hello |-> "none"]
    /\ UNCHANGED <<generation, transport, ready, identity_confirmed, held, socket, closing,
                   reader, heart, req, stray, peer, silent>>

\* The TCP connection is open: a new generation, its reader, and the hello request.
Opened ==
    /\ conn.pc = "opening" /\ generation + 1 < MaxGeneration
    /\ LET g == generation + 1 IN
       /\ generation' = g /\ transport' = g /\ ready' = FALSE /\ identity_confirmed' = FALSE
       /\ held' = TRUE
       /\ socket' = [socket EXCEPT ![g] = "open"] /\ reader' = [reader EXCEPT ![g] = "reading"]
       /\ req' = [req EXCEPT !["connector"] = [pc |-> "write", gen |-> g, fut |-> "pending"]]
    /\ conn' = [conn EXCEPT !.pc = "hello"]
    /\ peer' \in {"right", "wrong"} /\ silent' = FALSE
    /\ UNCHANGED <<closing, heart, stray>>

\* What the peer may say of itself.
Says(uid) == uid = "none" \/ uid = (IF peer = "right" THEN "expected" ELSE "other")

(***************************************************************************)
(* The hello is answered.  Missing credentials, another UID or a transport *)
(* lost meanwhile raise; otherwise the login request follows.              *)
(***************************************************************************)
HelloAnswered(uid, credentials) ==
    /\ conn.pc = "hello" /\ req["connector"].pc = "wait" /\ req["connector"].fut = "answered"
    /\ Says(uid)
    /\ IF credentials /\ uid # "other" /\ transport # 0
         THEN /\ conn' = [conn EXCEPT !.pc = "login", !.hello = uid]
              /\ req' = Registered("connector", req)
         ELSE conn' = [conn EXCEPT !.pc = "cleanup"] /\ req' = Without("connector")
    /\ UNCHANGED <<generation, transport, ready, identity_confirmed, held, socket, closing,
                   reader, heart, stray, peer, silent>>

\* The UID a successful handshake settles on, and whether connect() accepts it.
PeerUid(hello, login) == IF login = "none" THEN hello ELSE login

Accepts(hello, login) ==
    /\ hello = "none" \/ login = "none" \/ hello = login
    /\ \/ PeerUid(hello, login) = "expected"
       \/ AllowMissingUid /\ PeerUid(hello, login) = "none"

\* Mutant of Confirms: whoever is accepted counts as confirmed.
ConfirmsAccepted(hello, login) == Accepts(hello, login)

\* identity_confirmed
Confirms(hello, login) == PeerUid(hello, login) = "expected"

(***************************************************************************)
(* The login is answered.  _ready is set without a look at the transport,  *)
(* which the reader may have lost since; the heartbeat task then ends at   *)
(* once.                                                                   *)
(***************************************************************************)
LoginAnswered(uid, accepted) ==
    /\ conn.pc = "login" /\ req["connector"].pc = "wait" /\ req["connector"].fut = "answered"
    /\ Says(uid)
    /\ req' = Without("connector")
    /\ IF accepted /\ Accepts(conn.hello, uid)
         THEN /\ ready' = TRUE
              /\ identity_confirmed' = Confirms(conn.hello, uid)
              /\ heart' = [heart EXCEPT ![generation] = IF transport = 0 THEN "done" ELSE "sleeping"]
              /\ conn' = [conn EXCEPT !.pc = "idle"]
         ELSE /\ conn' = [conn EXCEPT !.pc = "cleanup"]
              /\ UNCHANGED <<ready, identity_confirmed, heart>>
    /\ UNCHANGED <<generation, transport, held, socket, closing, reader, stray, peer, silent>>

\* connect() fails: refused, timed out, or its request lost the transport.
ConnectFails ==
    /\ Locked
    /\ conn' = [conn EXCEPT !.pc = "cleanup"] /\ req' = Without("connector")
    /\ UNCHANGED <<generation, transport, ready, identity_confirmed, held, socket, closing,
                   reader, heart, stray, peer, silent>>

\* Mutant of Cleanup: a failed handshake leaves its transport in place.
CleanupSkipped ==
    /\ conn.pc = "cleanup" /\ conn' = [conn EXCEPT !.pc = "idle"]
    /\ UNCHANGED <<generation, transport, ready, identity_confirmed, held, socket, closing,
                   reader, heart, req, stray, peer, silent>>

\* _close_if_generation_changed
Cleanup ==
    /\ conn.pc = "cleanup"
    /\ conn' = [conn EXCEPT !.pc = "idle"]
    /\ IF generation = conn.start + 1 /\ ~ready
         THEN Closed(req)
         ELSE UNCHANGED <<generation, held, transport, ready, identity_confirmed, closing,
                          socket, reader, heart, req, stray>>
    /\ UNCHANGED <<peer, silent>>

-----------------------------------------------------------------------------
(* request(), for every task *)

\* Mutant of Send: an installed transport is taken for a completed login.
SendEarly(t) ==
    /\ req[t].pc = "idle" /\ transport # 0
    /\ req' = Registered(t, req)
    /\ UNCHANGED <<generation, transport, ready, identity_confirmed, held, socket, closing,
                   reader, heart, conn, stray, peer, silent>>

\* send(): refused unless the login is complete.
Send(t) ==
    /\ req[t].pc = "idle" /\ Connected
    /\ req' = Registered(t, req)
    /\ UNCHANGED <<generation, transport, ready, identity_confirmed, held, socket, closing,
                   reader, heart, conn, stray, peer, silent>>

(***************************************************************************)
(* Two payloads built in one millisecond share their uniSerial: the second *)
(* request has its serial in _pending when the collision raises, and the   *)
(* finally clause is not reached.                                          *)
(***************************************************************************)
SendCollides(t) ==
    /\ SameMillisecond
    /\ req[t].pc = "idle" /\ Connected
    /\ \E u \in Caller : req[u].fut = "pending"
    /\ stray' = stray \cup {t}
    /\ UNCHANGED <<generation, transport, ready, identity_confirmed, held, socket, closing,
                   reader, heart, conn, req, peer, silent>>

\* The connecting task fails with its request, the others only return.
Failing(t) == IF t = "connector" THEN conn' = [conn EXCEPT !.pc = "cleanup"] ELSE UNCHANGED conn

\* The write lock is free; the transport may be gone by now.
Write(t) ==
    /\ req[t].pc = "write" /\ \A u \in Requester : req[u].pc # "drain"
    /\ IF transport # 0 /\ req[t].gen = generation
         THEN req' = [req EXCEPT ![t].pc = "drain"] /\ UNCHANGED conn
         ELSE req' = Without(t) /\ Failing(t)
    /\ UNCHANGED <<generation, transport, ready, identity_confirmed, held, socket, closing,
                   reader, heart, stray, peer, silent>>

Drained(t) ==
    /\ req[t].pc = "drain" /\ req' = [req EXCEPT ![t].pc = "wait"]
    /\ UNCHANGED <<generation, transport, ready, identity_confirmed, held, socket, closing,
                   reader, heart, conn, stray, peer, silent>>

\* drain() raises: the request's generation is disconnected, if it is still the one.
DrainFails(t) ==
    /\ req[t].pc = "drain" /\ t # "beat" /\ Failing(t)
    /\ IF transport # 0 /\ req[t].gen = generation
         THEN Disconnected(Without(t))
         ELSE /\ req' = Without(t)
              /\ UNCHANGED <<transport, ready, identity_confirmed, socket, closing, reader, heart, stray>>
    /\ UNCHANGED <<generation, held, peer, silent>>

\* A caller's future is done, or its deadline has passed.
Returns(t) ==
    /\ req[t].pc # "idle" /\ t \in Caller
    /\ req' = Without(t)
    /\ UNCHANGED <<generation, transport, ready, identity_confirmed, held, socket, closing,
                   reader, heart, conn, stray, peer, silent>>

-----------------------------------------------------------------------------
(* _reader_loop and _route *)

\* An answer is routed by its serial to the future that waits for it.
Answer(t) ==
    /\ req[t].pc \in {"drain", "wait"} /\ req[t].fut = "pending"
    /\ req[t].gen \in Generation /\ reader[req[t].gen] = "reading" /\ ~silent
    /\ req' = [req EXCEPT ![t].fut = "answered"]
    /\ UNCHANGED <<generation, transport, ready, identity_confirmed, held, socket, closing,
                   reader, heart, conn, stray, peer, silent>>

\* A device update, or the late answer of a request that gave up: the push callback runs.
Push(g) ==
    /\ reader[g] = "reading" /\ ~silent
    /\ reader' = [reader EXCEPT ![g] = "callback"]
    /\ UNCHANGED <<generation, transport, ready, identity_confirmed, held, socket, closing,
                   heart, conn, req, stray, peer, silent>>

CallbackReturns(g) ==
    /\ reader[g] = "callback"
    /\ reader' = [reader EXCEPT ![g] = IF g = transport THEN "reading" ELSE "done"]
    /\ UNCHANGED <<generation, transport, ready, identity_confirmed, held, socket, closing,
                   heart, conn, req, stray, peer, silent>>

\* Mutant of ReaderStops: the reader ends and nobody is told.
ReaderStopsQuietly(g) ==
    /\ reader[g] = "reading" /\ reader' = [reader EXCEPT ![g] = "done"]
    /\ UNCHANGED <<generation, transport, ready, identity_confirmed, held, socket, closing,
                   heart, conn, req, stray, peer, silent>>

\* End of file, a socket error or a malformed frame.
ReaderStops(g) ==
    /\ reader[g] = "reading"
    /\ IF g = transport
         THEN Disconnected(req)
         ELSE /\ reader' = [reader EXCEPT ![g] = "done"]
              /\ UNCHANGED <<transport, ready, identity_confirmed, socket, closing, heart, req, stray>>
    /\ UNCHANGED <<generation, held, conn, peer, silent>>

-----------------------------------------------------------------------------
(* _heartbeat_loop *)

HeartWakes(g) ==
    /\ heart[g] = "sleeping"
    /\ IF Connected /\ g = generation
         THEN heart' = [heart EXCEPT ![g] = "request"] /\ req' = Registered("beat", req)
         ELSE heart' = [heart EXCEPT ![g] = "done"] /\ UNCHANGED req
    /\ UNCHANGED <<generation, transport, ready, identity_confirmed, held, socket, closing,
                   reader, conn, stray, peer, silent>>

HeartAnswered(g) ==
    /\ heart[g] = "request" /\ req["beat"].pc = "wait" /\ req["beat"].fut = "answered"
    /\ heart' = [heart EXCEPT ![g] = "sleeping"] /\ req' = Without("beat")
    /\ UNCHANGED <<generation, transport, ready, identity_confirmed, held, socket, closing,
                   reader, conn, stray, peer, silent>>

\* Mutant of HeartFails: the heartbeat gives up and leaves the connection as it is.
HeartFailsQuietly(g) ==
    /\ heart[g] = "request" /\ ~Locked
    /\ ~(req["beat"].pc = "wait" /\ req["beat"].fut = "answered")
    /\ heart' = [heart EXCEPT ![g] = "sleeping"] /\ req' = Without("beat")
    /\ UNCHANGED <<generation, transport, ready, identity_confirmed, held, socket, closing,
                   reader, conn, stray, peer, silent>>

\* The heartbeat times out or cannot be written, and closes the connection it belongs to.
HeartFails(g) ==
    /\ heart[g] = "request" /\ ~Locked
    /\ ~(req["beat"].pc = "wait" /\ req["beat"].fut = "answered")
    /\ IF g = generation
         THEN Closed(Without("beat"))
         ELSE /\ heart' = [heart EXCEPT ![g] = "done"] /\ req' = Without("beat")
              /\ UNCHANGED <<generation, transport, ready, identity_confirmed, held, socket,
                             closing, reader, stray>>
    /\ UNCHANGED <<conn, peer, silent>>

\* close(), from the manager.
Close ==
    /\ ~Locked /\ held /\ Closed(req)
    /\ UNCHANGED <<conn, peer, silent>>

\* The gateway falls silent: no answer, no end of file.
PeerGone ==
    /\ ~silent /\ transport # 0 /\ silent' = TRUE
    /\ UNCHANGED <<generation, transport, ready, identity_confirmed, held, socket, closing,
                   reader, heart, conn, req, stray, peer>>

Next ==
    \/ ConnectBegin \/ Opened \/ ConnectFails \/ Cleanup \/ Close \/ PeerGone
    \/ \E uid \in Uid, ok \in BOOLEAN : HelloAnswered(uid, ok) \/ LoginAnswered(uid, ok)
    \/ \E t \in Caller : Send(t) \/ SendCollides(t) \/ Returns(t)
    \/ \E t \in Requester : Write(t) \/ Drained(t) \/ DrainFails(t) \/ Answer(t)
    \/ \E g \in Generation : \/ Push(g) \/ CallbackReturns(g) \/ ReaderStops(g)
                             \/ HeartWakes(g) \/ HeartAnswered(g) \/ HeartFails(g)
                             \/ ShutDown(g)

Spec == Init /\ [][Next]_vars

\* The heartbeat's sleep ends and its request has a deadline.
FairSpec == Spec /\ \A g \in Generation :
                        WF_vars(HeartWakes(g)) /\ WF_vars(HeartAnswered(g)) /\ WF_vars(HeartFails(g))

-----------------------------------------------------------------------------
(* Properties *)

\* Types of the connection's attributes.
ConnectionTypeOK ==
    /\ generation \in 0 .. MaxGeneration /\ transport \in 0 .. MaxGeneration
    /\ ready \in BOOLEAN /\ identity_confirmed \in BOOLEAN /\ held \in BOOLEAN
    /\ socket \in [Generation -> {"none", "open", "shut"}]
    /\ closing \subseteq Generation /\ stray \subseteq Caller
    /\ reader \in [Generation -> {"none", "reading", "callback", "done"}]
    /\ heart \in [Generation -> {"none", "sleeping", "request", "done"}]
    /\ conn \in [pc : {"idle", "opening", "hello", "login", "cleanup"},
                 start : 0 .. MaxGeneration, hello : Uid]
    /\ req \in [Requester -> Request]
    /\ peer \in {"right", "wrong"} /\ silent \in BOOLEAN

(***************************************************************************)
(* "Own the sole reader": whoever reports connected has a running reader   *)
(* and a running heartbeat of its own generation, and no reader of an      *)
(* earlier generation can still route a frame.                             *)
(***************************************************************************)
ConnectedIsSupervised ==
    /\ Connected => /\ reader[generation] \in {"reading", "callback"}
                    /\ heart[generation] \in {"sleeping", "request"}
    /\ \A g \in Generation : reader[g] \in {"reading", "callback"} => g = transport

\* Nobody waits for an answer that no reader can bring any more (_fail_pending).
WaitersReachable ==
    \A t \in Requester : req[t].fut = "pending" => transport # 0 /\ req[t].gen = transport

(***************************************************************************)
(* No socket is lost: an open one is the installed transport or is being   *)
(* closed, through failed handshakes, timeouts, write errors and           *)
(* reconnects of one connecting task.                                      *)
(***************************************************************************)
NoSocketLost == \A g \in Generation : socket[g] = "open" => g = transport \/ g \in closing

(***************************************************************************)
(* A connection that calls itself confirmed talks to the expected gateway; *)
(* the flag never survives into the next transport.                        *)
(***************************************************************************)
ConfirmedIsGenuine == Connected /\ identity_confirmed => peer = "right"

\* Every future in _pending has a request that waits for it and will remove it.
NothingStray == stray = {}

\* A gateway that falls silent is noticed by the heartbeat.
SilenceNoticed ==
    \A g \in Generation : (Connected /\ transport = g /\ silent) ~> transport # g

-----------------------------------------------------------------------------
Link == INSTANCE GatewayLink WITH
    link <- IF Connected THEN "up" ELSE IF Locked THEN "connecting" ELSE "dead",
    open <- {t \in Caller : req[t].fut = "pending"}

(***************************************************************************)
(* The connection implements the link the manager relies on: calls are     *)
(* open only while it is up, and its loss ends them all in the same step.  *)
(***************************************************************************)
ImplementsLink == Link!Spec

=============================================================================
