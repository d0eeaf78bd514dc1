----------------------- MODULE GatewayConnectionProofs -----------------------
(***************************************************************************)
(* Proofs about one LAN connection, for any number of callers and          *)
(* generations: it is supervised whenever it is usable, nobody waits for   *)
(* an answer that no reader can bring, no socket is lost, a confirmed      *)
(* identity is genuine, and the whole implements GatewayLink.              *)
(***************************************************************************)
EXTENDS GatewayConnection, TLAPS

Live == {"reading", "callback"}
Beating == {"sleeping", "request"}

\* The installed transport is the latest generation and has its reader.
Installed == transport # 0 => transport = generation /\ reader[transport] \in Live

\* Readers and heartbeats run for the installed transport only.
NoneLeftBehind ==
    /\ \A g \in Generation : reader[g] \in Live => g = transport
    /\ \A g \in Generation : heart[g] \in Beating => Connected /\ g = transport
    /\ Connected => heart[generation] \in Beating

(***************************************************************************)
(* Where the connecting task is says what may be installed.  A transport   *)
(* that is not ready belongs to a handshake, or to one that failed and     *)
(* whose clean-up will recognise it by its generation.                     *)
(***************************************************************************)
Handshake ==
    /\ Connected => conn.pc = "idle"
    /\ conn.pc = "opening" => transport = 0 /\ generation = conn.start
    /\ conn.pc \in {"hello", "login"} => ~ready /\ generation = conn.start + 1
    /\ conn.pc = "cleanup" => transport = 0 \/ generation = conn.start + 1
    /\ conn.pc = "idle" /\ transport # 0 => ready
    /\ conn.pc = "login" => Says(conn.hello)

\* A call is open only while the connection is usable.
CallsNeedLink == \A t \in Caller : req[t].fut = "pending" => Connected

\* The connecting task has a request under way only during its handshake.
ConnectorAsks == req["connector"].pc # "idle" => conn.pc \in {"hello", "login"}

\* The inductive invariant.
ConnInv ==
    /\ ConnectionTypeOK /\ Installed /\ NoneLeftBehind /\ Handshake /\ ConnectorAsks
    /\ WaitersReachable /\ CallsNeedLink /\ NoSocketLost /\ ConfirmedIsGenuine

-----------------------------------------------------------------------------
(* Operators on requests *)

\* Generation 0, before any connect(), is a generation.
LEMMA ZeroGeneration == 0 \in 0 .. MaxGeneration
BY ConnectionAssumption

\* A task without a request has a well-formed empty one.
LEMMA NoRequestType ==
    NoRequest \in Request /\ NoRequest.fut = "none" /\ NoRequest.pc = "idle"
BY ConnectionAssumption DEF NoRequest, Request

\* Ending the request of one task leaves the others' alone.
LEMMA WithoutFacts ==
    ASSUME ConnectionTypeOK, NEW t \in Requester
    PROVE  /\ Without(t) \in [Requester -> Request]
           /\ Without(t)[t].fut = "none" /\ Without(t)[t].pc = "idle"
           /\ \A u \in Requester : u # t => Without(t)[u] = req[u]
BY NoRequestType DEF Without, ConnectionTypeOK

\* After _fail_pending nobody waits.
LEMMA FailPendingFacts ==
    ASSUME NEW r \in [Requester -> Request]
    PROVE  /\ FailPending(r) \in [Requester -> Request]
           /\ \A t \in Requester : /\ FailPending(r)[t].fut # "pending"
                                   /\ FailPending(r)[t].pc = r[t].pc
<1>1. \A t \in Requester : r[t] \in Request
  OBVIOUS
<1>2. \A q \in Request : q.fut = "pending" =>
         /\ [q EXCEPT !.fut = "failed"] \in Request
         /\ [q EXCEPT !.fut = "failed"].fut = "failed" /\ [q EXCEPT !.fut = "failed"].pc = q.pc
  BY DEF Request
<1> QED BY <1>1, <1>2 DEF FailPending

\* The same after the heartbeat's request was taken away.
LEMMA LossFacts ==
    ASSUME NEW r \in [Requester -> Request]
    PROVE  /\ FailPending([r EXCEPT !["beat"] = NoRequest]) \in [Requester -> Request]
           /\ \A t \in Requester :
                 FailPending([r EXCEPT !["beat"] = NoRequest])[t].fut # "pending"
           /\ FailPending([r EXCEPT !["beat"] = NoRequest])["connector"].pc = r["connector"].pc
<1>1. /\ [r EXCEPT !["beat"] = NoRequest] \in [Requester -> Request]
      /\ [r EXCEPT !["beat"] = NoRequest]["connector"] = r["connector"]
      /\ "connector" \in Requester
  BY NoRequestType DEF Requester
<1> QED BY <1>1, FailPendingFacts

\* Tasks that end: nobody of them is live, and the others keep their type.
LEMMA EndedFacts ==
    ASSUME ConnectionTypeOK
    PROVE  /\ Ended(reader) \in [Generation -> {"none", "reading", "callback", "done"}]
           /\ Ended(heart) \in [Generation -> {"none", "sleeping", "request", "done"}]
           /\ \A g \in Generation : Ended(reader)[g] \notin Live /\ Ended(heart)[g] \notin Beating
BY DEF Ended, Live, Beating, ConnectionTypeOK

\* A new request of the latest generation.
LEMMA RegisteredFacts ==
    ASSUME ConnectionTypeOK, NEW t \in Requester
    PROVE  /\ Registered(t, req) \in [Requester -> Request]
           /\ Registered(t, req)[t].gen = generation /\ Registered(t, req)[t].pc = "write"
           /\ \A u \in Requester : u # t => Registered(t, req)[u] = req[u]
BY DEF Registered, Request, ConnectionTypeOK

-----------------------------------------------------------------------------
(* Steps *)

\* A new connection object has nothing installed and nobody waiting.
LEMMA InitConn == Init => ConnInv
<1> SUFFICES ASSUME Init PROVE ConnInv
  OBVIOUS
<1>1. ConnectionTypeOK
  <2>1. req \in [Requester -> Request]
    BY NoRequestType DEF Init
  <2>2. conn \in [pc : {"idle", "opening", "hello", "login", "cleanup"},
                 start : 0 .. MaxGeneration, hello : Uid]
    BY ZeroGeneration DEF Init, Uid
  <2> QED BY <2>1, <2>2, ZeroGeneration DEF Init, ConnectionTypeOK
<1>2. \A t \in Requester : req[t].fut = "none"
  BY NoRequestType DEF Init
<1>3. Installed /\ NoneLeftBehind /\ Handshake
  BY DEF Init, Installed, NoneLeftBehind, Handshake, Connected, Live, Beating
<1>4. ConnectorAsks /\ WaitersReachable /\ CallsNeedLink /\ NoSocketLost /\ ConfirmedIsGenuine
  BY <1>2, NoRequestType DEF ConnectorAsks, Init, WaitersReachable, CallsNeedLink, NoSocketLost, ConfirmedIsGenuine,
     Connected, Requester
<1> QED BY <1>1, <1>3, <1>4 DEF ConnInv

(***************************************************************************)
(* The loss of the transport, by a disconnect or by close(): nothing of it *)
(* stays behind, wherever the connecting task is.                          *)
(***************************************************************************)
LEMMA LossConn ==
    ASSUME ConnInv,
           generation' \in 0 .. MaxGeneration, generation' >= generation,
           held' \in BOOLEAN, transport' = 0, ready' = FALSE, identity_confirmed' = FALSE,
           socket' \in [Generation -> {"none", "open", "shut"}], closing' \subseteq Generation,
           NoSocketLost',
           reader' = Ended(reader), heart' = Ended(heart), stray' = {},
           req' \in [Requester -> Request],
           \A t \in Requester : req'[t].fut # "pending", ConnectorAsks',
           \/ conn' = conn /\ (Locked => generation' = generation)
           \/ conn' = [conn EXCEPT !.pc = "cleanup"]
           \/ conn' = [conn EXCEPT !.pc = "idle"],
           UNCHANGED <<peer, silent>>
    PROVE  ConnInv'
<1>1. ConnectionTypeOK'
  <2>1. conn' \in [pc : {"idle", "opening", "hello", "login", "cleanup"},
                  start : 0 .. MaxGeneration, hello : Uid]
    BY DEF ConnInv, ConnectionTypeOK
  <2> QED BY <2>1, EndedFacts, ZeroGeneration DEF ConnInv, ConnectionTypeOK
<1>2. Installed' /\ NoneLeftBehind' /\ WaitersReachable' /\ CallsNeedLink' /\ ConfirmedIsGenuine'
  BY EndedFacts DEF ConnInv, Installed, NoneLeftBehind, WaitersReachable, CallsNeedLink,
     ConfirmedIsGenuine, Connected, Requester
<1>3. Handshake'
  BY DEF ConnInv, ConnectionTypeOK, Handshake, Connected, Says, Locked
<1> QED BY <1>1, <1>2, <1>3 DEF ConnInv

(***************************************************************************)
(* Steps that leave the transport and its tasks alone: what becomes        *)
(* pending, if anything, is a request over a transport that is installed.  *)
(***************************************************************************)
LEMMA RequestConn ==
    ASSUME ConnInv,
           UNCHANGED <<generation, transport, ready, identity_confirmed, held, socket, closing,
                       reader, heart, peer>>,
           silent' \in BOOLEAN, stray' \subseteq Caller,
           req' \in [Requester -> Request], ConnectorAsks',
           \A t \in Requester : req'[t].fut = "pending" =>
              \/ req[t].fut = "pending" /\ req'[t].gen = req[t].gen
              \/ /\ transport # 0 /\ req'[t].gen = generation
                 /\ t \in Caller => Connected,
           \/ conn' = conn
           \/ Locked /\ conn' = [conn EXCEPT !.pc = "cleanup"]
    PROVE  ConnInv'
<1>1. ConnectionTypeOK'
  BY DEF ConnInv, ConnectionTypeOK
<1>2. Installed' /\ NoneLeftBehind' /\ NoSocketLost' /\ ConfirmedIsGenuine'
  BY DEF ConnInv, Installed, NoneLeftBehind, NoSocketLost, ConfirmedIsGenuine, Connected
<1>3. WaitersReachable' /\ CallsNeedLink'
  BY DEF ConnInv, WaitersReachable, CallsNeedLink, Installed, Connected, Requester
<1>4. Handshake'
  BY DEF ConnInv, ConnectionTypeOK, Handshake, Connected, Says, Locked
<1> QED BY <1>1, <1>2, <1>3, <1>4 DEF ConnInv

\* Disconnected loses the transport and shuts its socket.
LEMMA DisconnectedConn ==
    ASSUME ConnInv, transport # 0, NEW r \in [Requester -> Request], Disconnected(r),
           UNCHANGED <<generation, held, peer, silent>>,
           \/ conn' = conn /\ r["connector"] = req["connector"]
           \/ conn' = [conn EXCEPT !.pc = "cleanup"] /\ r["connector"].pc = "idle"
    PROVE  ConnInv'
<1>1. /\ req' \in [Requester -> Request] /\ \A t \in Requester : req'[t].fut # "pending"
      /\ req'["connector"].pc = r["connector"].pc
  BY LossFacts DEF Disconnected
<1>2. ConnectorAsks'
  BY <1>1 DEF ConnInv, ConnectionTypeOK, ConnectorAsks
<1>3. /\ socket' \in [Generation -> {"none", "open", "shut"}]
      /\ closing' = closing /\ closing' \subseteq Generation
  BY DEF ConnInv, ConnectionTypeOK, Disconnected
<1>4. NoSocketLost'
  BY <1>3 DEF ConnInv, ConnectionTypeOK, NoSocketLost, Disconnected
<1>5. generation' \in 0 .. MaxGeneration /\ generation' >= generation /\ held' \in BOOLEAN
  BY ConnectionAssumption DEF ConnInv, ConnectionTypeOK
<1> QED BY <1>1, <1>2, <1>3, <1>4, <1>5, LossConn DEF Disconnected

\* Closed loses the transport and hands its socket to the closing task.
LEMMA ClosedConn ==
    ASSUME ConnInv, NEW r \in [Requester -> Request], Closed(r), ~Locked,
           \A t \in Requester : r[t].fut = "pending" => req[t].fut = "pending",
           r["connector"] = req["connector"],
           UNCHANGED <<peer, silent>>,
           \/ conn' = conn
           \/ conn' = [conn EXCEPT !.pc = "idle"]
    PROVE  ConnInv'
<1>1. req["connector"].pc = "idle"
  BY DEF ConnInv, ConnectorAsks, Locked
<1>2. CASE transport = 0 /\ ~held
  <2>1. /\ req' = r
        /\ UNCHANGED <<generation, held, transport, ready, identity_confirmed, closing,
                       socket, reader, heart, stray>>
    BY <1>2 DEF Closed
  <2>2. ConnectionTypeOK'
    BY <2>1 DEF ConnInv, ConnectionTypeOK
  <2>3. Installed' /\ NoneLeftBehind' /\ NoSocketLost' /\ ConfirmedIsGenuine'
    BY <2>1 DEF ConnInv, Installed, NoneLeftBehind, NoSocketLost, ConfirmedIsGenuine, Connected
  <2>4. WaitersReachable' /\ CallsNeedLink' /\ ConnectorAsks'
    BY <1>1, <1>2, <2>1 DEF ConnInv, WaitersReachable, CallsNeedLink, ConnectorAsks, Requester
  <2>5. Handshake'
    BY <1>2, <2>1 DEF ConnInv, ConnectionTypeOK, Handshake, Connected, Says
  <2> QED BY <2>2, <2>3, <2>4, <2>5 DEF ConnInv
<1>3. CASE ~(transport = 0 /\ ~held)
  <2>1. /\ generation < MaxGeneration /\ generation' = generation + 1 /\ held' = FALSE
        /\ transport' = 0 /\ ready' = FALSE /\ identity_confirmed' = FALSE
        /\ closing' = closing \cup CapturedWriter
        /\ reader' = Ended(reader) /\ heart' = Ended(heart)
        /\ req' = FailPending([r EXCEPT !["beat"] = NoRequest]) /\ stray' = {}
        /\ socket' = socket
    BY <1>3 DEF Closed
  <2>2. /\ req' \in [Requester -> Request] /\ \A t \in Requester : req'[t].fut # "pending"
        /\ req'["connector"].pc = "idle"
    BY <1>1, <2>1, LossFacts
  <2>3. CapturedWriter \subseteq Generation
    BY ConnectionAssumption DEF ConnInv, ConnectionTypeOK, CapturedWriter, Generation
  <2>4. closing' \subseteq Generation /\ socket' \in [Generation -> {"none", "open", "shut"}]
    BY <2>1, <2>3 DEF ConnInv, ConnectionTypeOK
  <2>5. NoSocketLost'
    BY <2>1 DEF ConnInv, NoSocketLost, CapturedWriter, Generation
  <2>6. generation' \in 0 .. MaxGeneration /\ generation' >= generation
    BY <2>1, ConnectionAssumption DEF ConnInv, ConnectionTypeOK
  <2>7. ConnectorAsks'
    BY <2>2 DEF ConnectorAsks
  <2> QED BY <2>1, <2>2, <2>4, <2>5, <2>6, <2>7, LossConn
<1> QED BY <1>2, <1>3

\* connect() up to the hello request: the new generation starts from nothing.
LEMMA OpenedConn == ASSUME ConnInv, Opened PROVE ConnInv'
<1> DEFINE g == generation + 1
           ask == [pc |-> "write", gen |-> g, fut |-> "pending"]
<1>1. /\ g \in Generation /\ g \in 0 .. MaxGeneration /\ g # 0
      /\ transport = 0 /\ conn.pc = "opening" /\ conn.start + 1 = g
  BY ConnectionAssumption DEF Opened, ConnInv, ConnectionTypeOK, Handshake, Generation
<1>2. /\ generation' = g /\ transport' = g /\ ready' = FALSE /\ identity_confirmed' = FALSE
      /\ held' = TRUE /\ socket' = [socket EXCEPT ![g] = "open"]
      /\ reader' = [reader EXCEPT ![g] = "reading"] /\ heart' = heart
      /\ req' = [req EXCEPT !["connector"] = ask]
      /\ conn' = [conn EXCEPT !.pc = "hello"]
      /\ peer' \in {"right", "wrong"} /\ silent' = FALSE /\ UNCHANGED <<closing, stray>>
  BY DEF Opened
<1>3. ask \in Request /\ ask.gen = g /\ ask.pc = "write"
  BY <1>1 DEF Request
<1> HIDE DEF g, ask
<1>4. "connector" \in Requester /\ "connector" \notin Caller
  BY ConnectionAssumption DEF Requester
<1>5. ConnectionTypeOK'
  BY <1>1, <1>2, <1>3, <1>4 DEF ConnInv, ConnectionTypeOK
<1>6. Installed'
  BY <1>1, <1>2 DEF ConnInv, ConnectionTypeOK, Installed, Live
<1>7. NoneLeftBehind'
  BY <1>1, <1>2, ConnectionAssumption
     DEF ConnInv, ConnectionTypeOK, NoneLeftBehind, Connected, Generation
<1>8. \A t \in Requester : req[t].fut # "pending"
  BY <1>1 DEF ConnInv, WaitersReachable
<1>9. WaitersReachable' /\ CallsNeedLink'
  BY <1>1, <1>2, <1>3, <1>4, <1>8
     DEF ConnInv, ConnectionTypeOK, WaitersReachable, CallsNeedLink, Requester
<1>10. Handshake' /\ ConnectorAsks' /\ ConfirmedIsGenuine'
  BY <1>1, <1>2 DEF ConnInv, ConnectionTypeOK, Handshake, ConnectorAsks, ConfirmedIsGenuine, Connected
<1>11. NoSocketLost'
  BY <1>1, <1>2, ConnectionAssumption DEF ConnInv, ConnectionTypeOK, NoSocketLost, Generation
<1> QED BY <1>5, <1>6, <1>7, <1>9, <1>10, <1>11 DEF ConnInv

\* The hello's answer leads to the login or to the clean-up.
LEMMA HelloConn ==
    ASSUME ConnInv, NEW uid \in Uid, NEW ok \in BOOLEAN, HelloAnswered(uid, ok)
    PROVE  ConnInv'
<1>1. "connector" \in Requester /\ "connector" \notin Caller
  BY ConnectionAssumption DEF Requester
<1>2. ConnectionTypeOK /\ conn.pc = "hello" /\ Says(uid)
  BY DEF ConnInv, HelloAnswered
<1>3. CASE ok /\ uid # "other" /\ transport # 0
  <2>1. /\ conn' = [conn EXCEPT !.pc = "login", !.hello = uid] /\ req' = Registered("connector", req)
        /\ UNCHANGED <<generation, transport, ready, identity_confirmed, held, socket, closing,
                       reader, heart, stray, peer, silent>>
    BY <1>3 DEF HelloAnswered
  <2>2. /\ req' \in [Requester -> Request] /\ req'["connector"].gen = generation
        /\ \A u \in Requester : u # "connector" => req'[u] = req[u]
    BY <1>1, <1>2, <2>1, RegisteredFacts
  <2>3. ConnectionTypeOK'
    BY <1>2, <2>1, <2>2 DEF ConnectionTypeOK
  <2>4. Installed' /\ NoneLeftBehind' /\ NoSocketLost' /\ ConfirmedIsGenuine'
    BY <2>1 DEF ConnInv, Installed, NoneLeftBehind, NoSocketLost, ConfirmedIsGenuine, Connected
  <2>5. WaitersReachable' /\ CallsNeedLink'
    BY <1>1, <1>3, <2>1, <2>2
       DEF ConnInv, WaitersReachable, CallsNeedLink, Installed, Connected, Requester
  <2>6. Handshake' /\ ConnectorAsks'
    BY <1>2, <2>1 DEF ConnInv, ConnectionTypeOK, Handshake, ConnectorAsks, Connected, Says
  <2> QED BY <2>3, <2>4, <2>5, <2>6 DEF ConnInv
<1>4. CASE ~(ok /\ uid # "other" /\ transport # 0)
  <2>1. /\ conn' = [conn EXCEPT !.pc = "cleanup"] /\ req' = Without("connector")
        /\ UNCHANGED <<generation, transport, ready, identity_confirmed, held, socket, closing,
                       reader, heart, stray, peer, silent>>
    BY <1>4 DEF HelloAnswered
  <2>2. /\ req' \in [Requester -> Request] /\ req'["connector"].fut = "none"
        /\ req'["connector"].pc = "idle"
        /\ \A u \in Requester : u # "connector" => req'[u] = req[u]
    BY <1>1, <1>2, <2>1, WithoutFacts
  <2>3. silent' \in BOOLEAN /\ stray' \subseteq Caller /\ Locked /\ ConnectorAsks'
    BY <1>2, <2>1, <2>2 DEF ConnectionTypeOK, Locked, ConnectorAsks
  <2> QED BY <2>1, <2>2, <2>3, RequestConn
<1> QED BY <1>3, <1>4

\* The login's answer: usable with a heartbeat, or already lost, or refused.
LEMMA LoginConn ==
    ASSUME ConnInv, NEW uid \in Uid, NEW ok \in BOOLEAN, LoginAnswered(uid, ok)
    PROVE  ConnInv'
<1>1. "connector" \in Requester /\ "connector" \notin Caller
  BY ConnectionAssumption DEF Requester
<1>2. /\ ConnectionTypeOK /\ conn.pc = "login" /\ Says(uid) /\ req' = Without("connector")
      /\ UNCHANGED <<generation, transport, held, socket, closing, reader, stray, peer, silent>>
  BY DEF ConnInv, LoginAnswered
<1>3. /\ req' \in [Requester -> Request] /\ req'["connector"].fut = "none"
      /\ req'["connector"].pc = "idle"
      /\ \A u \in Requester : u # "connector" => req'[u] = req[u]
  BY <1>1, <1>2, WithoutFacts
<1>4. ConnectorAsks'
  BY <1>3 DEF ConnectorAsks
<1>5. CASE ok /\ Accepts(conn.hello, uid)
  <2>1. /\ ready' = TRUE /\ identity_confirmed' = Confirms(conn.hello, uid)
        /\ heart' = [heart EXCEPT ![generation] = IF transport = 0 THEN "done" ELSE "sleeping"]
        /\ conn' = [conn EXCEPT !.pc = "idle"]
    BY <1>5 DEF LoginAnswered
  <2>2. /\ ~ready /\ generation = conn.start + 1 /\ generation \in Generation
        /\ Says(conn.hello)
    BY <1>2, ConnectionAssumption DEF ConnInv, ConnectionTypeOK, Handshake, Generation
  <2>3. ConnectionTypeOK'
    BY <1>2, <1>3, <2>1, <2>2 DEF ConnectionTypeOK, Confirms
  <2>4. Installed' /\ NoSocketLost'
    BY <1>2, <2>1 DEF ConnInv, Installed, NoSocketLost
  <2>5. NoneLeftBehind'
    BY <1>2, <2>1, <2>2 DEF ConnInv, ConnectionTypeOK, Installed, NoneLeftBehind, Connected, Beating
  <2>6. WaitersReachable' /\ CallsNeedLink'
    BY <1>1, <1>2, <1>3, <2>1 DEF ConnInv, WaitersReachable, CallsNeedLink, Connected, Requester
  <2>7. Handshake'
    BY <1>2, <2>1 DEF ConnInv, ConnectionTypeOK, Handshake, Connected
  <2>8. ConfirmedIsGenuine'
    BY <1>2, <2>1, <2>2 DEF ConnectionTypeOK, ConfirmedIsGenuine, Confirms, PeerUid, Says
  <2> QED BY <1>4, <2>3, <2>4, <2>5, <2>6, <2>7, <2>8 DEF ConnInv
<1>6. CASE ~(ok /\ Accepts(conn.hello, uid))
  <2>1. conn' = [conn EXCEPT !.pc = "cleanup"] /\ UNCHANGED <<ready, identity_confirmed, heart>>
    BY <1>6 DEF LoginAnswered
  <2>2. silent' \in BOOLEAN /\ stray' \subseteq Caller /\ Locked
    BY <1>2 DEF ConnectionTypeOK, Locked
  <2> QED BY <1>2, <1>3, <1>4, <2>1, <2>2, RequestConn
<1> QED BY <1>5, <1>6

\* The rest of connect(), close() and the peer.
LEMMA ConnectorConn ==
    ASSUME ConnInv, ConnectBegin \/ ConnectFails \/ Cleanup \/ Close \/ PeerGone
    PROVE  ConnInv'
<1>0. /\ "connector" \in Requester /\ "connector" \notin Caller /\ ConnectionTypeOK
      /\ req \in [Requester -> Request] /\ silent \in BOOLEAN /\ stray \subseteq Caller
  BY ConnectionAssumption DEF Requester, ConnInv, ConnectionTypeOK
<1>1. CASE ConnectBegin
  <2>1. /\ conn.pc = "idle" /\ ~Connected /\ conn' = [pc |-> "opening", start |-> generation, hello |-> "none"]
        /\ UNCHANGED <<generation, transport, ready, identity_confirmed, held, socket, closing,
                       reader, heart, req, stray, peer, silent>>
    BY <1>1 DEF ConnectBegin
  <2>2. ConnectionTypeOK'
    BY <1>0, <2>1 DEF ConnectionTypeOK, Uid
  <2>3. Installed' /\ NoneLeftBehind' /\ NoSocketLost' /\ ConfirmedIsGenuine'
    BY <2>1 DEF ConnInv, Installed, NoneLeftBehind, NoSocketLost, ConfirmedIsGenuine, Connected
  <2>4. WaitersReachable' /\ CallsNeedLink' /\ ConnectorAsks'
    BY <2>1 DEF ConnInv, WaitersReachable, CallsNeedLink, ConnectorAsks, Connected
  <2>5. Handshake'
    BY <1>0, <2>1 DEF ConnInv, ConnectionTypeOK, Handshake, Connected
  <2> QED BY <2>2, <2>3, <2>4, <2>5 DEF ConnInv
<1>2. CASE ConnectFails
  <2>1. /\ Locked /\ conn' = [conn EXCEPT !.pc = "cleanup"] /\ req' = Without("connector")
        /\ UNCHANGED <<generation, transport, ready, identity_confirmed, held, socket, closing,
                       reader, heart, stray, peer, silent>>
    BY <1>2 DEF ConnectFails
  <2>2. /\ req' \in [Requester -> Request] /\ req'["connector"].fut = "none"
        /\ req'["connector"].pc = "idle"
        /\ \A u \in Requester : u # "connector" => req'[u] = req[u]
    BY <1>0, <2>1, WithoutFacts
  <2>3. ConnectorAsks'
    BY <2>2 DEF ConnectorAsks
  <2> QED BY <1>0, <2>1, <2>2, <2>3, RequestConn
<1>3. CASE Cleanup
  <2>1. /\ conn.pc = "cleanup" /\ conn' = [conn EXCEPT !.pc = "idle"] /\ ~Locked
        /\ UNCHANGED <<peer, silent>>
    BY <1>3 DEF Cleanup, Locked
  <2>2. CASE generation = conn.start + 1 /\ ~ready
    BY <1>0, <1>3, <2>1, <2>2, ClosedConn DEF Cleanup
  <2>3. CASE ~(generation = conn.start + 1 /\ ~ready)
    <3>1. UNCHANGED <<generation, held, transport, ready, identity_confirmed, closing,
                      socket, reader, heart, req, stray>>
      BY <1>3, <2>3 DEF Cleanup
    <3>2. transport = 0
      BY <2>1, <2>3 DEF ConnInv, Handshake, Connected
    <3>3. ConnectionTypeOK'
      BY <1>0, <2>1, <3>1 DEF ConnectionTypeOK
    <3>4. Installed' /\ NoneLeftBehind' /\ NoSocketLost' /\ ConfirmedIsGenuine'
      BY <2>1, <3>1 DEF ConnInv, Installed, NoneLeftBehind, NoSocketLost, ConfirmedIsGenuine, Connected
    <3>5. WaitersReachable' /\ CallsNeedLink' /\ ConnectorAsks'
      BY <2>1, <3>1 DEF ConnInv, WaitersReachable, CallsNeedLink, ConnectorAsks, Connected
    <3>6. Handshake'
      BY <1>0, <2>1, <3>1, <3>2 DEF ConnectionTypeOK, Handshake, Connected
    <3> QED BY <3>3, <3>4, <3>5, <3>6 DEF ConnInv
  <2> QED BY <2>2, <2>3
<1>4. CASE Close
  BY <1>0, <1>4, ClosedConn DEF Close
<1>5. CASE PeerGone
  <2>1. /\ silent' = TRUE
        /\ UNCHANGED <<generation, transport, ready, identity_confirmed, held, socket, closing,
                       reader, heart, conn, req, stray, peer>>
    BY <1>5 DEF PeerGone
  <2>2. ConnectorAsks'
    BY <2>1 DEF ConnInv, ConnectorAsks
  <2> QED BY <1>0, <2>1, <2>2, RequestConn
<1> QED BY <1>1, <1>2, <1>3, <1>4, <1>5

\* The steps of a caller of send().
LEMMA CallerConn ==
    ASSUME ConnInv, NEW t \in Caller, Send(t) \/ SendCollides(t) \/ Returns(t)
    PROVE  ConnInv'
<1>0. /\ t \in Requester /\ t # "connector" /\ "connector" \in Requester /\ ConnectionTypeOK
      /\ req \in [Requester -> Request] /\ silent \in BOOLEAN /\ stray \subseteq Caller
  BY ConnectionAssumption DEF Requester, ConnInv, ConnectionTypeOK
<1>1. CASE Send(t)
  <2>1. /\ Connected /\ req' = Registered(t, req)
        /\ UNCHANGED <<generation, transport, ready, identity_confirmed, held, socket, closing,
                       reader, heart, conn, stray, peer, silent>>
    BY <1>1 DEF Send
  <2>2. /\ req' \in [Requester -> Request] /\ req'[t].gen = generation
        /\ \A u \in Requester : u # t => req'[u] = req[u]
    BY <1>0, <2>1, RegisteredFacts
  <2>3. ConnectorAsks' /\ transport # 0
    BY <1>0, <2>1, <2>2 DEF ConnInv, ConnectorAsks, Connected
  <2> QED BY <1>0, <2>1, <2>2, <2>3, RequestConn
<1>2. CASE SendCollides(t)
  <2>1. /\ stray' = stray \cup {t}
        /\ UNCHANGED <<generation, transport, ready, identity_confirmed, held, socket, closing,
                       reader, heart, conn, req, peer, silent>>
    BY <1>2 DEF SendCollides
  <2>2. ConnectorAsks' /\ stray' \subseteq Caller
    BY <1>0, <2>1 DEF ConnInv, ConnectorAsks
  <2> QED BY <1>0, <2>1, <2>2, RequestConn
<1>3. CASE Returns(t)
  <2>1. /\ req' = Without(t)
        /\ UNCHANGED <<generation, transport, ready, identity_confirmed, held, socket, closing,
                       reader, heart, conn, stray, peer, silent>>
    BY <1>3 DEF Returns
  <2>2. /\ req' \in [Requester -> Request] /\ req'[t].fut = "none"
        /\ \A u \in Requester : u # t => req'[u] = req[u]
    BY <1>0, <2>1, WithoutFacts
  <2>3. ConnectorAsks'
    BY <1>0, <2>1, <2>2 DEF ConnInv, ConnectorAsks
  <2> QED BY <1>0, <2>1, <2>2, <2>3, RequestConn
<1> QED BY <1>1, <1>2, <1>3

\* Writing, draining and answering, for every task.
LEMMA RequesterConn ==
    ASSUME ConnInv, NEW t \in Requester, Write(t) \/ Drained(t) \/ DrainFails(t) \/ Answer(t)
    PROVE  ConnInv'
<1>0. /\ "connector" \in Requester /\ ConnectionTypeOK
      /\ req \in [Requester -> Request] /\ silent \in BOOLEAN /\ stray \subseteq Caller
  BY ConnectionAssumption DEF Requester, ConnInv, ConnectionTypeOK
<1>1. ASSUME req' \in [Requester -> Request], req'[t].pc # "idle", req[t].pc # "idle",
             req'[t].fut = "pending" => req[t].fut = "pending", req'[t].gen = req[t].gen,
             \A u \in Requester : u # t => req'[u] = req[u],
             UNCHANGED <<generation, transport, ready, identity_confirmed, held, socket, closing,
                         reader, heart, conn, stray, peer, silent>>
      PROVE  ConnInv'
  <2>1. ConnectorAsks'
    BY <1>0, <1>1 DEF ConnInv, ConnectorAsks
  <2> QED BY <1>0, <1>1, <2>1, RequestConn
<1>2. ASSUME req[t].pc # "idle", req' = Without(t), Failing(t),
             UNCHANGED <<generation, transport, ready, identity_confirmed, held, socket, closing,
                         reader, heart, stray, peer, silent>>
      PROVE  ConnInv'
  <2>1. /\ req' \in [Requester -> Request] /\ req'[t].fut = "none" /\ req'[t].pc = "idle"
        /\ \A u \in Requester : u # t => req'[u] = req[u]
    BY <1>0, <1>2, WithoutFacts
  <2>2. t = "connector" => Locked
    BY <1>2 DEF ConnInv, ConnectorAsks, Locked
  <2>3. conn' = conn \/ (Locked /\ conn' = [conn EXCEPT !.pc = "cleanup"])
    BY <1>2, <2>2 DEF Failing
  <2>4. ConnectorAsks'
    BY <1>0, <1>2, <2>1 DEF ConnInv, ConnectorAsks, Failing
  <2> QED BY <1>0, <1>2, <2>1, <2>3, <2>4, RequestConn
<1>3. CASE Write(t)
  <2>1. CASE transport # 0 /\ req[t].gen = generation
    <3>1. /\ req' = [req EXCEPT ![t].pc = "drain"] /\ req[t].pc = "write"
          /\ UNCHANGED <<generation, transport, ready, identity_confirmed, held, socket, closing,
                         reader, heart, conn, stray, peer, silent>>
      BY <1>3, <2>1 DEF Write
    <3>2. /\ req' \in [Requester -> Request] /\ req'[t].pc = "drain"
          /\ req'[t].fut = req[t].fut /\ req'[t].gen = req[t].gen
          /\ \A u \in Requester : u # t => req'[u] = req[u]
      BY <1>0, <3>1 DEF Request
    <3> QED BY <1>1, <3>1, <3>2
  <2>2. CASE ~(transport # 0 /\ req[t].gen = generation)
    BY <1>2, <1>3, <2>2 DEF Write
  <2> QED BY <2>1, <2>2
<1>4. CASE Drained(t)
  <2>1. /\ req' = [req EXCEPT ![t].pc = "wait"] /\ req[t].pc = "drain"
        /\ UNCHANGED <<generation, transport, ready, identity_confirmed, held, socket, closing,
                       reader, heart, conn, stray, peer, silent>>
    BY <1>4 DEF Drained
  <2>2. /\ req' \in [Requester -> Request] /\ req'[t].pc = "wait"
        /\ req'[t].fut = req[t].fut /\ req'[t].gen = req[t].gen
        /\ \A u \in Requester : u # t => req'[u] = req[u]
    BY <1>0, <2>1 DEF Request
  <2> QED BY <1>1, <2>1, <2>2
<1>5. CASE DrainFails(t)
  <2>1. /\ req[t].pc = "drain" /\ t # "beat" /\ Failing(t) /\ UNCHANGED <<generation, held, peer, silent>>
    BY <1>5 DEF DrainFails
  <2>2. CASE transport # 0 /\ req[t].gen = generation
    <3>1. Disconnected(Without(t))
      BY <1>5, <2>2 DEF DrainFails
    <3>2. /\ Without(t) \in [Requester -> Request] /\ Without(t)[t].pc = "idle"
          /\ \A u \in Requester : u # t => Without(t)[u] = req[u]
      BY <1>0, WithoutFacts
    <3>3. \/ conn' = conn /\ Without(t)["connector"] = req["connector"]
          \/ conn' = [conn EXCEPT !.pc = "cleanup"] /\ Without(t)["connector"].pc = "idle"
      BY <1>0, <2>1, <3>2 DEF Failing
    <3> QED BY <2>1, <2>2, <3>1, <3>2, <3>3, DisconnectedConn
  <2>3. CASE ~(transport # 0 /\ req[t].gen = generation)
    BY <1>2, <1>5, <2>1, <2>3 DEF DrainFails
  <2> QED BY <2>2, <2>3
<1>6. CASE Answer(t)
  <2>1. /\ req' = [req EXCEPT ![t].fut = "answered"] /\ req[t].pc \in {"drain", "wait"}
        /\ UNCHANGED <<generation, transport, ready, identity_confirmed, held, socket, closing,
                       reader, heart, conn, stray, peer, silent>>
    BY <1>6 DEF Answer
  <2>2. /\ req' \in [Requester -> Request] /\ req'[t].pc = req[t].pc
        /\ req'[t].fut = "answered" /\ req'[t].gen = req[t].gen
        /\ \A u \in Requester : u # t => req'[u] = req[u]
    BY <1>0, <2>1 DEF Request
  <2> QED BY <1>1, <2>1, <2>2
<1> QED BY <1>3, <1>4, <1>5, <1>6

\* The steps of a generation: its reader, its heartbeat and the end of its socket.
LEMMA GenerationConn ==
    ASSUME ConnInv, NEW g \in Generation,
           \/ Push(g) \/ CallbackReturns(g) \/ ReaderStops(g)
           \/ HeartWakes(g) \/ HeartAnswered(g) \/ HeartFails(g) \/ ShutDown(g)
    PROVE  ConnInv'
<1>0. /\ "beat" \in Requester /\ "connector" \in Requester /\ "beat" \notin Caller
      /\ ConnectionTypeOK /\ req \in [Requester -> Request] /\ g # 0
  BY ConnectionAssumption DEF Requester, ConnInv, ConnectionTypeOK, Generation
<1>1. reader[g] \in Live => g = transport /\ g = generation
  BY <1>0 DEF ConnInv, NoneLeftBehind, Installed
<1>2. heart[g] \in Beating => Connected /\ g = transport /\ g = generation
  BY <1>0 DEF ConnInv, NoneLeftBehind, Installed
<1>3. ASSUME NEW x \in Live, reader[g] \in Live, reader' = [reader EXCEPT ![g] = x],
             UNCHANGED <<generation, transport, ready, identity_confirmed, held, socket, closing,
                         heart, conn, req, stray, peer, silent>>
      PROVE  ConnInv'
  <2>1. ConnectionTypeOK'
    BY <1>0, <1>3 DEF ConnectionTypeOK, Live
  <2>2. Installed' /\ NoneLeftBehind'
    BY <1>0, <1>1, <1>3 DEF ConnInv, ConnectionTypeOK, Installed, NoneLeftBehind, Connected
  <2>3. NoSocketLost' /\ ConfirmedIsGenuine' /\ WaitersReachable' /\ CallsNeedLink' /\ ConnectorAsks'
    BY <1>3 DEF ConnInv, NoSocketLost, ConfirmedIsGenuine, WaitersReachable, CallsNeedLink,
       ConnectorAsks, Connected
  <2>4. Handshake'
    BY <1>3 DEF ConnInv, Handshake, Connected, Says
  <2> QED BY <2>1, <2>2, <2>3, <2>4 DEF ConnInv
<1>4. CASE Push(g)
  BY <1>3, <1>4 DEF Push, Live
<1>5. CASE CallbackReturns(g)
  BY <1>1, <1>3, <1>5 DEF CallbackReturns, Live
<1>6. CASE ReaderStops(g)
  <2>1. g = transport /\ Disconnected(req) /\ UNCHANGED <<generation, held, conn, peer, silent>>
    BY <1>1, <1>6 DEF ReaderStops, Live
  <2> QED BY <1>0, <2>1, DisconnectedConn
<1>7. ASSUME NEW x \in Beating, heart[g] \in Beating, heart' = [heart EXCEPT ![g] = x],
             req' \in [Requester -> Request], req'["beat"].gen = generation \/ req'["beat"].fut = "none",
             \A u \in Requester : u # "beat" => req'[u] = req[u],
             UNCHANGED <<generation, transport, ready, identity_confirmed, held, socket, closing,
                         reader, conn, stray, peer, silent>>
      PROVE  ConnInv'
  <2>1. ConnectionTypeOK'
    BY <1>0, <1>7 DEF ConnectionTypeOK, Beating
  <2>2. Installed' /\ NoneLeftBehind'
    BY <1>0, <1>2, <1>7 DEF ConnInv, ConnectionTypeOK, Installed, NoneLeftBehind, Connected
  <2>3. NoSocketLost' /\ ConfirmedIsGenuine' /\ ConnectorAsks'
    BY <1>0, <1>7 DEF ConnInv, NoSocketLost, ConfirmedIsGenuine, ConnectorAsks, Connected
  <2>4. WaitersReachable' /\ CallsNeedLink'
    BY <1>0, <1>2, <1>7 DEF ConnInv, WaitersReachable, CallsNeedLink, Connected, Requester
  <2>5. Handshake'
    BY <1>7 DEF ConnInv, Handshake, Connected, Says
  <2> QED BY <2>1, <2>2, <2>3, <2>4, <2>5 DEF ConnInv
<1>8. CASE HeartWakes(g)
  <2>1. /\ heart[g] \in Beating /\ heart' = [heart EXCEPT ![g] = "request"]
        /\ req' = Registered("beat", req)
        /\ UNCHANGED <<generation, transport, ready, identity_confirmed, held, socket, closing,
                       reader, conn, stray, peer, silent>>
    BY <1>2, <1>8 DEF HeartWakes, Beating
  <2>2. /\ req' \in [Requester -> Request] /\ req'["beat"].gen = generation
        /\ \A u \in Requester : u # "beat" => req'[u] = req[u]
    BY <1>0, <2>1, RegisteredFacts
  <2> QED BY <1>7, <2>1, <2>2 DEF Beating
<1>9. CASE HeartAnswered(g)
  <2>1. /\ heart[g] \in Beating /\ heart' = [heart EXCEPT ![g] = "sleeping"]
        /\ req' = Without("beat")
        /\ UNCHANGED <<generation, transport, ready, identity_confirmed, held, socket, closing,
                       reader, conn, stray, peer, silent>>
    BY <1>9 DEF HeartAnswered, Beating
  <2>2. /\ req' \in [Requester -> Request] /\ req'["beat"].fut = "none"
        /\ \A u \in Requester : u # "beat" => req'[u] = req[u]
    BY <1>0, <2>1, WithoutFacts
  <2> QED BY <1>7, <2>1, <2>2 DEF Beating
<1>10. CASE HeartFails(g)
  <2>1. ~Locked /\ Closed(Without("beat")) /\ UNCHANGED <<conn, peer, silent>>
    BY <1>2, <1>10 DEF HeartFails, Beating
  <2>2. /\ Without("beat") \in [Requester -> Request] /\ Without("beat")["beat"].fut = "none"
        /\ \A u \in Requester : u # "beat" => Without("beat")[u] = req[u]
    BY <1>0, WithoutFacts
  <2> QED BY <1>0, <2>1, <2>2, ClosedConn
<1>11. CASE ShutDown(g)
  <2>1. /\ closing' = closing \ {g} /\ socket' = [socket EXCEPT ![g] = "shut"]
        /\ UNCHANGED <<generation, transport, ready, identity_confirmed, held, reader, heart, conn,
                       req, stray, peer, silent>>
    BY <1>11 DEF ShutDown
  <2>2. ConnectionTypeOK'
    BY <1>0, <2>1 DEF ConnectionTypeOK
  <2>3. NoSocketLost'
    BY <1>0, <2>1 DEF ConnInv, ConnectionTypeOK, NoSocketLost
  <2>4. Installed' /\ NoneLeftBehind' /\ ConfirmedIsGenuine'
    BY <2>1 DEF ConnInv, Installed, NoneLeftBehind, ConfirmedIsGenuine, Connected
  <2>5. WaitersReachable' /\ CallsNeedLink' /\ ConnectorAsks'
    BY <2>1 DEF ConnInv, WaitersReachable, CallsNeedLink, ConnectorAsks, Connected
  <2>6. Handshake'
    BY <2>1 DEF ConnInv, Handshake, Connected, Says
  <2> QED BY <2>2, <2>3, <2>4, <2>5, <2>6 DEF ConnInv
<1> QED BY <1>4, <1>5, <1>6, <1>8, <1>9, <1>10, <1>11

\* Every step keeps the invariant.
LEMMA NextConn == ConnInv /\ [Next]_vars => ConnInv'
<1> SUFFICES ASSUME ConnInv, [Next]_vars PROVE ConnInv'
  OBVIOUS
<1>1. CASE UNCHANGED vars
  <2>1. ConnectionTypeOK' /\ Installed' /\ NoneLeftBehind'
    BY <1>1 DEF vars, ConnInv, ConnectionTypeOK, Installed, NoneLeftBehind, Connected
  <2>2. Handshake' /\ ConnectorAsks'
    BY <1>1 DEF vars, ConnInv, Handshake, ConnectorAsks, Connected, Says
  <2>3. WaitersReachable' /\ CallsNeedLink' /\ NoSocketLost' /\ ConfirmedIsGenuine'
    BY <1>1 DEF vars, ConnInv, WaitersReachable, CallsNeedLink, NoSocketLost,
       ConfirmedIsGenuine, Connected
  <2> QED BY <2>1, <2>2, <2>3 DEF ConnInv
<1>2. CASE Next
  BY <1>2, OpenedConn, ConnectorConn, HelloConn, LoginConn, CallerConn, RequesterConn,
     GenerationConn DEF Next
<1> QED BY <1>1, <1>2

-----------------------------------------------------------------------------
(* Invariants *)

\* The inductive invariant holds in every behaviour of the connection.
THEOREM ConnectionInvariant == Spec => []ConnInv
BY InitConn, NextConn, PTL DEF Spec

(***************************************************************************)
(* A connection that reports connected has its reader and its heartbeat,   *)
(* and no reader of an earlier generation runs (_reader_loop,              *)
(* _heartbeat_loop, _disconnect_generation).                               *)
(***************************************************************************)
THEOREM Supervised == Spec => []ConnectedIsSupervised
<1>1. ConnInv => ConnectedIsSupervised
  BY DEF ConnInv, ConnectedIsSupervised, Installed, NoneLeftBehind, Connected, Live, Beating
<1> QED BY <1>1, ConnectionInvariant, PTL

\* Whoever waits in request() waits for a reader that runs (_fail_pending).
THEOREM EveryWaiterReachable == Spec => []WaitersReachable
<1>1. ConnInv => WaitersReachable
  BY DEF ConnInv
<1> QED BY <1>1, ConnectionInvariant, PTL

\* No path of connect(), close() or a disconnect loses an open socket.
THEOREM SocketsKept == Spec => []NoSocketLost
<1>1. ConnInv => NoSocketLost
  BY DEF ConnInv
<1> QED BY <1>1, ConnectionInvariant, PTL

\* identity_confirmed is true only of the expected gateway.
THEOREM ConfirmedGenuine == Spec => []ConfirmedIsGenuine
<1>1. ConnInv => ConfirmedIsGenuine
  BY DEF ConnInv
<1> QED BY <1>1, ConnectionInvariant, PTL

-----------------------------------------------------------------------------
(* Refinement *)

LinkState == IF Connected THEN "up" ELSE IF Locked THEN "connecting" ELSE "dead"
OpenCalls == {t \in Caller : req[t].fut = "pending"}

\* A step of the link, on its two variables as the connection maps them.
LEMMA LinkSteps ==
    ASSUME \/ UNCHANGED <<LinkState, OpenCalls>>
           \/ LinkState = "dead" /\ LinkState' = "connecting" /\ OpenCalls' = OpenCalls
           \/ LinkState = "connecting" /\ LinkState' \in {"up", "dead"} /\ OpenCalls' = OpenCalls
           \/ LinkState = "up" /\ LinkState' = "dead" /\ OpenCalls' = {}
           \/ \E t \in Caller : /\ LinkState = "up" /\ LinkState' = "up" /\ t \notin OpenCalls
                                /\ OpenCalls' = OpenCalls \cup {t}
           \/ \E t \in Caller : /\ LinkState' = LinkState /\ t \in OpenCalls
                                /\ OpenCalls' = OpenCalls \ {t}
    PROVE  [Link!Next]_(Link!vars)
BY DEF LinkState, OpenCalls, Link!Next, Link!vars, Link!Connect, Link!Established, Link!Refused,
   Link!Lost, Link!Call, Link!Return

\* A loss ends the link, or a handshake, or nothing that the link can see.
LEMMA LossLink ==
    ASSUME ConnInv, transport' = 0, \A t \in Requester : req'[t].fut # "pending",
           conn'.pc = conn.pc \/ conn'.pc \in {"cleanup", "idle"}
    PROVE  [Link!Next]_(Link!vars)
<1>1. OpenCalls' = {} /\ ~Connected'
  BY DEF OpenCalls, Requester, Connected
<1>2. CASE Connected
  <2>1. LinkState = "up" /\ LinkState' = "dead"
    BY <1>1, <1>2 DEF ConnInv, Handshake, LinkState, Locked
  <2> QED BY <1>1, <2>1, LinkSteps
<1>3. CASE ~Connected
  <2>1. OpenCalls = {}
    BY <1>3 DEF ConnInv, CallsNeedLink, OpenCalls
  <2>2. \/ LinkState' = LinkState
        \/ LinkState = "connecting" /\ LinkState' = "dead"
    BY <1>1, <1>3 DEF LinkState, Locked
  <2> QED BY <1>1, <2>1, <2>2, LinkSteps
<1> QED BY <1>2, <1>3

(***************************************************************************)
(* A step that keeps the transport and touches the request of one task     *)
(* calls, returns, gives up a handshake, or is invisible.                  *)
(***************************************************************************)
LEMMA RequestLink ==
    ASSUME ConnInv, NEW t \in Requester, transport' = transport, ready' = ready,
           \A u \in Requester : u # t => req'[u] = req[u],
           \/ conn'.pc = conn.pc
           \/ Locked /\ conn'.pc = "cleanup",
           t \in Caller => /\ conn'.pc = conn.pc
                           /\ req'[t].fut = "pending" => req[t].fut = "pending" \/ Connected
    PROVE  [Link!Next]_(Link!vars)
<1>1. Connected' = Connected
  BY DEF Connected
<1>2. CASE t \in Caller
  <2>1. LinkState' = LinkState
    BY <1>1, <1>2 DEF LinkState, Locked
  <2>2. \A u \in Caller : u # t => (u \in OpenCalls' <=> u \in OpenCalls)
    BY DEF OpenCalls, Requester
  <2>3. OpenCalls \subseteq Caller /\ OpenCalls' \subseteq Caller
    BY DEF OpenCalls
  <2>4. t \in OpenCalls' /\ t \notin OpenCalls => Connected
    BY <1>2 DEF OpenCalls
  <2>5. CASE t \in OpenCalls' /\ t \notin OpenCalls
    <3>1. LinkState = "up" /\ OpenCalls' = OpenCalls \cup {t}
      BY <1>2, <2>2, <2>3, <2>4, <2>5 DEF LinkState
    <3> QED BY <1>2, <2>1, <2>5, <3>1, LinkSteps
  <2>6. CASE t \notin OpenCalls' /\ t \in OpenCalls
    <3>1. OpenCalls' = OpenCalls \ {t}
      BY <2>2, <2>3, <2>6
    <3> QED BY <1>2, <2>1, <2>6, <3>1, LinkSteps
  <2>7. CASE t \in OpenCalls' <=> t \in OpenCalls
    <3>1. OpenCalls' = OpenCalls
      BY <2>2, <2>3, <2>7
    <3> QED BY <2>1, <3>1, LinkSteps
  <2> QED BY <2>5, <2>6, <2>7
<1>3. CASE t \notin Caller
  <2>1. OpenCalls' = OpenCalls
    BY <1>3 DEF OpenCalls, Requester
  <2>2. \/ LinkState' = LinkState
        \/ LinkState = "connecting" /\ LinkState' = "dead"
    BY <1>1 DEF LinkState, Locked
  <2> QED BY <2>1, <2>2, LinkSteps
<1> QED BY <1>2, <1>3

\* Steps that leave the transport, the requests and the connecting task alone.
LEMMA SilentLink ==
    ASSUME UNCHANGED <<transport, ready, req, conn>>
    PROVE  [Link!Next]_(Link!vars)
<1>1. LinkState' = LinkState /\ OpenCalls' = OpenCalls
  BY DEF LinkState, OpenCalls, Connected, Locked
<1> QED BY <1>1, LinkSteps

\* close() of a connection, whichever its branch.
LEMMA ClosedLink ==
    ASSUME ConnInv, NEW r \in [Requester -> Request], Closed(r), ~Locked,
           \A t \in Requester : t # "beat" => r[t] = req[t],
           r["beat"].fut = "pending" => req["beat"].fut = "pending",
           conn'.pc \in {conn.pc, "idle"}
    PROVE  [Link!Next]_(Link!vars)
<1>1. CASE transport = 0 /\ ~held
  <2>1. transport' = 0 /\ req' = r
    BY <1>1 DEF Closed
  <2>2. \A t \in Requester : req'[t].fut # "pending"
    BY <1>1, <2>1 DEF ConnInv, WaitersReachable
  <2> QED BY <2>1, <2>2, LossLink
<1>2. CASE ~(transport = 0 /\ ~held)
  <2>1. transport' = 0 /\ req' = FailPending([r EXCEPT !["beat"] = NoRequest])
    BY <1>2 DEF Closed
  <2>2. \A t \in Requester : req'[t].fut # "pending"
    BY <2>1, LossFacts
  <2> QED BY <2>1, <2>2, LossLink
<1> QED BY <1>1, <1>2

\* connect() as the link sees it.
LEMMA ConnectorLink ==
    ASSUME ConnInv,
           \/ ConnectBegin \/ Opened \/ ConnectFails \/ Cleanup \/ Close \/ PeerGone
           \/ \E uid \in Uid, ok \in BOOLEAN : HelloAnswered(uid, ok) \/ LoginAnswered(uid, ok)
    PROVE  [Link!Next]_(Link!vars)
<1>0. /\ "connector" \in Requester /\ "connector" \notin Caller /\ ConnectionTypeOK
      /\ req \in [Requester -> Request] /\ ConnInv
  BY ConnectionAssumption DEF Requester, ConnInv, ConnectionTypeOK
<1>1. CASE ConnectBegin
  <2>1. LinkState = "dead" /\ LinkState' = "connecting" /\ OpenCalls' = OpenCalls
    BY <1>1 DEF ConnectBegin, LinkState, OpenCalls, Connected, Locked
  <2> QED BY <2>1, LinkSteps
<1>2. CASE Opened
  <2>1. LinkState = "connecting" /\ LinkState' = "connecting"
    BY <1>0, <1>2 DEF Opened, ConnInv, ConnectionTypeOK, Handshake, LinkState, Connected, Locked
  <2>2. OpenCalls' = OpenCalls
    BY <1>0, <1>2 DEF Opened, OpenCalls, Requester
  <2> QED BY <2>1, <2>2, LinkSteps
<1>3. CASE ConnectFails
  <2>1. \A u \in Requester : u # "connector" => req'[u] = req[u]
    BY <1>0, <1>3, WithoutFacts DEF ConnectFails
  <2>2. Locked /\ conn'.pc = "cleanup" /\ transport' = transport /\ ready' = ready
    BY <1>0, <1>3 DEF ConnectFails, ConnectionTypeOK
  <2> QED BY <1>0, <2>1, <2>2, RequestLink
<1>4. CASE Cleanup
  <2>1. conn.pc = "cleanup" /\ conn'.pc = "idle" /\ ~Locked
    BY <1>0, <1>4 DEF Cleanup, ConnectionTypeOK, Locked
  <2>2. CASE generation = conn.start + 1 /\ ~ready
    BY <1>0, <1>4, <2>1, <2>2, ClosedLink DEF Cleanup
  <2>3. CASE ~(generation = conn.start + 1 /\ ~ready)
    <3>1. UNCHANGED <<transport, ready, req>>
      BY <1>4, <2>3 DEF Cleanup
    <3>2. LinkState' = LinkState /\ OpenCalls' = OpenCalls
      BY <2>1, <3>1 DEF LinkState, OpenCalls, Connected, Locked
    <3> QED BY <3>2, LinkSteps
  <2> QED BY <2>2, <2>3
<1>5. CASE Close
  BY <1>0, <1>5, ClosedLink DEF Close
<1>6. CASE PeerGone
  BY <1>6, SilentLink DEF PeerGone
<1>7. ASSUME NEW uid \in Uid, NEW ok \in BOOLEAN, HelloAnswered(uid, ok)
      PROVE  [Link!Next]_(Link!vars)
  <2>1. \A u \in Requester : u # "connector" => req'[u] = req[u]
    <3>1. req' = Registered("connector", req) \/ req' = Without("connector")
      BY <1>7 DEF HelloAnswered
    <3> QED BY <1>0, <3>1, WithoutFacts, RegisteredFacts
  <2>2. /\ transport' = transport /\ ready' = ready /\ conn.pc = "hello"
        /\ conn'.pc \in {"login", "cleanup"}
    BY <1>0, <1>7 DEF HelloAnswered, ConnectionTypeOK
  <2>3. OpenCalls' = OpenCalls
    BY <1>0, <2>1 DEF OpenCalls, Requester
  <2>4. \/ LinkState' = LinkState
        \/ LinkState = "connecting" /\ LinkState' = "dead"
    BY <2>2 DEF LinkState, Connected, Locked
  <2> QED BY <2>3, <2>4, LinkSteps
<1>8. ASSUME NEW uid \in Uid, NEW ok \in BOOLEAN, LoginAnswered(uid, ok)
      PROVE  [Link!Next]_(Link!vars)
  <2>1. \A u \in Requester : u # "connector" => req'[u] = req[u]
    BY <1>0, <1>8, WithoutFacts DEF LoginAnswered
  <2>2. OpenCalls' = OpenCalls
    BY <1>0, <2>1 DEF OpenCalls, Requester
  <2>3. LinkState = "connecting" /\ conn'.pc \in {"idle", "cleanup"}
    BY <1>0, <1>8 DEF LoginAnswered, ConnInv, ConnectionTypeOK, Handshake, LinkState, Connected, Locked
  <2>4. LinkState' \in {"up", "dead"}
    BY <2>3 DEF LinkState, Locked
  <2> QED BY <2>2, <2>3, <2>4, LinkSteps
<1> QED BY <1>1, <1>2, <1>3, <1>4, <1>5, <1>6, <1>7, <1>8

\* Callers, requests and generations as the link sees them.
LEMMA TrafficLink ==
    ASSUME ConnInv,
           \/ \E t \in Caller : Send(t) \/ SendCollides(t) \/ Returns(t)
           \/ \E t \in Requester : Write(t) \/ Drained(t) \/ DrainFails(t) \/ Answer(t)
           \/ \E g \in Generation : \/ Push(g) \/ CallbackReturns(g) \/ ReaderStops(g)
                                    \/ HeartWakes(g) \/ HeartAnswered(g) \/ HeartFails(g)
                                    \/ ShutDown(g)
    PROVE  [Link!Next]_(Link!vars)
<1>0. /\ "connector" \in Requester /\ "connector" \notin Caller /\ ConnectionTypeOK
      /\ "beat" \in Requester /\ "beat" \notin Caller
      /\ req \in [Requester -> Request] /\ ConnInv
  BY ConnectionAssumption DEF Requester, ConnInv, ConnectionTypeOK
<1>1. ASSUME NEW t \in Requester, req[t].pc # "idle", Failing(t)
      PROVE  /\ conn'.pc = conn.pc \/ (Locked /\ conn'.pc = "cleanup")
             /\ t \in Caller => conn'.pc = conn.pc
  BY <1>0, <1>1 DEF ConnInv, ConnectionTypeOK, ConnectorAsks, Locked, Failing
<1>2. ASSUME NEW t \in Requester, req' = Without(t)
      PROVE  /\ \A u \in Requester : u # t => req'[u] = req[u]
             /\ req'[t].fut # "pending"
  BY <1>0, <1>2, WithoutFacts
<1>3. ASSUME NEW t \in Caller, Send(t)
      PROVE  [Link!Next]_(Link!vars)
  <2>1. t \in Requester /\ Connected /\ \A u \in Requester : u # t => req'[u] = req[u]
    BY <1>0, <1>3, RegisteredFacts DEF Send, Requester
  <2> QED BY <1>3, <2>1, RequestLink DEF Send
<1>4. ASSUME NEW t \in Caller, SendCollides(t)
      PROVE  [Link!Next]_(Link!vars)
  BY <1>4, SilentLink DEF SendCollides
<1>5. ASSUME NEW t \in Caller, Returns(t)
      PROVE  [Link!Next]_(Link!vars)
  BY <1>2, <1>5, RequestLink DEF Returns, Requester
<1>6. ASSUME NEW t \in Requester, Write(t)
      PROVE  [Link!Next]_(Link!vars)
  <2>1. transport' = transport /\ ready' = ready /\ req[t].pc = "write"
    BY <1>6 DEF Write
  <2>2. CASE transport # 0 /\ req[t].gen = generation
    <3>1. req' = [req EXCEPT ![t].pc = "drain"] /\ conn' = conn
      BY <1>6, <2>2 DEF Write
    <3>2. /\ req'[t].fut = req[t].fut /\ \A u \in Requester : u # t => req'[u] = req[u]
      BY <1>0, <3>1 DEF Request
    <3> QED BY <2>1, <3>1, <3>2, RequestLink
  <2>3. CASE ~(transport # 0 /\ req[t].gen = generation)
    <3>1. req' = Without(t) /\ Failing(t)
      BY <1>6, <2>3 DEF Write
    <3> QED BY <1>1, <1>2, <2>1, <3>1, RequestLink
  <2> QED BY <2>2, <2>3
<1>7. ASSUME NEW t \in Requester, Drained(t)
      PROVE  [Link!Next]_(Link!vars)
  <2>1. /\ req' = [req EXCEPT ![t].pc = "wait"]
        /\ transport' = transport /\ ready' = ready /\ conn' = conn
    BY <1>7 DEF Drained
  <2>2. /\ req'[t].fut = req[t].fut /\ \A u \in Requester : u # t => req'[u] = req[u]
    BY <1>0, <2>1 DEF Request
  <2> QED BY <2>1, <2>2, RequestLink
<1>8. ASSUME NEW t \in Requester, DrainFails(t)
      PROVE  [Link!Next]_(Link!vars)
  <2>1. req[t].pc = "drain" /\ Failing(t)
    BY <1>8 DEF DrainFails
  <2>2. conn'.pc = conn.pc \/ (Locked /\ conn'.pc = "cleanup")
    BY <1>1, <2>1
  <2>3. CASE transport # 0 /\ req[t].gen = generation
    <3>1. transport' = 0 /\ req' = FailPending([Without(t) EXCEPT !["beat"] = NoRequest])
      BY <1>8, <2>3 DEF DrainFails, Disconnected
    <3>2. \A u \in Requester : req'[u].fut # "pending"
      BY <1>0, <3>1, WithoutFacts, LossFacts
    <3> QED BY <2>2, <3>1, <3>2, LossLink
  <2>4. CASE ~(transport # 0 /\ req[t].gen = generation)
    <3>1. req' = Without(t) /\ transport' = transport /\ ready' = ready
      BY <1>8, <2>4 DEF DrainFails
    <3> QED BY <1>1, <1>2, <2>1, <3>1, RequestLink
  <2> QED BY <2>3, <2>4
<1>9. ASSUME NEW t \in Requester, Answer(t)
      PROVE  [Link!Next]_(Link!vars)
  <2>1. /\ req' = [req EXCEPT ![t].fut = "answered"]
        /\ transport' = transport /\ ready' = ready /\ conn' = conn
    BY <1>9 DEF Answer
  <2>2. /\ req'[t].fut # "pending" /\ \A u \in Requester : u # t => req'[u] = req[u]
    BY <1>0, <2>1 DEF Request
  <2> QED BY <2>1, <2>2, RequestLink
<1>10. ASSUME NEW g \in Generation, Push(g) \/ CallbackReturns(g) \/ ShutDown(g)
       PROVE  [Link!Next]_(Link!vars)
  BY <1>10, SilentLink DEF Push, CallbackReturns, ShutDown
<1>11. ASSUME NEW g \in Generation, ReaderStops(g)
       PROVE  [Link!Next]_(Link!vars)
  <2>1. g = transport /\ conn' = conn
    BY <1>11 DEF ConnInv, NoneLeftBehind, ReaderStops, Live
  <2>2. transport' = 0 /\ req' = FailPending([req EXCEPT !["beat"] = NoRequest])
    BY <1>11, <2>1 DEF ReaderStops, Disconnected
  <2>3. \A u \in Requester : req'[u].fut # "pending"
    BY <1>0, <2>2, LossFacts
  <2> QED BY <2>1, <2>2, <2>3, LossLink
<1>12. ASSUME NEW g \in Generation, HeartWakes(g) \/ HeartAnswered(g)
       PROVE  [Link!Next]_(Link!vars)
  <2>1. /\ req' = req \/ req' = Registered("beat", req) \/ req' = Without("beat")
        /\ transport' = transport /\ ready' = ready /\ conn' = conn
    BY <1>12 DEF HeartWakes, HeartAnswered
  <2>2. \A u \in Requester : u # "beat" => req'[u] = req[u]
    BY <1>0, <2>1, RegisteredFacts, WithoutFacts
  <2> QED BY <1>0, <2>1, <2>2, RequestLink
<1>13. ASSUME NEW g \in Generation, HeartFails(g)
       PROVE  [Link!Next]_(Link!vars)
  <2>1. ~Locked /\ Closed(Without("beat")) /\ conn' = conn
    <3>1. g = generation
      BY <1>13 DEF ConnInv, NoneLeftBehind, Installed, HeartFails, Beating, Connected
    <3> QED BY <1>13, <3>1 DEF HeartFails
  <2>2. /\ Without("beat") \in [Requester -> Request] /\ Without("beat")["beat"].fut = "none"
        /\ \A u \in Requester : u # "beat" => Without("beat")[u] = req[u]
    BY <1>0, WithoutFacts
  <2> QED BY <2>1, <2>2, ClosedLink
<1> QED BY <1>3, <1>4, <1>5, <1>6, <1>7, <1>8, <1>9, <1>10, <1>11, <1>12, <1>13

(***************************************************************************)
(* The connection implements the link: initially it is dead and no call is *)
(* open, and every step is one of the link or leaves it alone.             *)
(***************************************************************************)
THEOREM LinkImplemented == Spec => ImplementsLink
<1>1. Init => Link!Init
  <2> SUFFICES ASSUME Init PROVE Link!Init
    OBVIOUS
  <2>1. ~Connected /\ ~Locked
    BY DEF Init, Connected, Locked
  <2>2. \A t \in Caller : req[t].fut = "none"
    BY NoRequestType DEF Init, Requester
  <2> QED BY <2>1, <2>2 DEF Link!Init
<1>2. ConnInv /\ [Next]_vars => [Link!Next]_(Link!vars)
  <2> SUFFICES ASSUME ConnInv, [Next]_vars PROVE [Link!Next]_(Link!vars)
    OBVIOUS
  <2>1. CASE UNCHANGED vars
    BY <2>1, SilentLink DEF vars
  <2>2. CASE Next
    BY <2>2, ConnectorLink, TrafficLink DEF Next
  <2> QED BY <2>1, <2>2
<1> QED BY <1>1, <1>2, ConnectionInvariant, PTL DEF Spec, ImplementsLink, Link!Spec

=============================================================================
