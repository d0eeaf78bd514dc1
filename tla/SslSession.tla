------------------------------- MODULE SslSession -------------------------------
(***************************************************************************)
(* The life of the cloud push channel: SSLClient's connect_and_login,      *)
(* _reconnect, _disconnect, _listen_loop and _heartbeat_loop, SSLTransport *)
(* underneath, and the coordinator's watchdog, commands and unload on top. *)
(*                                                                         *)
(* Every task is a stack of frames, the innermost first; the pc of a frame *)
(* is the await it stands at.  One task at a time runs between two awaits: *)
(* while "running" names a task only that task moves, so a chain of calls  *)
(* and returns is atomic for the others, as on the event loop.             *)
(*                                                                         *)
(* A stream is "open" or "down" (closed here or lost); a read from a       *)
(* stream that is down ends, a write to it raises.  Timeouts are choices   *)
(* that may happen whenever the wait they bound has not ended.             *)
(***************************************************************************)
EXTENDS Naturals, Sequences, FiniteSets

CONSTANTS
    Driver,          \* the tasks that call in: "watchdog", "unload" and commands
    Listener,        \* identities of _listen_loop tasks
    Beat,            \* identities of _heartbeat_loop tasks
    Stream,          \* the (reader, writer) pairs opened, a bound of the model
    None,            \* Python's None
    MaxAttempts,     \* SSL_MAX_RECONNECT_ATTEMPTS
    MaxFailures,     \* HEARTBEAT_MAX_FAILURES
    SlowServer,      \* may two attempts outlast the 30 seconds of a reconnect?
    DrainMayFail     \* may drain() raise "Connection lost"?

ASSUME SessionAssumption ==
    /\ MaxAttempts \in Nat \ {0} /\ MaxFailures \in Nat \ {0}
    /\ SlowServer \in BOOLEAN /\ DrainMayFail \in BOOLEAN
    /\ None \notin Driver \cup Listener \cup Beat \cup Stream
    /\ Driver \cap (Listener \cup Beat) = {} /\ Listener \cap Beat = {}

VARIABLES
    connected,   \* SSLTransport.connected
    stream,      \* SSLTransport.reader and .writer
    net,         \* what each stream is
    key,         \* session_key
    closed,      \* SSLClient._closed
    lock,        \* the holder of _reconnect_lock
    listening,   \* _listening_task
    beating,     \* _heartbeat_task
    login,       \* _login_event, the events set, and _login_result
    pong,        \* _heartbeat_pending and the futures resolved
    failures,    \* _heartbeat_failures
    stack,       \* the tasks
    running      \* the task between two awaits, with what it was just given

transportVars == <<connected, stream, net>>
clientVars == <<key, closed, login, pong, failures>>
slotVars == <<lock, listening, beating>>
vars == <<connected, stream, net, key, closed, lock, listening, beating,
          login, pong, failures, stack, running>>

Task == Driver \cup Listener \cup Beat

\* n is the attempt of connect_and_login; who the stream a read stands on or the
\* task a join waits for; beat the heartbeat _disconnect found when it began.
Frame(pc) == [pc |-> pc, n |-> 0, who |-> None, beat |-> None]

\* connect_and_login, before its first await.
Connect == Frame("connect")

Awaiting == {"watching", "commanding", "sending", "unloading", "reading", "retrying",
             "reconnecting", "backoff", "sleeping", "ponging", "beatLost", "pausing",
             "beatClosing", "joinListener", "joinBeat", "opening", "helloLost",
             "helloWait", "loginLost", "loginWait", "failing", "clBackoff", "lockWait",
             "rcDisconnect", "rcSleep", "rcConnect", "dcListener", "dcBeat", "dcClosing"}

Passing == {"connect", "beatCheck", "tryOpen", "hello", "readNext", "relisten",
            "disconnect", "dcBeatCheck", "dcRest", "reconnect"}

FrameType == [pc : Awaiting \cup Passing, n : 0 .. MaxAttempts,
              who : Listener \cup Beat \cup Stream \cup {None},
              beat : Beat \cup {None}]

Nobody == [task |-> None, value |-> "none"]

Init ==
    /\ connected = FALSE /\ stream = None /\ key = "none" /\ closed = FALSE
    /\ net = [s \in Stream |-> "unused"]
    /\ lock = None /\ listening = None /\ beating = None
    /\ login = [event |-> None, set |-> {}, result |-> FALSE]
    /\ pong = [future |-> None, set |-> {}]
    /\ failures = 0
    /\ stack = [t \in Task |-> <<>>]
    /\ running = Nobody

-----------------------------------------------------------------------------
(* Tasks, calls and returns *)

Alive(t) == t # None /\ stack[t] # <<>>
Top(t) == Head(stack[t])
At(t, pc) == Alive(t) /\ running = Nobody /\ Top(t).pc = pc
Now(t, pc) == Alive(t) /\ running.task = t /\ Top(t).pc = pc
Given(t, pc, value) == Now(t, pc) /\ running.value = value

\* The stacks after t's innermost frame became frames (none: it returned).
With(t, frames) == [stack EXCEPT ![t] = frames \o Tail(@)]

\* t's innermost frame at another place.
Moved(t, pc) == [Top(t) EXCEPT !.pc = pc, !.who = None]

RunsOn(t, value) == running' = [task |-> t, value |-> value]

\* t reaches an await in the frame, goes on in it, or calls another.
Waits(stk) == stack' = stk /\ running' = Nobody
Goes(t, stk) == stack' = stk /\ RunsOn(t, "call")
Calls(t, pc, callee) == Goes(t, With(t, <<callee, Moved(t, pc)>>))

\* t's innermost frame returns or raises; the task may be over.
Returns(t, value) ==
    /\ stack' = With(t, <<>>)
    /\ IF Len(stack[t]) = 1 THEN running' = Nobody ELSE RunsOn(t, value)

\* The awaits of a task that was itself cancelled: their "except CancelledError:
\* pass" swallows a cancellation of the waiter.
Joining == {"joinListener", "joinBeat", "dcListener", "dcBeat"}

\* The finally of _send_login; a result nobody is going to read is forgotten.
LoginLeft(t) ==
    [event |-> None, set |-> login.set \ {t},
     result |-> login.result /\ login.set # {t}]

(***************************************************************************)
(* u is cancelled: its frames unwind, async with releases the lock, and    *)
(* the finally clauses of transport.close, _send_login and the heartbeat   *)
(* run.                                                                    *)
(***************************************************************************)
Unwinds(u) ==
    LET pc == Top(u).pc
        closes == pc \in {"dcClosing", "beatClosing"}
    IN
    /\ connected' = (connected /\ ~closes)
    /\ stream' = IF closes THEN None ELSE stream
    /\ lock' = IF lock = u THEN None ELSE lock
    /\ login' = IF pc = "loginWait"
                  THEN LoginLeft(u) ELSE login
    /\ pong' = IF pc = "ponging" THEN [future |-> None, set |-> pong.set \ {u}] ELSE pong

\* Cancelling a task that joins another cancels that other one.
Victim(u) == IF Top(u).pc \in Joining /\ Alive(Top(u).who) THEN Top(u).who ELSE u

\* t cancels u and waits in the frame until u is done.
Cancels(t, u, frame) ==
    LET stk == With(t, <<[frame EXCEPT !.who = u]>>) v == Victim(u) IN
    IF v = t \/ Top(v).pc \in Joining
      THEN Waits(stk) /\ UNCHANGED <<connected, stream, lock, login, pong>>
      ELSE Unwinds(v) /\ Waits([stk EXCEPT ![v] = <<>>])

\* What frames refer to.  A new task takes over the slot of its kind, so the
\* identity of a finished task there is free.
Held == UNION {{stack[t][i].who : i \in 1 .. Len(stack[t])} \cup
               {stack[t][i].beat : i \in 1 .. Len(stack[t])} : t \in Task}
FreeTask(ids) == {u \in ids : ~Alive(u) /\ u \notin Held}

-----------------------------------------------------------------------------
(* _disconnect *)

DisconnectStarts(t) ==
    /\ Now(t, "disconnect")
    /\ LET frame == [Moved(t, "dcBeatCheck") EXCEPT !.beat = beating] IN
       IF Alive(listening) /\ listening # t
         THEN Cancels(t, listening, [frame EXCEPT !.pc = "dcListener"])
         ELSE /\ Goes(t, With(t, <<frame>>))
              /\ UNCHANGED <<connected, stream, lock, login, pong>>
    /\ UNCHANGED <<net, key, closed, listening, beating, failures>>

DisconnectBeat(t) ==
    /\ \/ Now(t, "dcBeatCheck")
       \/ At(t, "dcListener") /\ ~Alive(Top(t).who)
    /\ IF Alive(Top(t).beat) /\ Top(t).beat # t THEN Cancels(t, Top(t).beat, Moved(t, "dcBeat"))
       ELSE /\ Goes(t, With(t, <<Moved(t, "dcRest")>>))
            /\ UNCHANGED <<connected, stream, lock, login, pong>>
    /\ UNCHANGED <<net, key, closed, listening, beating, failures>>

\* Both tasks are gone: the writer is closed, and its closing awaited.
DisconnectCloses(t) ==
    /\ \/ Now(t, "dcRest")
       \/ At(t, "dcBeat") /\ ~Alive(Top(t).who)
    /\ listening' = None /\ beating' = None
    /\ IF stream # None /\ net[stream] = "open"
         THEN /\ net' = [net EXCEPT ![stream] = "down"]
              /\ Waits(With(t, <<Moved(t, "dcClosing")>>))
              /\ UNCHANGED <<connected, stream, key, closed>>
         ELSE /\ stream' = None /\ connected' = FALSE /\ key' = "none" /\ closed' = TRUE
              /\ Returns(t, "ok")
              /\ UNCHANGED net
    /\ UNCHANGED <<lock, login, pong, failures>>

\* Mutant of DisconnectEnds: the flag survives the writer.
DisconnectEndsFlagged(t) ==
    /\ At(t, "dcClosing")
    /\ stream' = None /\ key' = "none" /\ closed' = TRUE
    /\ Returns(t, "ok")
    /\ UNCHANGED <<connected, net, slotVars, login, pong, failures>>

DisconnectEnds(t) ==
    /\ At(t, "dcClosing")
    /\ stream' = None /\ connected' = FALSE /\ key' = "none" /\ closed' = TRUE
    /\ Returns(t, "ok")
    /\ UNCHANGED <<net, slotVars, login, pong, failures>>

Disconnect(t) ==
    DisconnectStarts(t) \/ DisconnectBeat(t) \/ DisconnectCloses(t) \/ DisconnectEnds(t)

-----------------------------------------------------------------------------
(* _reconnect *)

\* The lock is free: a channel that is up needs nothing, else it is torn down.
ReconnectEnters(t) ==
    /\ Now(t, "reconnect") \/ At(t, "lockWait")
    /\ lock = None
    /\ IF connected THEN Returns(t, "ok") /\ UNCHANGED lock
       ELSE Calls(t, "rcDisconnect", Frame("disconnect")) /\ lock' = t
    /\ UNCHANGED <<transportVars, clientVars, listening, beating>>

ReconnectBlocks(t) ==
    /\ Now(t, "reconnect")
    /\ lock # None
    /\ Waits(With(t, <<Moved(t, "lockWait")>>))
    /\ UNCHANGED <<transportVars, clientVars, slotVars>>

ReconnectSleeps(t) ==
    /\ Now(t, "rcDisconnect")
    /\ Waits(With(t, <<Moved(t, "rcSleep")>>))
    /\ UNCHANGED <<transportVars, clientVars, slotVars>>

ReconnectConnects(t) ==
    /\ At(t, "rcSleep")
    /\ Calls(t, "rcConnect", Connect)
    /\ UNCHANGED <<transportVars, clientVars, slotVars>>

ReconnectEnds(t) ==
    /\ Now(t, "rcConnect")
    /\ lock' = None
    /\ Returns(t, IF running.value = "ok" THEN "ok" ELSE "raise")
    /\ UNCHANGED <<transportVars, clientVars, listening, beating>>

Reconnect(t) ==
    ReconnectEnters(t) \/ ReconnectBlocks(t) \/ ReconnectSleeps(t)
        \/ ReconnectConnects(t) \/ ReconnectEnds(t)

-----------------------------------------------------------------------------
(* connect_and_login *)

ConnectStarts(t) ==
    /\ Now(t, "connect")
    /\ IF connected
         THEN Returns(t, "ok") /\ UNCHANGED <<connected, stream, lock, login, pong, closed>>
         ELSE /\ closed' = FALSE
              /\ IF Alive(listening) THEN Cancels(t, listening, Moved(t, "joinListener"))
                 ELSE /\ Goes(t, With(t, <<Moved(t, "beatCheck")>>))
                      /\ UNCHANGED <<connected, stream, lock, login, pong>>
    /\ UNCHANGED <<net, key, listening, beating, failures>>

ConnectBeat(t) ==
    /\ \/ Now(t, "beatCheck") /\ UNCHANGED listening
       \/ At(t, "joinListener") /\ ~Alive(Top(t).who) /\ listening' = None
    /\ IF Alive(beating) THEN Cancels(t, beating, Moved(t, "joinBeat"))
       ELSE /\ Goes(t, With(t, <<Moved(t, "tryOpen")>>))
            /\ UNCHANGED <<connected, stream, lock, login, pong>>
    /\ UNCHANGED <<net, key, closed, beating, failures>>

ConnectJoined(t) ==
    /\ At(t, "joinBeat") /\ ~Alive(Top(t).who)
    /\ beating' = None
    /\ Goes(t, With(t, <<Moved(t, "tryOpen")>>))
    /\ UNCHANGED <<transportVars, clientVars, lock, listening>>

\* The head of the attempts' loop; _connect opens nothing when the flag is set.
ConnectTries(t) ==
    /\ Now(t, "tryOpen")
    /\ IF Top(t).n = MaxAttempts THEN Returns(t, "no")
       ELSE IF connected THEN Goes(t, With(t, <<Moved(t, "hello")>>))
       ELSE Waits(With(t, <<Moved(t, "opening")>>))
    /\ UNCHANGED <<transportVars, clientVars, slotVars>>

Opened(t, s) ==
    /\ At(t, "opening")
    /\ net[s] = "unused"
    /\ stream' = s /\ connected' = TRUE
    /\ net' = [net EXCEPT ![s] = "open"]
    /\ Goes(t, With(t, <<Moved(t, "hello")>>))
    /\ UNCHANGED <<clientVars, slotVars>>

\* self.connected = await self._connect(): False, whatever others have done.
OpenFails(t) ==
    /\ At(t, "opening")
    /\ connected' = FALSE
    /\ Goes(t, With(t, <<[Moved(t, "tryOpen") EXCEPT !.n = @ + 1]>>))
    /\ UNCHANGED <<stream, net, clientVars, slotVars>>

\* drain() raises "Connection lost": _send_packet calls _reconnect.
Loses(t, pc) ==
    /\ DrainMayFail
    /\ stream # None
    /\ net' = [net EXCEPT ![stream] = "down"]
    /\ Calls(t, pc, Frame("reconnect"))
    /\ UNCHANGED <<connected, stream>>

\* The result of _send_hello is not looked at: a listener is started.
HelloDone(t) ==
    /\ Now(t, "hello") \/ Given(t, "helloLost", "ok")
    /\ \E l \in FreeTask(Listener) :
          /\ listening' = l
          /\ Waits([With(t, <<Moved(t, "helloWait")>>) EXCEPT ![l] = <<Frame("retrying")>>])
    /\ UNCHANGED <<connected, stream, net, clientVars, lock, beating>>

HelloLost(t) ==
    /\ Now(t, "hello")
    /\ Loses(t, "helloLost")
    /\ UNCHANGED <<clientVars, slotVars>>

\* Three seconds later: _send_login needs the flag and the session key.
LoginSent(t) ==
    /\ At(t, "helloWait")
    /\ connected /\ key = "session"
    /\ login' = [login EXCEPT !.event = t, !.set = @ \ {t}]
    /\ \/ /\ Waits(With(t, <<Moved(t, "loginWait")>>))
          /\ UNCHANGED <<connected, stream, net>>
       \/ Loses(t, "loginLost")
    /\ UNCHANGED <<key, closed, pong, failures, slotVars>>

LoginNotSent(t) ==
    /\ At(t, "helloWait")
    /\ ~connected \/ key # "session"
    /\ Calls(t, "failing", Frame("disconnect"))
    /\ UNCHANGED <<transportVars, clientVars, slotVars>>

\* The write was lost, _reconnect returned, and the answer is awaited all the same.
LoginResumes(t) ==
    /\ Given(t, "loginLost", "ok")
    /\ Waits(With(t, <<Moved(t, "loginWait")>>))
    /\ UNCHANGED <<transportVars, clientVars, slotVars>>

\* The event is set, or the ten seconds are over.
LoginSucceeds(t) ==
    /\ At(t, "loginWait")
    /\ t \in login.set /\ login.result
    /\ login' = LoginLeft(t)
    /\ \E b \in FreeTask(Beat) :
          /\ beating' = b
          /\ stack' = [With(t, <<>>) EXCEPT ![b] = <<Frame("sleeping")>>]
    /\ RunsOn(t, "ok")
    /\ UNCHANGED <<transportVars, key, closed, pong, failures, lock, listening>>

\* Mutant of LoginFails: the attempt ends without _disconnect.
LoginFailsConnected(t) ==
    /\ At(t, "loginWait")
    /\ t \in login.set => ~login.result
    /\ login' = LoginLeft(t)
    /\ Waits(With(t, <<Moved(t, "clBackoff")>>))
    /\ UNCHANGED <<transportVars, key, closed, pong, failures, slotVars>>

LoginFails(t) ==
    /\ At(t, "loginWait")
    /\ t \in login.set => ~login.result
    /\ login' = LoginLeft(t)
    /\ Calls(t, "failing", Frame("disconnect"))
    /\ UNCHANGED <<transportVars, key, closed, pong, failures, slotVars>>

\* The except clause of the attempt.
AttemptFails(t) ==
    /\ \/ Now(t, "failing")
       \/ Given(t, "helloLost", "raise")
       \/ Given(t, "loginLost", "raise")
    /\ Waits(With(t, <<Moved(t, "clBackoff")>>))
    /\ UNCHANGED <<transportVars, clientVars, slotVars>>

NextAttempt(t) ==
    /\ At(t, "clBackoff")
    /\ Goes(t, With(t, <<[Moved(t, "tryOpen") EXCEPT !.n = @ + 1]>>))
    /\ UNCHANGED <<transportVars, clientVars, slotVars>>

ConnectAndLogin(t) ==
    \/ ConnectStarts(t) \/ ConnectBeat(t) \/ ConnectJoined(t) \/ ConnectTries(t)
    \/ \E s \in Stream : Opened(t, s)
    \/ OpenFails(t) \/ HelloDone(t) \/ HelloLost(t) \/ LoginSent(t) \/ LoginNotSent(t)
    \/ LoginResumes(t) \/ LoginSucceeds(t) \/ LoginFails(t)
    \/ AttemptFails(t) \/ NextAttempt(t)

-----------------------------------------------------------------------------
(* _listen_loop *)

\* readexactly takes the reader of the moment; two readers on one stream raise.
ReadNext(l) ==
    /\ At(l, "retrying") \/ Now(l, "readNext")
    /\ IF stream = None THEN Goes(l, With(l, <<Moved(l, "relisten")>>))
       ELSE Waits(With(l, <<
              IF \E m \in Listener \ {l} : Alive(m) /\ Top(m).pc = "reading"
                                                     /\ Top(m).who = stream
                THEN Moved(l, "retrying")
                ELSE [Moved(l, "reading") EXCEPT !.who = stream]>>))
    /\ UNCHANGED <<transportVars, clientVars, slotVars>>

\* 300 seconds without a packet: the loop goes on, with the reader of the moment.
ReadTimesOut(l) ==
    /\ At(l, "reading")
    /\ Top(l).who # stream
    /\ Goes(l, With(l, <<Moved(l, "readNext")>>))
    /\ UNCHANGED <<transportVars, clientVars, slotVars>>

(***************************************************************************)
(* A packet arrives.  The server answers a Hello, with a key or without    *)
(* one, while its sender waits; an answer to a login or to a heartbeat     *)
(* goes to whoever waits for one now, be it late and meant for an earlier  *)
(* request.  Other packets change nothing here but the default key.        *)
(***************************************************************************)
Receives(l) ==
    /\ At(l, "reading")
    /\ net[Top(l).who] = "open"
    /\ Goes(l, With(l, <<Moved(l, "readNext")>>))
    /\ UNCHANGED <<transportVars, closed, failures, slotVars>>

ReceivesHello(l) ==
    /\ \E t \in Task : \E i \in 1 .. Len(stack[t]) : stack[t][i].pc = "helloWait"
    /\ Receives(l)
    /\ key' \in {"default", "session"} \ {key}
    /\ UNCHANGED <<login, pong>>

\* Any packet gives a client without a key the default one.
KeyRead == IF key = "none" THEN "default" ELSE key

ReceivesLogin(l, result) ==
    /\ login.event # None
    /\ Receives(l)
    /\ key' = KeyRead
    /\ login' = [login EXCEPT !.result = result, !.set = @ \cup {login.event}]
    /\ UNCHANGED pong

ReceivesBeat(l) ==
    /\ pong.future # None
    /\ Receives(l)
    /\ key' = KeyRead
    /\ pong' = [pong EXCEPT !.set = @ \cup {pong.future}]
    /\ UNCHANGED login

StreamEnds(l) ==
    /\ At(l, "reading")
    /\ net[Top(l).who] = "down"
    /\ Goes(l, With(l, <<Moved(l, "relisten")>>))
    /\ UNCHANGED <<transportVars, clientVars, slotVars>>

\* The head of the reconnect loop.
Relisten(l) ==
    /\ Now(l, "relisten") \/ At(l, "backoff")
    /\ IF closed \/ stream = None THEN Returns(l, "ok")
       ELSE Calls(l, "reconnecting", Frame("reconnect"))
    /\ UNCHANGED <<transportVars, clientVars, slotVars>>

Reconnected(l) ==
    /\ Given(l, "reconnecting", "ok")
    /\ Returns(l, "ok")
    /\ UNCHANGED <<transportVars, clientVars, slotVars>>

ReconnectFailed(l) ==
    /\ Given(l, "reconnecting", "raise")
    /\ Waits(With(l, <<Moved(l, "backoff")>>))
    /\ UNCHANGED <<transportVars, clientVars, slotVars>>

Listen(l) ==
    \/ ReadNext(l) \/ ReadTimesOut(l) \/ ReceivesHello(l)
    \/ \E result \in BOOLEAN : ReceivesLogin(l, result)
    \/ ReceivesBeat(l) \/ StreamEnds(l) \/ Relisten(l) \/ Reconnected(l) \/ ReconnectFailed(l)

-----------------------------------------------------------------------------
(* _heartbeat_loop *)

\* The flag is looked at before and after the sleep.
BeatStops(b) ==
    /\ At(b, "sleeping") \/ At(b, "pausing")
    /\ ~connected
    /\ Returns(b, "ok")
    /\ UNCHANGED <<transportVars, clientVars, slotVars>>

BeatSends(b) ==
    /\ At(b, "sleeping")
    /\ connected /\ key = "session"
    /\ \/ /\ net[stream] = "open"
          /\ pong' = [future |-> b, set |-> pong.set \ {b}]
          /\ Waits(With(b, <<Moved(b, "ponging")>>))
          /\ UNCHANGED <<connected, stream, net>>
       \/ Loses(b, "beatLost") /\ UNCHANGED pong
    /\ UNCHANGED <<key, closed, login, failures, slotVars>>

\* Without a session key the loop only sleeps.
BeatIdles(b) ==
    /\ At(b, "sleeping")
    /\ connected /\ key # "session"
    /\ UNCHANGED vars

BeatAnswered(b) ==
    /\ At(b, "ponging")
    /\ b \in pong.set
    /\ failures' = 0
    /\ pong' = [future |-> None, set |-> pong.set \ {b}]
    /\ IF connected THEN Waits(With(b, <<Moved(b, "sleeping")>>)) ELSE Returns(b, "ok")
    /\ UNCHANGED <<transportVars, key, closed, login, slotVars>>

(***************************************************************************)
(* A beat failed: it could not be written, _send_packet returned or raised *)
(* after a loss, or no answer came.  The last failure allowed drops the    *)
(* flag and closes the transport.                                          *)
(***************************************************************************)
BeatFails(b) ==
    /\ \/ At(b, "sleeping") /\ connected /\ key = "session" /\ net[stream] = "down"
       \/ Now(b, "beatLost")
       \/ At(b, "ponging") /\ b \notin pong.set
    /\ pong' = IF Top(b).pc = "ponging" THEN [pong EXCEPT !.future = None] ELSE pong
    /\ IF failures + 1 < MaxFailures
         THEN /\ failures' = failures + 1
              /\ Waits(With(b, <<Moved(b, "pausing")>>))
              /\ UNCHANGED transportVars
         ELSE /\ failures' = 0
              /\ connected' = FALSE
              /\ IF stream # None /\ net[stream] = "open"
                   THEN /\ net' = [net EXCEPT ![stream] = "down"]
                        /\ Waits(With(b, <<Moved(b, "beatClosing")>>))
                        /\ UNCHANGED stream
                   ELSE stream' = None /\ UNCHANGED net /\ Waits(With(b, <<>>))
    /\ UNCHANGED <<key, closed, login, slotVars>>

BeatResumes(b) ==
    /\ At(b, "pausing")
    /\ connected
    /\ Waits(With(b, <<Moved(b, "sleeping")>>))
    /\ UNCHANGED <<transportVars, clientVars, slotVars>>

BeatClosed(b) ==
    /\ At(b, "beatClosing")
    /\ stream' = None /\ connected' = FALSE
    /\ Returns(b, "ok")
    /\ UNCHANGED <<net, clientVars, slotVars>>

Heartbeat(b) ==
    \/ BeatStops(b) \/ BeatIdles(b) \/ BeatSends(b) \/ BeatAnswered(b) \/ BeatFails(b)
    \/ BeatResumes(b) \/ BeatClosed(b)

-----------------------------------------------------------------------------
(* The coordinator *)

CallsIn(t, frames) ==
    /\ running = Nobody /\ ~Alive(t)
    /\ Goes(t, [stack EXCEPT ![t] = frames])
    /\ UNCHANGED <<transportVars, clientVars, slotVars>>

\* _async_update_data finds the flag down: _ensure_ssl_connected.
WatchdogStarts == ~connected /\ CallsIn("watchdog", <<Connect, Frame("watching")>>)

\* async_cleanup
UnloadStarts == CallsIn("unload", <<Frame("disconnect"), Frame("unloading")>>)

\* send_control_* and the other senders.
CommandStarts(t) == CallsIn(t, <<Connect, Frame("commanding")>>)

\* The packet goes out under the session key; without a writer it is dropped
\* and the channel reconnected.
CommandSends(t) ==
    /\ Now(t, "commanding")
    /\ \/ /\ key # "session" \/ stream # None
          /\ Returns(t, "ok")
          /\ UNCHANGED transportVars
       \/ /\ key = "session" /\ stream = None
          /\ Calls(t, "sending", Frame("reconnect"))
          /\ UNCHANGED transportVars
       \/ key = "session" /\ Loses(t, "sending")
    /\ UNCHANGED <<clientVars, slotVars>>

CallEnds(t) ==
    /\ Now(t, "watching") \/ Now(t, "sending") \/ Now(t, "unloading")
    /\ Returns(t, "ok")
    /\ UNCHANGED <<transportVars, clientVars, slotVars>>

Call(t) == CommandSends(t) \/ CallEnds(t)

-----------------------------------------------------------------------------
(* The network and the clock *)

StreamLost(s) ==
    /\ running = Nobody
    /\ net[s] = "open" /\ s \in Held \cup {stream}
    /\ net' = [net EXCEPT ![s] = "down"]
    /\ UNCHANGED <<connected, stream, clientVars, slotVars, stack, running>>

\* Mutant of Expires: _reconnect waits for connect_and_login without a limit.
ExpiresWatchdogOnly(t, i) ==
    /\ running = Nobody /\ i \in 2 .. Len(stack[t])
    /\ stack[t][i].pc = "watching"
    /\ Top(t).pc = "lockWait"
    /\ Unwinds(t)
    /\ stack' = [stack EXCEPT ![t] = <<>>]
    /\ UNCHANGED <<net, key, closed, listening, beating, failures, running>>

(***************************************************************************)
(* The thirty seconds of the wait_for in frame i are over: everything      *)
(* above it is cancelled.  One attempt lasts at most 10 + 3 + 10 seconds,  *)
(* so only a second one, or a wait for the lock, can meet the limit.       *)
(***************************************************************************)
Expires(t, i) ==
    /\ running = Nobody /\ i \in 2 .. Len(stack[t])
    /\ stack[t][i].pc \in {"watching", "rcConnect"}
    /\ \/ SlowServer /\ stack[t][i - 1].n > 0
       \/ Top(t).pc = "lockWait"
    /\ Top(t).pc \notin Joining
    /\ Unwinds(t)
    /\ LET rest == SubSeq(stack[t], i + 1, Len(stack[t])) IN
          /\ stack' = [stack EXCEPT ![t] = rest]
          /\ IF rest = <<>> THEN running' = Nobody ELSE RunsOn(t, "raise")
    /\ UNCHANGED <<net, key, closed, listening, beating, failures>>

Timeout(t) == \E i \in 1 .. Len(stack[t]) : Expires(t, i)

\* What a task does once it was started.
Progress(t) ==
    \/ Disconnect(t) \/ Reconnect(t) \/ ConnectAndLogin(t) \/ Call(t)
    \/ t \in Listener /\ Listen(t)
    \/ t \in Beat /\ Heartbeat(t)

Next ==
    \/ "watchdog" \in Driver /\ WatchdogStarts
    \/ "unload" \in Driver /\ UnloadStarts
    \/ \E t \in Driver \ {"watchdog", "unload"} : CommandStarts(t)
    \/ \E t \in Task : Progress(t) \/ Timeout(t)
    \/ \E s \in Stream : StreamLost(s)

Spec == Init /\ [][Next]_vars

(***************************************************************************)
(* The event loop runs what is ready: a task that is ready stays so while  *)
(* others run, asyncio.Lock is first come first served, and every network  *)
(* wait and every sleep ends.                                              *)
(***************************************************************************)
Fairness == \A t \in Task : SF_vars(Progress(t) \/ Timeout(t))

FairSpec == Spec /\ Fairness

-----------------------------------------------------------------------------
(* Properties *)

\* Type correctness of the client, the transport and the tasks.
SessionTypeOK ==
    /\ connected \in BOOLEAN /\ closed \in BOOLEAN
    /\ stream \in Stream \cup {None}
    /\ net \in [Stream -> {"unused", "open", "down"}]
    /\ key \in {"none", "default", "session"}
    /\ lock \in Task \cup {None}
    /\ listening \in Listener \cup {None} /\ beating \in Beat \cup {None}
    /\ login \in [event : Task \cup {None}, set : SUBSET Task, result : BOOLEAN]
    /\ pong \in [future : Beat \cup {None}, set : SUBSET Beat]
    /\ failures \in 0 .. MaxFailures - 1
    /\ \A t \in Task : \A i \in 1 .. Len(stack[t]) : stack[t][i] \in FrameType
    /\ running \in [task : Task \cup {None}, value : {"none", "call", "ok", "no", "raise"}]

\* The flag promises a writer: a send that sees it set finds a stream to write to.
FlagPromisesStream == connected => stream # None

\* Frames of a task that has put the channel up or is taking it down, and has
\* not yet handed it over.
Responsible == {"joinBeat", "helloLost", "helloWait", "loginLost", "loginWait", "failing",
                "dcListener", "dcBeat", "dcClosing"}

(***************************************************************************)
(* The watchdog trusts the flag: "so that the push channel is not offline  *)
(* for ever until the user reloads".  So whenever the flag is set there is *)
(* a task that will find out that the stream is dead: a heartbeat with a   *)
(* session key to beat with, or a call that is still bringing the channel  *)
(* up or down.  And the flag does not outlast the beats that may fail.     *)
(***************************************************************************)
FlagSupervised ==
    connected /\ running = Nobody =>
        /\ failures < MaxFailures
        /\ \/ key = "session" /\ \E b \in Beat : Alive(b)
           \/ \E t \in Task : \E i \in 1 .. Len(stack[t]) : stack[t][i].pc \in Responsible

(***************************************************************************)
(* Every call into the client returns, and the lock is not kept: a         *)
(* _reconnect that needs the lock its own task holds, or that joins a task *)
(* which joins others, is freed by a timeout or a cancellation.            *)
(***************************************************************************)
CallsReturn ==
    /\ \A t \in Driver : Alive(t) ~> ~Alive(t)
    /\ []<>(lock = None)

=============================================================================
