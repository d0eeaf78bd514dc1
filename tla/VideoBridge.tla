------------------------------ MODULE VideoBridge ------------------------------
(***************************************************************************)
(* MeariVideoBridge (meari_stream.py): the HTTP bridge between a camera    *)
(* and Home Assistant's stream reader.  A pipeline is a worker process and *)
(* an FFmpeg process.  It is started by a warm-up that callers share, or   *)
(* by the one active request itself, waits in the slot _prepared under an  *)
(* expiry, is claimed by a request, and has to be killed and reaped by     *)
(* whoever holds it last.  VideoPipeline has the inside of a pipeline.     *)
(*                                                                         *)
(* All of it runs on one event loop: a step of the model is what a task    *)
(* does between two awaits.                                                *)
(***************************************************************************)
EXTENDS Naturals

CONSTANTS
    Pipe,              \* identities of pipelines (bound of the model)
    Caller,            \* concurrent callers of async_prepare
    NoPipe,
    RecoveryAttempts,  \* RECOVERY_ATTEMPTS
    SlowReap           \* reaping killed processes may outlast a whole warm-up

ASSUME BridgeAssumption ==
    NoPipe \notin Pipe /\ RecoveryAttempts \in Nat /\ SlowReap \in BOOLEAN

VARIABLES
    mode,       \* _source_mode
    pipe,       \* per pipeline: the state of its processes
    prepared,   \* _prepared
    expiry,     \* per pipeline: its _expire task
    latest,     \* the pipeline whose _expire task is _expiry
    warming,    \* _warming: the shared warm-up
    active,     \* _active: the request being served
    recovery,   \* _recovery
    taking,     \* per caller: the failed pipeline its _take_ready is closing
    streamed,   \* _ever_streamed
    consumed,   \* _playback_consumed
    bound,      \* the server listens (_url)
    closed,     \* _closed
    closer      \* how far async_close has come

bridgeVars == <<mode, pipe, prepared, expiry, latest, warming, active, recovery, taking,
                streamed, consumed, bound, closed, closer>>

PipeState == {"none", "starting", "running", "failed", "ended", "closing"}
MaybePipe == Pipe \cup {NoPipe}

NoWarm == [pc |-> "none", pipe |-> NoPipe]
NoRequest == [pc |-> "none", pipe |-> NoPipe, recover |-> FALSE]
NoRecovery == [pc |-> "none", attempt |-> 0]
Open == [pc |-> "idle", pipe |-> NoPipe]

BridgeTypeOK ==
    /\ mode \in {"live", "playback"}
    /\ pipe \in [Pipe -> PipeState]
    /\ prepared \in MaybePipe /\ latest \in MaybePipe
    /\ expiry \in [Pipe -> {"none", "watching", "closing"}]
    /\ warming \in [pc : {"none", "preparing", "closing"}, pipe : MaybePipe]
    /\ active \in [pc : {"none", "start", "waiting", "take", "taking", "retry", "retaking", "warmed",
                         "preparing", "opening", "streaming", "failing", "closing"},
                   pipe : MaybePipe, recover : BOOLEAN]
    /\ recovery \in [pc : {"none", "sleeping", "waiting", "missed"}, attempt : 0..RecoveryAttempts]
    /\ taking \in [Caller -> MaybePipe]
    /\ streamed \in BOOLEAN /\ consumed \in BOOLEAN /\ bound \in BOOLEAN /\ closed \in BOOLEAN
    /\ closer \in [pc : {"idle", "recovery", "warming", "active", "closing", "done"},
                   pipe : MaybePipe]   \* what it awaits
    \* the slot and the request only ever hold what has started
    /\ prepared # NoPipe => pipe[prepared] \in {"running", "failed", "ended"}

BridgeInit ==
    /\ mode \in {"live", "playback"}
    /\ pipe = [p \in Pipe |-> "none"]
    /\ prepared = NoPipe /\ latest = NoPipe
    /\ expiry = [p \in Pipe |-> "none"]
    /\ warming = NoWarm /\ active = NoRequest /\ recovery = NoRecovery
    /\ taking = [c \in Caller |-> NoPipe]
    /\ streamed = FALSE /\ consumed = FALSE /\ bound = FALSE /\ closed = FALSE
    /\ closer = Open

-----------------------------------------------------------------------------
(* Pieces shared by the tasks *)

\* Somebody is going to end pipeline p.
Owned(p) ==
    \/ warming.pipe = p
    \/ prepared = p /\ expiry[p] = "watching"
    \/ expiry[p] = "closing"
    \/ active.pipe = p
    \/ \E c \in Caller : taking[c] = p
    \/ closer.pipe = p

\* The identities nobody refers to; which of them a new pipeline gets is immaterial.
Fresh == {p \in Pipe : pipe[p] = "none" /\ expiry[p] = "none" /\ latest # p /\ ~Owned(p)}
NewPipe == CHOOSE p \in Fresh : TRUE

\* _ensure_warm: the warm-up that is on its way, or a new one.
EnsureWarm ==
    IF warming # NoWarm THEN UNCHANGED <<warming, pipe>>
    ELSE /\ Fresh # {}
         /\ pipe' = [pipe EXCEPT ![NewPipe] = "starting"]
         /\ warming' = [pc |-> "preparing", pipe |-> NewPipe]

\* _claim: the slot is emptied and the expiry task last created cancelled; one
\* that is already closing its pipeline goes on (_finish_uninterrupted).
Claim ==
    /\ prepared' = NoPipe
    /\ expiry' = IF prepared # NoPipe /\ latest # NoPipe /\ expiry[latest] = "watching"
                   THEN [expiry EXCEPT ![latest] = "none"] ELSE expiry

\* The test of _take_ready: the feed has failed or FFmpeg has.
Broken(p) == pipe[p] = "failed"

\* Session.close: every child is killed; Reaped says when they are gone.
Kill(p) == [pipe EXCEPT ![p] = "closing"]

\* The tasks waiting for the warm-up go on when it ends.
Resumed(ok) ==
    /\ active' = CASE active.pc = "waiting" -> [active EXCEPT !.pc = IF ok THEN "take" ELSE "failing"]
                   [] active.pc = "retry" -> [active EXCEPT !.pc = IF ok THEN "warmed" ELSE "failing"]
                   [] OTHER -> active
    /\ recovery' = CASE recovery.pc = "waiting" /\ ok -> NoRecovery
                     [] recovery.pc = "waiting" /\ ~ok -> [recovery EXCEPT !.pc = "missed"]
                     [] OTHER -> recovery

-----------------------------------------------------------------------------
(* Processes *)

\* The children of a pipeline that is closed are reaped.
Reaped(p) ==
    /\ pipe[p] = "closing"
    /\ pipe' = [pipe EXCEPT ![p] = "none"]
    /\ UNCHANGED <<mode, prepared, expiry, latest, warming, active, recovery, taking, streamed,
                   consumed, bound, closed, closer>>

\* A pipeline fails (silence, a bad record, a crash) or ends in order.
PipeStops(p) ==
    /\ pipe[p] = "running"
    /\ \E s \in {"failed", "ended"} : pipe' = [pipe EXCEPT ![p] = s]
    /\ UNCHANGED <<mode, prepared, expiry, latest, warming, active, recovery, taking, streamed,
                   consumed, bound, closed, closer>>

-----------------------------------------------------------------------------
(* Warm-up, expiry and async_prepare *)

\* _prepare failed or timed out, or the bridge was closed meanwhile.
WarmFails ==
    /\ warming.pc = "preparing"
    /\ warming' = [warming EXCEPT !.pc = "closing"]
    /\ pipe' = Kill(warming.pipe)
    /\ UNCHANGED <<mode, prepared, expiry, latest, active, recovery, taking, streamed, consumed,
                   bound, closed, closer>>

\* Mutant of WarmReady: the pipeline is handed over with no expiry.
WarmReadyForever ==
    /\ warming.pc = "preparing" /\ ~closed
    /\ SlowReap \/ \A c \in Caller : taking[c] = NoPipe
    /\ pipe' = [pipe EXCEPT ![warming.pipe] = "running"]
    /\ prepared' = warming.pipe
    /\ warming' = NoWarm
    /\ Resumed(TRUE)
    /\ UNCHANGED <<mode, expiry, latest, taking, streamed, consumed, bound, closed, closer>>

\* The pipeline has produced output: it goes to the slot and its expiry starts.
\* Without SlowReap a warm-up, which connects to the device, takes longer than
\* reaping the processes that a caller has killed.
WarmReady ==
    /\ warming.pc = "preparing" /\ ~closed
    /\ SlowReap \/ \A c \in Caller : taking[c] = NoPipe
    /\ pipe' = [pipe EXCEPT ![warming.pipe] = "running"]
    /\ prepared' = warming.pipe
    /\ latest' = warming.pipe
    /\ expiry' = [expiry EXCEPT ![warming.pipe] = "watching"]
    /\ warming' = NoWarm
    /\ Resumed(TRUE)
    /\ UNCHANGED <<mode, taking, streamed, consumed, bound, closed, closer>>

\* The failed warm-up has closed its session.
WarmOver ==
    /\ warming.pc = "closing" /\ pipe[warming.pipe] = "none"
    /\ warming' = NoWarm
    /\ Resumed(FALSE)
    /\ UNCHANGED <<mode, pipe, prepared, expiry, latest, taking, streamed, consumed, bound, closed,
                   closer>>

\* _expire: PREPARED_TIMEOUT is over or the feed has failed.  Whatever is not in
\* the slot any more is left alone.
Expires(p) ==
    /\ expiry[p] = "watching"
    /\ IF prepared = p
         THEN /\ prepared' = NoPipe
              /\ pipe' = Kill(p)
              /\ expiry' = [expiry EXCEPT ![p] = "closing"]
         ELSE /\ expiry' = [expiry EXCEPT ![p] = "none"]
              /\ UNCHANGED <<prepared, pipe>>
    /\ UNCHANGED <<mode, latest, warming, active, recovery, taking, streamed, consumed, bound,
                   closed, closer>>

ExpiryOver(p) ==
    /\ expiry[p] = "closing" /\ pipe[p] = "none"
    /\ expiry' = [expiry EXCEPT ![p] = "none"]
    /\ UNCHANGED <<mode, pipe, prepared, latest, warming, active, recovery, taking, streamed,
                   consumed, bound, closed, closer>>

\* async_prepare: nothing while a request is active; a pipeline in the slot gets
\* a fresh expiry; one that is broken is closed first; then the warm-up.
Prepare(c) ==
    /\ taking[c] = NoPipe
    /\ ~closed /\ active = NoRequest /\ ~(mode = "playback" /\ consumed)
    /\ CASE prepared = NoPipe ->
              EnsureWarm /\ UNCHANGED <<prepared, expiry, latest, taking>>
         [] prepared # NoPipe /\ ~Broken(prepared) ->
              /\ latest' = prepared
              /\ expiry' = [[expiry EXCEPT ![latest] = "none"] EXCEPT ![prepared] = "watching"]
              /\ UNCHANGED <<warming, pipe, prepared, taking>>
         [] OTHER ->
              /\ Claim
              /\ taking' = [taking EXCEPT ![c] = prepared]
              /\ pipe' = Kill(prepared)
              /\ UNCHANGED <<warming, latest>>
    /\ UNCHANGED <<mode, active, recovery, streamed, consumed, bound, closed, closer>>

\* The broken pipeline is gone; the warm-up follows, whatever has happened since.
PrepareGoesOn(c) ==
    /\ taking[c] # NoPipe /\ pipe[taking[c]] = "none"
    /\ taking' = [taking EXCEPT ![c] = NoPipe]
    /\ EnsureWarm
    /\ UNCHANGED <<mode, prepared, expiry, latest, active, recovery, streamed, consumed, bound,
                   closed, closer>>

-----------------------------------------------------------------------------
(* The request: _handle and _run *)

\* async_start binds the socket once.
Start ==
    /\ ~closed /\ ~bound
    /\ bound' = TRUE
    /\ UNCHANGED <<mode, pipe, prepared, expiry, latest, warming, active, recovery, taking,
                   streamed, consumed, closed, closer>>

\* A GET that is not answered with 503.
Request ==
    /\ bound /\ ~closed /\ active = NoRequest /\ ~(mode = "playback" /\ consumed)
    /\ active' = [NoRequest EXCEPT !.pc = "start"]
    /\ UNCHANGED <<mode, pipe, prepared, expiry, latest, warming, recovery, taking, streamed,
                   consumed, bound, closed, closer>>

\* _run waits for a warm-up that is on its way.
RunStarts ==
    /\ active.pc = "start"
    /\ active' = [active EXCEPT !.pc = IF warming = NoWarm THEN "take" ELSE "waiting"]
    /\ UNCHANGED <<mode, pipe, prepared, expiry, latest, warming, recovery, taking, streamed,
                   consumed, bound, closed, closer>>

\* Nothing to claim: a live bridge that has streamed before shares a warm-up,
\* any other prepares a pipeline of its own.
TakeNothing ==
    IF streamed /\ mode = "live"
      THEN EnsureWarm /\ active' = [active EXCEPT !.pc = "retry"]
      ELSE /\ Fresh # {}
           /\ pipe' = [pipe EXCEPT ![NewPipe] = "starting"]
           /\ active' = [active EXCEPT !.pc = "preparing", !.pipe = NewPipe]
           /\ UNCHANGED warming

\* _take_ready of a request, the first time and after a warm-up of its own.
Take ==
    /\ active.pc \in {"take", "warmed"}
    /\ CASE prepared = NoPipe ->
              /\ IF active.pc = "take" THEN TakeNothing
                 ELSE active' = [active EXCEPT !.pc = "failing"] /\ UNCHANGED <<pipe, warming>>
              /\ UNCHANGED <<prepared, expiry>>
         [] prepared # NoPipe /\ ~Broken(prepared) ->
              /\ Claim
              /\ active' = [active EXCEPT !.pc = "opening", !.pipe = prepared]
              /\ UNCHANGED <<pipe, warming>>
         [] OTHER ->
              /\ Claim
              /\ pipe' = Kill(prepared)
              /\ active' = [active EXCEPT !.pc = IF active.pc = "take" THEN "taking" ELSE "retaking",
                                          !.pipe = prepared]
              /\ UNCHANGED warming
    /\ UNCHANGED <<mode, latest, recovery, taking, streamed, consumed, bound, closed, closer>>

\* The broken pipeline of the request is gone.
Taken ==
    /\ active.pc \in {"taking", "retaking"} /\ pipe[active.pipe] = "none"
    /\ IF active.pc = "taking"
         THEN \/ streamed /\ mode = "live" /\ EnsureWarm
                 /\ active' = [active EXCEPT !.pc = "retry", !.pipe = NoPipe]
              \/ ~(streamed /\ mode = "live") /\ TakeNothing
         ELSE active' = [active EXCEPT !.pc = "failing", !.pipe = NoPipe]
              /\ UNCHANGED <<pipe, warming>>
    /\ UNCHANGED <<mode, prepared, expiry, latest, recovery, taking, streamed, consumed, bound,
                   closed, closer>>

\* The request's own pipeline produces output, or fails.
OwnReady ==
    /\ active.pc = "preparing"
    /\ \/ /\ pipe' = [pipe EXCEPT ![active.pipe] = "running"]
          /\ active' = [active EXCEPT !.pc = "opening"]
       \/ /\ active' = [active EXCEPT !.pc = "failing"]
          /\ UNCHANGED pipe
    /\ UNCHANGED <<mode, prepared, expiry, latest, warming, recovery, taking, streamed, consumed,
                   bound, closed, closer>>

\* The response starts with the bytes FFmpeg has produced.
StreamStarts ==
    /\ active.pc = "opening"
    /\ IF pipe[active.pipe] = "failed"
         THEN /\ active' = [active EXCEPT !.pc = "failing"]
              /\ UNCHANGED <<streamed, consumed>>
         ELSE /\ active' = [active EXCEPT !.pc = "streaming"]
              /\ streamed' = TRUE
              /\ consumed' = (consumed \/ mode = "playback")
    /\ UNCHANGED <<mode, pipe, prepared, expiry, latest, warming, recovery, taking, bound, closed,
                   closer>>

\* Session.close of the request: all it holds is killed.
Closing(recover) ==
    /\ active' = [active EXCEPT !.pc = "closing", !.recover = recover]
    /\ pipe' = IF active.pipe # NoPipe /\ pipe[active.pipe] # "none" THEN Kill(active.pipe) ELSE pipe

\* The run is over: it failed or timed out, or the source has ended while the
\* reader is still there; or only the reader has gone.
RequestEnds ==
    /\ \/ active.pc \in {"failing", "streaming"} /\ Closing(TRUE)
       \/ active.pc \notin {"none", "closing"} /\ Closing(FALSE)
    /\ UNCHANGED <<mode, prepared, expiry, latest, warming, recovery, taking, streamed, consumed,
                   bound, closed, closer>>

\* _schedule_recovery
ScheduleRecovery ==
    recovery' = IF ~closed /\ mode = "live" /\ streamed /\ recovery = NoRecovery
                  THEN [pc |-> "sleeping", attempt |-> 0] ELSE recovery

RequestOver ==
    /\ active.pc = "closing"
    /\ active.pipe # NoPipe => pipe[active.pipe] = "none"
    /\ active' = NoRequest
    /\ IF active.recover THEN ScheduleRecovery ELSE UNCHANGED recovery
    /\ UNCHANGED <<mode, pipe, prepared, expiry, latest, warming, taking, streamed, consumed,
                   bound, closed, closer>>

-----------------------------------------------------------------------------
(* Recovery *)

\* The backoff is over.
RecoveryWakes ==
    /\ recovery.pc = "sleeping"
    /\ IF closed \/ prepared # NoPipe \/ active # NoRequest
         THEN recovery' = NoRecovery /\ UNCHANGED <<warming, pipe>>
         ELSE recovery' = [recovery EXCEPT !.pc = "waiting"] /\ EnsureWarm
    /\ UNCHANGED <<mode, prepared, expiry, latest, active, taking, streamed, consumed, bound,
                   closed, closer>>

\* The attempt failed: another one, unless the attempts or the time are used up.
RecoveryRetries ==
    /\ recovery.pc = "missed"
    /\ \/ recovery' = NoRecovery
       \/ /\ recovery.attempt + 1 < RecoveryAttempts
          /\ recovery' = [pc |-> "sleeping", attempt |-> recovery.attempt + 1]
    /\ UNCHANGED <<mode, pipe, prepared, expiry, latest, warming, active, taking, streamed,
                   consumed, bound, closed, closer>>

-----------------------------------------------------------------------------
(* async_close *)

CloseCalled ==
    /\ closer = Open
    /\ closed' = TRUE /\ closer' = [Open EXCEPT !.pc = "recovery"]
    /\ UNCHANGED <<mode, pipe, prepared, expiry, latest, warming, active, recovery, taking,
                   streamed, consumed, bound>>

\* The recovery is cancelled, then the warm-up, whose end is awaited.
CloseRecovery ==
    /\ closer.pc = "recovery"
    /\ recovery' = NoRecovery
    /\ closer' = [pc |-> "warming", pipe |-> warming.pipe]
    /\ IF warming.pc = "preparing"
         THEN warming' = [warming EXCEPT !.pc = "closing"] /\ pipe' = Kill(warming.pipe)
         ELSE UNCHANGED <<warming, pipe>>
    /\ UNCHANGED <<mode, prepared, expiry, latest, active, taking, streamed, consumed, bound,
                   closed>>

\* Then the request; its cancellation does not ask for a recovery, unless its
\* run had already ended.
CloseActive ==
    /\ closer.pc = "warming"
    /\ closer.pipe # NoPipe => warming.pipe # closer.pipe
    /\ closer' = [Open EXCEPT !.pc = "active"]
    /\ IF active.pc \notin {"none", "closing"} THEN Closing(FALSE) ELSE UNCHANGED <<active, pipe>>
    /\ UNCHANGED <<mode, prepared, expiry, latest, warming, recovery, taking, streamed, consumed,
                   bound, closed>>

\* Mutant of CloseReady: the claimed pipeline is forgotten.
CloseReadyForgets ==
    /\ closer.pc = "active" /\ active = NoRequest
    /\ Claim
    /\ closer' = [Open EXCEPT !.pc = "closing"]
    /\ UNCHANGED <<mode, pipe, latest, warming, active, recovery, taking, streamed, consumed,
                   bound, closed>>

\* Then the pipeline in the slot.
CloseReady ==
    /\ closer.pc = "active" /\ active = NoRequest
    /\ Claim
    /\ closer' = [pc |-> "closing", pipe |-> prepared]
    /\ pipe' = IF prepared # NoPipe THEN Kill(prepared) ELSE pipe
    /\ UNCHANGED <<mode, latest, warming, active, recovery, taking, streamed, consumed, bound,
                   closed>>

\* The last expiry task and the claimed pipeline have ended; the server goes.
CloseDone ==
    /\ closer.pc = "closing"
    /\ latest # NoPipe => expiry[latest] = "none"
    /\ closer.pipe # NoPipe => pipe[closer.pipe] = "none"
    /\ bound' = FALSE /\ latest' = NoPipe
    /\ closer' = [Open EXCEPT !.pc = "done"]
    /\ UNCHANGED <<mode, pipe, prepared, expiry, warming, active, recovery, taking, streamed,
                   consumed, closed>>

-----------------------------------------------------------------------------
BridgeNext ==
    \/ \E p \in Pipe : Reaped(p) \/ PipeStops(p) \/ Expires(p) \/ ExpiryOver(p)
    \/ WarmFails \/ WarmReady \/ WarmOver
    \/ \E c \in Caller : Prepare(c) \/ PrepareGoesOn(c)
    \/ Start \/ Request \/ RunStarts \/ Take \/ Taken \/ OwnReady \/ StreamStarts
    \/ RequestEnds \/ RequestOver
    \/ RecoveryWakes \/ RecoveryRetries
    \/ CloseCalled \/ CloseRecovery \/ CloseActive \/ CloseReady \/ CloseDone

BridgeSpec == BridgeInit /\ [][BridgeNext]_bridgeVars

(***************************************************************************)
(* What is certain to happen: killed processes are reaped, a warm-up ends  *)
(* at FIRST_FRAME_TIMEOUT at the latest, an expiry at PREPARED_TIMEOUT, a  *)
(* close goes on as soon as what it awaits has ended, and a task that can  *)
(* go on is scheduled.  No request and no caller is certain to come.       *)
(***************************************************************************)
BridgeFairness ==
    /\ \A p \in Pipe : /\ WF_bridgeVars(Reaped(p))
                       /\ WF_bridgeVars(Expires(p)) /\ WF_bridgeVars(ExpiryOver(p))
    /\ WF_bridgeVars(WarmFails \/ WarmReady) /\ WF_bridgeVars(WarmOver)
    /\ \A c \in Caller : WF_bridgeVars(PrepareGoesOn(c))
    /\ WF_bridgeVars(RequestOver)
    /\ WF_bridgeVars(CloseRecovery) /\ WF_bridgeVars(CloseActive)
    /\ WF_bridgeVars(CloseReady) /\ WF_bridgeVars(CloseDone)

-----------------------------------------------------------------------------
(* Properties *)

(***************************************************************************)
(* No worker and no FFmpeg is left behind: every pipeline with processes   *)
(* belongs to a task that ends it (the warm-up, the expiry watching the    *)
(* slot, the request, a caller or the close), whatever expires, fails, is  *)
(* claimed or is cancelled meanwhile.                                      *)
(***************************************************************************)
EveryPipelineOwned == \A p \in Pipe : pipe[p] # "none" => Owned(p)

Dark == \A p \in Pipe : pipe[p] = "none"

(***************************************************************************)
(* A closed bridge goes dark for good.  A warm-up may still start after    *)
(* async_close has returned (a caller that was closing a broken pipeline   *)
(* goes on to one); it must not survive.                                   *)
(***************************************************************************)
ClosedGoesDark == closed ~> []Dark

=============================================================================
