----------------------------- MODULE CameraProofs -----------------------------
(***************************************************************************)
(* Proofs about the cameras: the entity that plays recordings, the bridge  *)
(* that serves its stream, the pipeline behind the bridge, and the vendor  *)
(* inventory the entity finds its camera in; for any number of calls,      *)
(* recordings, pipelines, servers, records and rows.                       *)
(***************************************************************************)
EXTENDS VideoBridge, VideoPipeline, PlaybackCamera, CameraInventory,
        FiniteSetTheorems, SequenceTheorems, TLAPS

-----------------------------------------------------------------------------
(* The inductive invariants *)

\* What a task of the playback entity does, by its step.
Tasks ==
    \A t \in Op :
        /\ ops[t].pc = "idle" => ops[t] = IdleOp
        /\ ops[t].pc = "locking" => ops[t].op \in {"select", "stop", "unload", "create"}
        /\ ops[t].pc \in {"closing", "stopping"} => ops[t].op \in {"select", "stop", "unload"}
        /\ ops[t].pc \in {"warming", "binding"} => ops[t].op = "create"
        /\ ops[t].pc = "cancelling" => ops[t].op = "unload"
        /\ ops[t].pc = "searching" => ops[t].op = "search"
        /\ ops[t].op = "select" => ops[t].date # NoRecording
        /\ ops[t].op = "create" => ops[t].bridge \in 1..bridge
        /\ ops[t].op = "create" /\ ops[t].pc \in {"locking", "binding"} => loaded[ops[t].bridge] # NoRecording

\* _selection_lock is held while a bridge is replaced or a stream is bound.
Holder == \A t \in Op : lock = t <=> ops[t].pc \in {"closing", "stopping", "binding"}

\* The bridges before the current one are closed, the later ones not yet made.
Bridges ==
    /\ \A b \in Bridge : /\ b < bridge => state[b] = "closed"
                         /\ b > bridge => state[b] = "unborn" /\ loaded[b] = NoRecording
    /\ state[bridge] # "unborn"
    /\ state[bridge] = "open" => loaded[bridge] \in {NoRecording, position}
    /\ position # NoRecording /\ state[bridge] # "open" =>
          \E t \in Op : lock = t /\ ops[t].op = "select"
    /\ \A t \in Op : lock = t /\ ops[t].op \in {"select", "stop", "unload"} => state[bridge] # "open"
    /\ \A t \in Op : ops[t].pc = "stopping" => state[bridge] = "closed"
    /\ \A t \in Op : ops[t].pc = "binding" => position # NoRecording /\ ops[t].bridge = bridge

\* The stream, unless the lock is held to replace what it reads.
Shown ==
    (\A t \in Op : lock = t => ops[t].op = "create") =>
        (stream # 0 => /\ stream = bridge /\ state[bridge] = "open"
                       /\ position # NoRecording /\ loaded[bridge] = position)

\* After the last unload nothing runs, and only a stop can have the lock.
Unloaded ==
    /\ unloaded /\ (\A t \in Op : ops[t].op # "unload") =>
          /\ stream = 0 /\ state[bridge] = "closed"
          /\ \A t \in Op : lock = t => ops[t].op = "stop"
    /\ unloaded /\ query # NoOp => \E t \in Op : ops[t].pc = "cancelling"
    /\ query # NoOp => ops[query].pc = "searching"

PlaybackInv == PlaybackTypeOK /\ Tasks /\ Holder /\ Bridges /\ Shown /\ Unloaded

\* A pipeline in the slot is watched by the expiry created last, and nothing
\* that could overwrite the slot is on its way.
SlotWatched ==
    prepared # NoPipe =>
        /\ latest = prepared /\ expiry[prepared] = "watching"
        /\ warming = NoWarm /\ \A c \in Caller : taking[c] = NoPipe

\* What a request and a warm-up hold, by their step.
Holdings ==
    /\ warming.pc = "none" <=> warming.pipe = NoPipe
    /\ active.pc \in {"none", "start", "waiting", "take", "retry", "warmed"} => active.pipe = NoPipe
    /\ active.pc = "taking" =>
          prepared = NoPipe /\ warming = NoWarm /\ \A c \in Caller : taking[c] = NoPipe

\* No two of them hold one pipeline.
Exclusive ==
    /\ active.pipe # NoPipe => active.pipe # warming.pipe /\ active.pipe # prepared
    /\ closer.pipe # NoPipe => closer.pipe # active.pipe /\ closer.pipe # prepared

\* How far async_close has come.
ClosingSteps ==
    /\ closer.pc # "idle" => closed
    /\ closer.pc \in {"idle", "recovery", "active", "done"} => closer.pipe = NoPipe
    /\ closer.pc \in {"closing", "done"} => prepared = NoPipe
    /\ closer.pc = "warming" /\ closer.pipe # NoPipe =>
          warming.pipe = closer.pipe \/ pipe[closer.pipe] = "none"

BridgeInv ==
    BridgeTypeOK /\ SlotWatched /\ Holdings /\ Exclusive /\ ClosingSteps /\ EveryPipelineOwned

\* What lies in the pipe once the worker has forwarded a picture, and before.
Forwarded ==
    /\ worker.pc = "receiving" \/ ~worker.first => worker.tries > 0
    /\ worker.first =>
          /\ \A i \in 1..Len(stdout) : stdout[i].kind = "J" /\ stdout[i].stage # "video_keyframe_received"
          /\ reader.pc # "feeding" /\ reader.codec = "unknown"
          /\ worker.keyed => worker.refused
    /\ ~worker.first =>
          /\ worker.pc # "connecting" /\ worker.codec \in Codec
          /\ \A i \in 1..Len(stdout) :
                /\ stdout[i].kind = "V" => /\ stdout[i].codec = worker.codec /\ stdout[i].own
                                           /\ stdout[i].server = worker.tries
                                           /\ stdout[i].stage = "none"
                /\ stdout[i].stage = "video_keyframe_received" => stdout[i].codec = worker.codec
          /\ reader.codec \in {"unknown", worker.codec}

\* The picture that starts the decoder is the first one in the pipe.
StartsWithKey ==
    reader.pc = "preparing" /\ ~worker.first =>
        \E k \in 1..Len(stdout) :
            /\ stdout[k].kind = "V" /\ (stdout[k].key \/ worker.refused)
            /\ \A j \in 1..(k - 1) : stdout[j].kind = "J"

\* What the decoder was fed is of the worker's one connection.
FedByWorker ==
    /\ reader.pc = "preparing" => ~decoder.fed
    /\ reader.pc = "feeding" => decoder.fed
    /\ decoder.fed =>
          /\ ~worker.first
          /\ reader.codec = worker.codec /\ decoder.codecs = {worker.codec}
          /\ decoder.servers = {worker.tries}
          /\ decoder.own /\ (decoder.key \/ worker.refused)
    /\ ~decoder.fed => decoder = NothingFed

PipelineInv == PipelineTypeOK /\ Forwarded /\ StartsWithKey /\ FedByWorker

-----------------------------------------------------------------------------
(* The playback entity *)

\* The states of a task.
OpState == [op : {"none", "select", "stop", "unload", "create", "search"},
            pc : {"idle", "locking", "closing", "stopping", "warming", "binding",
                  "cancelling", "searching"},
            date : MaybeRecording, bridge : 0..MaxBridges]

\* The steps at which a task has _selection_lock.
Holding == {"closing", "stopping", "binding"}

\* A step of task t alone that neither takes nor gives the lock, and leaves the
\* bridges and the stream.
LEMMA OutsideLock ==
    ASSUME PlaybackInv, NEW t \in Op, NEW x \in OpState,
           ops' = [ops EXCEPT ![t] = x],
           ops[t].pc \notin Holding, x.pc \notin Holding,
           x.pc = "idle" => x = IdleOp,
           x.pc = "locking" => x.op \in {"select", "stop", "unload", "create"},
           x.pc = "warming" => x.op = "create",
           x.pc = "cancelling" => x.op = "unload",
           x.pc = "searching" => x.op = "search",
           x.op = "select" => x.date # NoRecording,
           x.op = "create" => x.bridge \in 1..bridge,
           x.op = "create" /\ x.pc = "locking" => loaded[x.bridge] # NoRecording,
           UNCHANGED <<position, bridge, state, loaded, stream, lock>>,
           unloaded' \in BOOLEAN, query' \in Op \cup {NoOp}, Unloaded'
    PROVE  PlaybackInv'
<1>1. ops \in [Op -> OpState] /\ ops' \in [Op -> OpState]
  BY DEF PlaybackInv, PlaybackTypeOK, OpState
<1>2. ops'[t] = x /\ \A u \in Op \ {t} : ops'[u] = ops[u]
  BY <1>1
<1>3. PlaybackTypeOK'
  BY <1>1 DEF PlaybackInv, PlaybackTypeOK, OpState
<1>4. Tasks'
  BY <1>2 DEF PlaybackInv, Tasks, Holding
<1>5. Holder'
  BY <1>2 DEF PlaybackInv, Holder, Holding
<1>6. lock # t
  BY DEF PlaybackInv, Holder, Holding
<1>7. Bridges'
  BY <1>2, <1>6 DEF PlaybackInv, Bridges, Holding
<1>8. Shown'
  BY <1>2, <1>6 DEF PlaybackInv, Shown
<1> QED BY <1>3, <1>4, <1>5, <1>7, <1>8 DEF PlaybackInv

\* Types of the records the actions put in ops.
LEMMA OpTypes ==
    ASSUME PlaybackInv
    PROVE  /\ IdleOp \in OpState /\ ops \in [Op -> OpState]
           /\ bridge \in 1..MaxBridges /\ MaxBridges \in Nat \ {0}
           /\ unloaded \in BOOLEAN /\ query \in Op \cup {NoOp} /\ lock \in Op \cup {NoOp}
           /\ position \in MaybeRecording /\ NoOp \notin Op
BY PlaybackAssumption DEF PlaybackInv, PlaybackTypeOK, OpState, IdleOp, MaybeRecording, Bridge

\* The actions outside the lock.
LEMMA OutsideKeeps ==
    ASSUME PlaybackInv, NEW t \in Op
    PROVE  /\ \A op \in {"select", "stop"}, date \in MaybeRecording : Call(t, op, date) => PlaybackInv'
           /\ Unload(t) => PlaybackInv'
           /\ Create(t) => PlaybackInv'
           /\ Warmed(t) => PlaybackInv'
           /\ Search(t) => PlaybackInv'
           /\ Searched(t) => PlaybackInv'
<1>1. /\ Tasks /\ Unloaded /\ ops[t] \in OpState /\ IdleOp \in OpState
      /\ IdleOp.op = "none" /\ IdleOp.pc = "idle"
  BY OpTypes DEF PlaybackInv, IdleOp
<1>2. ASSUME NEW op \in {"select", "stop"}, NEW date \in MaybeRecording, Call(t, op, date)
      PROVE  PlaybackInv'
  <2> DEFINE x == [IdleOp EXCEPT !.op = op, !.pc = "locking", !.date = date]
  <2>1. /\ ops[t] = IdleOp /\ (op = "select" <=> date # NoRecording) /\ ops' = [ops EXCEPT ![t] = x]
        /\ UNCHANGED <<position, bridge, state, loaded, stream, lock, unloaded, query>>
    BY <1>2 DEF Call
  <2>2. x \in OpState /\ x.op = op /\ x.pc = "locking" /\ x.date = date
    BY <1>1 DEF OpState
  <2> HIDE DEF x
  <2>3. Unloaded'
    BY <1>1, <2>1, <2>2, OpTypes DEF Unloaded
  <2> QED BY <1>1, <2>1, <2>2, <2>3, OpTypes, OutsideLock DEF Holding
<1>3. ASSUME Unload(t) PROVE PlaybackInv'
  <2> DEFINE q == IF query = NoOp THEN "locking" ELSE "cancelling"
             x == [IdleOp EXCEPT !.op = "unload", !.pc = q]
  <2>1. /\ ops[t] = IdleOp /\ ops' = [ops EXCEPT ![t] = x] /\ unloaded' = TRUE
        /\ UNCHANGED <<position, bridge, state, loaded, stream, lock, query>>
    BY <1>3 DEF Unload
  <2>2a. q \in {"locking", "cancelling"} /\ (query # NoOp => q = "cancelling")
    OBVIOUS
  <2> HIDE DEF q
  <2>2. x \in OpState /\ x.op = "unload" /\ x.pc = q
    BY <1>1, <2>2a DEF OpState
  <2> HIDE DEF x
  <2>3. Unloaded'
    BY <1>1, <2>2a, <2>1, <2>2, OpTypes DEF Unloaded
  <2>4. unloaded' \in BOOLEAN
    BY <2>1
  <2> QED BY <1>1, <2>2a, <2>1, <2>2, <2>3, <2>4, OpTypes, OutsideLock DEF Holding
<1>4. ASSUME Create(t) PROVE PlaybackInv'
  <2> DEFINE x == [IdleOp EXCEPT !.op = "create", !.pc = "warming", !.bridge = bridge]
  <2>1. /\ ops[t] = IdleOp /\ ops' = [ops EXCEPT ![t] = x] /\ ~unloaded
        /\ UNCHANGED <<position, bridge, state, loaded, stream, lock, unloaded, query>>
    BY <1>4 DEF Create
  <2>2a. bridge \in 0..MaxBridges
    BY OpTypes
  <2>2. /\ x \in OpState /\ x.op = "create" /\ x.pc = "warming" /\ x.bridge = bridge
    BY <1>1, <2>2a DEF OpState
  <2> HIDE DEF x
  <2>3. Unloaded'
    BY <1>1, <2>1, <2>2, OpTypes DEF Unloaded
  <2>4. x.bridge \in 1..bridge
    BY <2>2, OpTypes
  <2> QED BY <1>1, <2>1, <2>2, <2>3, <2>4, OpTypes, OutsideLock DEF Holding
<1>5. ASSUME Warmed(t) PROVE PlaybackInv'
  <2>1. /\ ops[t].pc = "warming" /\ ops[t].op = "create" /\ ops[t].bridge \in 1..bridge
        /\ UNCHANGED <<position, bridge, state, loaded, stream, lock, unloaded, query>>
    BY <1>1, <1>5 DEF Warmed, Tasks
  <2>2. CASE ops' = [ops EXCEPT ![t] = IdleOp]
    <3>1. Unloaded'
      BY <1>1, <2>1, <2>2, OpTypes DEF Unloaded
    <3> QED BY <1>1, <2>1, <2>2, <3>1, OpTypes, OutsideLock DEF Holding
  <2>3. CASE loaded[ops[t].bridge] # NoRecording /\ ops' = [ops EXCEPT ![t].pc = "locking"]
    <3> DEFINE x == [ops[t] EXCEPT !.pc = "locking"]
    <3>1. x \in OpState /\ x.op = "create" /\ x.pc = "locking" /\ x.bridge = ops[t].bridge
      BY <1>1, <2>1 DEF OpState
    <3>2. ops' = [ops EXCEPT ![t] = x]
      BY <2>3
    <3> HIDE DEF x
    <3>3. Unloaded'
      BY <1>1, <2>1, <3>1, <3>2, OpTypes DEF Unloaded
    <3> QED BY <1>1, <2>1, <2>3, <3>1, <3>2, <3>3, OpTypes, OutsideLock DEF Holding
  <2> QED BY <1>5, <2>2, <2>3 DEF Warmed, Done
<1>6. ASSUME Search(t) PROVE PlaybackInv'
  <2> DEFINE x == [IdleOp EXCEPT !.op = "search", !.pc = "searching"]
  <2>1. /\ ops[t] = IdleOp /\ ops' = [ops EXCEPT ![t] = x] /\ ~unloaded /\ query' = t
        /\ UNCHANGED <<position, bridge, state, loaded, stream, lock, unloaded>>
    BY <1>6 DEF Search
  <2>2. /\ x \in OpState /\ x.op = "search" /\ x.pc = "searching"
    BY <1>1, OpTypes DEF OpState
  <2> HIDE DEF x
  <2>3. Unloaded'
    BY <1>1, <2>1, <2>2, OpTypes DEF Unloaded
  <2> QED BY <1>1, <2>1, <2>2, <2>3, OpTypes, OutsideLock DEF Holding
<1>7. ASSUME Searched(t) PROVE PlaybackInv'
  <2>1. /\ ops[t].pc = "searching" /\ ops[t].op = "search" /\ ops' = [ops EXCEPT ![t] = IdleOp]
        /\ query' = IF query = t THEN NoOp ELSE query
        /\ UNCHANGED <<position, bridge, state, loaded, stream, lock, unloaded>>
    BY <1>1, <1>7 DEF Searched, Done, Tasks
  <2>2. Unloaded'
    BY <1>1, <2>1, OpTypes DEF Unloaded
  <2> QED BY <1>1, <2>1, <2>2, OpTypes, OutsideLock DEF Holding
<1> QED BY <1>2, <1>3, <1>4, <1>5, <1>6, <1>7

\* An unload cancels the search; the task that searched ends.
LEMMA SearchCancelledKeeps ==
    ASSUME PlaybackInv, NEW t \in Op, SearchCancelled(t)
    PROVE  PlaybackInv'
<1> DEFINE x == [ops[t] EXCEPT !.pc = "locking"]
<1>1. /\ ops[t].pc = "cancelling" /\ ops[t].op = "unload" /\ query' = NoOp
      /\ UNCHANGED <<position, bridge, state, loaded, stream, lock, unloaded>>
  BY DEF SearchCancelled, PlaybackInv, Tasks
<1>2. /\ ops' = [u \in Op |-> CASE u = t -> x [] u = query /\ u # t -> IdleOp [] OTHER -> ops[u]]
  BY DEF SearchCancelled
<1>3. x \in OpState /\ x.pc = "locking" /\ x.op = "unload"
  BY <1>1, OpTypes DEF OpState
<1> HIDE DEF x
<1>4. /\ ops' \in [Op -> OpState] /\ ops'[t] = x
      /\ \A u \in Op \ {t} : ops'[u] = IF u = query THEN IdleOp ELSE ops[u]
  BY <1>2, <1>3, OpTypes
<1>5. query # NoOp => ops[query].pc = "searching"
  BY DEF PlaybackInv, Unloaded
<1>6. IdleOp.pc = "idle" /\ IdleOp.op = "none"
  BY DEF IdleOp
<1>7. PlaybackTypeOK'
  BY <1>1, <1>4 DEF PlaybackInv, PlaybackTypeOK, OpState
<1>8. Tasks'
  BY <1>1, <1>3, <1>4, <1>6 DEF PlaybackInv, Tasks
<1>9. lock # t /\ (query # NoOp => lock # query)
  BY <1>1, <1>5, OpTypes DEF PlaybackInv, Holder
<1>10. Holder'
  BY <1>1, <1>3, <1>4, <1>5, <1>6, <1>9, OpTypes DEF PlaybackInv, Holder
<1>11. \A u \in Op : /\ lock = u => ops'[u] = ops[u]
                     /\ ops'[u].pc \in Holding => ops'[u] = ops[u]
  BY <1>3, <1>4, <1>6, <1>9, OpTypes DEF Holding
<1>12. Bridges' /\ Shown'
  BY <1>1, <1>11 DEF PlaybackInv, Bridges, Shown, Holding
<1>13. Unloaded'
  BY <1>1, <1>3, <1>4 DEF Unloaded
<1> QED BY <1>7, <1>8, <1>10, <1>12, <1>13 DEF PlaybackInv

\* A bridge takes the recording chosen at this moment.
LEMMA LoadsKeeps ==
    ASSUME PlaybackInv, NEW t \in Op, Loads(t)
    PROVE  PlaybackInv'
<1>1. /\ ops[t].pc = "warming" /\ ops[t].op = "create" /\ ops[t].bridge \in 1..bridge
      /\ state[ops[t].bridge] = "open" /\ position # NoRecording
      /\ loaded' = [loaded EXCEPT ![ops[t].bridge] = position]
      /\ UNCHANGED <<position, bridge, state, stream, lock, unloaded, query, ops>>
  BY DEF Loads, PlaybackInv, Tasks
<1>2. ops[t].bridge = bridge
  BY <1>1, OpTypes DEF PlaybackInv, Bridges, Bridge
<1>3. loaded \in [Bridge -> MaybeRecording] /\ bridge \in Bridge /\ bridge \in Nat
  BY OpTypes DEF PlaybackInv, PlaybackTypeOK, Bridge
<1>4. loaded' \in [Bridge -> MaybeRecording] /\ \A b \in Bridge : loaded'[b] = IF b = bridge THEN position ELSE loaded[b]
  BY <1>1, <1>2, <1>3, OpTypes
<1>5. PlaybackTypeOK'
  BY <1>1, <1>4 DEF PlaybackInv, PlaybackTypeOK
<1>6. Tasks'
  <2>1. \A u \in Op : ops[u].op = "create" => ops[u].bridge \in Bridge
    BY OpTypes DEF PlaybackInv, Tasks, Bridge
  <2> QED BY <1>1, <1>4, <2>1 DEF PlaybackInv, Tasks
<1>7. Holder' /\ Unloaded'
  BY <1>1 DEF PlaybackInv, Holder, Unloaded
<1>8. Bridges'
  BY <1>1, <1>3, <1>4, OpTypes DEF PlaybackInv, Bridges, Bridge
<1>9. Shown'
  BY <1>1, <1>3, <1>4 DEF PlaybackInv, Shown
<1> QED BY <1>5, <1>6, <1>7, <1>8, <1>9 DEF PlaybackInv

\* The lock is had: the bridge is told to close, or a late choice is refused.
LEMMA LockedKeeps ==
    ASSUME PlaybackInv, NEW t \in Op, Locked(t)
    PROVE  PlaybackInv'
<1>1. /\ ops[t].op \in {"select", "stop", "unload"} /\ ops[t].pc = "locking" /\ lock = NoOp
      /\ UNCHANGED <<bridge, loaded, stream, unloaded, query>>
  BY DEF Locked
<1>2. CASE ops[t].op = "select" /\ unloaded
  <2>1. ops' = [ops EXCEPT ![t] = IdleOp] /\ UNCHANGED <<position, state, lock>>
    BY <1>2 DEF Locked, Done
  <2>2. IdleOp.pc = "idle" /\ IdleOp.op = "none"
    BY DEF IdleOp
  <2>3. Unloaded'
    BY <1>1, <1>2, <2>1, <2>2, OpTypes DEF PlaybackInv, Unloaded
  <2> QED BY <1>1, <2>1, <2>2, <2>3, OpTypes, OutsideLock DEF Holding
<1>3. CASE ~(ops[t].op = "select" /\ unloaded)
  <2> DEFINE x == [ops[t] EXCEPT !.pc = "closing"]
  <2>1. /\ lock' = t
        /\ position' = IF ops[t].op = "select" THEN position ELSE NoRecording
        /\ state' = [state EXCEPT ![bridge] = IF @ = "open" THEN "closing" ELSE @]
        /\ ops' = [ops EXCEPT ![t] = x]
    BY <1>3 DEF Locked
  <2>2. x \in OpState /\ x.pc = "closing" /\ x.op = ops[t].op /\ x.date = ops[t].date
    BY <1>1, OpTypes DEF OpState
  <2> HIDE DEF x
  <2>3. ops' \in [Op -> OpState] /\ ops'[t] = x /\ \A u \in Op \ {t} : ops'[u] = ops[u]
    BY <2>1, <2>2, OpTypes
  <2>4. /\ state \in [Bridge -> {"unborn", "open", "closing", "closed"}]
        /\ bridge \in Bridge /\ bridge \in Nat
    BY OpTypes DEF PlaybackInv, PlaybackTypeOK, Bridge
  <2>5. /\ state' \in [Bridge -> {"unborn", "open", "closing", "closed"}]
        /\ \A b \in Bridge : b # bridge => state'[b] = state[b]
        /\ state'[bridge] = IF state[bridge] = "open" THEN "closing" ELSE state[bridge]
    BY <2>1, <2>4
  <2>6. position' \in MaybeRecording
    BY <2>1, OpTypes DEF MaybeRecording
  <2>7. PlaybackTypeOK'
    BY <1>1, <2>1, <2>3, <2>5, <2>6 DEF PlaybackInv, PlaybackTypeOK, OpState
  <2>8. Tasks'
    BY <1>1, <2>2, <2>3 DEF PlaybackInv, Tasks
  <2>9. Holder'
    BY <1>1, <2>1, <2>2, <2>3, OpTypes DEF PlaybackInv, Holder
  <2>10. \A u \in Op \ {t} : ops[u].pc \notin Holding
    BY <1>1, OpTypes DEF PlaybackInv, Holder, Holding
  <2>11. Bridges'
    <3>1. \A b \in Bridge : /\ b < bridge => state'[b] = "closed"
                            /\ b > bridge => state'[b] = "unborn" /\ loaded[b] = NoRecording
      BY <2>4, <2>5 DEF PlaybackInv, Bridges
    <3>2. state'[bridge] # "unborn" /\ state'[bridge] # "open"
      BY <2>5 DEF PlaybackInv, Bridges
    <3> QED BY <1>1, <2>1, <2>2, <2>3, <2>10, <3>1, <3>2 DEF Bridges, Holding
  <2>12. Shown'
    BY <1>1, <2>1, <2>2, <2>3 DEF Shown
  <2>13. Unloaded'
    <3>1. ASSUME unloaded, \A u \in Op : ops'[u].op # "unload"
          PROVE  stream = 0 /\ state'[bridge] = "closed" /\ x.op = "stop"
      <4>1. \A u \in Op : ops[u].op # "unload"
        BY <3>1, <2>2, <2>3
      <4>2. stream = 0 /\ state[bridge] = "closed"
        BY <3>1, <4>1 DEF PlaybackInv, Unloaded
      <4> QED BY <1>1, <1>3, <2>2, <2>5, <3>1, <4>1, <4>2
    <3>2. query # NoOp => ops[query].pc = "searching" /\ query # t /\ query \in Op
      BY <1>1, OpTypes DEF PlaybackInv, Unloaded
    <3>3. unloaded /\ query # NoOp => \E u \in Op : ops'[u].pc = "cancelling"
      BY <1>1, <2>3 DEF PlaybackInv, Unloaded
    <3> QED BY <1>1, <2>1, <2>3, <3>1, <3>2, <3>3 DEF Unloaded
  <2> QED BY <2>7, <2>8, <2>9, <2>11, <2>12, <2>13 DEF PlaybackInv
<1> QED BY <1>2, <1>3

\* The bridge has closed.
LEMMA BridgeClosesKeeps ==
    ASSUME PlaybackInv, BridgeCloses
    PROVE  PlaybackInv'
<1>1. /\ state[bridge] = "closing" /\ state' = [state EXCEPT ![bridge] = "closed"]
      /\ UNCHANGED <<position, bridge, loaded, stream, lock, unloaded, query, ops>>
  BY DEF BridgeCloses
<1>2. /\ state \in [Bridge -> {"unborn", "open", "closing", "closed"}]
      /\ bridge \in Bridge /\ bridge \in Nat
  BY OpTypes DEF PlaybackInv, PlaybackTypeOK, Bridge
<1>3. /\ state' \in [Bridge -> {"unborn", "open", "closing", "closed"}]
      /\ \A b \in Bridge : state'[b] = IF b = bridge THEN "closed" ELSE state[b]
  BY <1>1, <1>2
<1>4. PlaybackTypeOK' /\ Tasks' /\ Holder'
  BY <1>1, <1>3 DEF PlaybackInv, PlaybackTypeOK, Tasks, Holder
<1>5. Bridges'
  BY <1>1, <1>2, <1>3 DEF PlaybackInv, Bridges
<1>6. Shown' /\ Unloaded'
  BY <1>1, <1>2, <1>3 DEF PlaybackInv, Shown, Unloaded
<1> QED BY <1>4, <1>5, <1>6 DEF PlaybackInv

\* The stream is next.
LEMMA StoppingKeeps ==
    ASSUME PlaybackInv, NEW t \in Op, Stopping(t)
    PROVE  PlaybackInv'
<1> DEFINE x == [ops[t] EXCEPT !.pc = "stopping"]
<1>1. /\ ops[t].pc = "closing" /\ state[bridge] = "closed" /\ ops' = [ops EXCEPT ![t] = x]
      /\ UNCHANGED <<position, bridge, state, loaded, stream, lock, unloaded, query>>
  BY DEF Stopping
<1>2. x \in OpState /\ x.pc = "stopping" /\ x.op = ops[t].op /\ x.date = ops[t].date
      /\ x.bridge = ops[t].bridge
  BY <1>1, OpTypes DEF OpState
<1> HIDE DEF x
<1>3. /\ ops' \in [Op -> OpState] /\ ops'[t] = x /\ \A u \in Op \ {t} : ops'[u] = ops[u]
      /\ \A u \in Op : ops'[u].op = ops[u].op
  BY <1>1, <1>2, OpTypes
<1>4. PlaybackTypeOK'
  BY <1>1, <1>3 DEF PlaybackInv, PlaybackTypeOK, OpState
<1>5. Tasks' /\ Holder'
  BY <1>1, <1>2, <1>3 DEF PlaybackInv, Tasks, Holder
<1>6. Bridges'
  BY <1>1, <1>2, <1>3 DEF PlaybackInv, Bridges
<1>7. Shown' /\ Unloaded'
  BY <1>1, <1>2, <1>3, OpTypes DEF PlaybackInv, Shown, Unloaded
<1> QED BY <1>4, <1>5, <1>6, <1>7 DEF PlaybackInv

\* The stream is gone and the lock free; a choice has its new bridge.
LEMMA ReleasedKeeps ==
    ASSUME PlaybackInv, NEW t \in Op, Released(t)
    PROVE  PlaybackInv'
<1>1. /\ ops[t].pc = "stopping" /\ stream' = 0 /\ lock' = NoOp /\ ops' = [ops EXCEPT ![t] = IdleOp]
      /\ UNCHANGED <<loaded, unloaded, query>>
  BY DEF Released, Done
<1>2. /\ lock = t /\ state[bridge] = "closed" /\ ops[t].op \in {"select", "stop", "unload"}
      /\ \A u \in Op \ {t} : ops[u].pc \notin Holding
  BY <1>1 DEF PlaybackInv, Holder, Bridges, Tasks, Holding
<1>3. IdleOp.pc = "idle" /\ IdleOp.op = "none"
  BY DEF IdleOp
<1>4. ops' \in [Op -> OpState] /\ ops'[t] = IdleOp /\ \A u \in Op \ {t} : ops'[u] = ops[u]
  BY <1>1, OpTypes
<1>5. \A u \in Op : ops'[u].pc \notin Holding
  BY <1>2, <1>3, <1>4 DEF Holding
<1>6. Holder'
  BY <1>1, <1>5, OpTypes DEF Holder, Holding
<1>7. query # NoOp => query # t /\ query \in Op
  BY <1>1, OpTypes DEF PlaybackInv, Unloaded
<1>8. /\ unloaded /\ query # NoOp => \E u \in Op : ops'[u].pc = "cancelling"
      /\ query # NoOp => ops'[query].pc = "searching"
  BY <1>1, <1>4, <1>7 DEF PlaybackInv, Unloaded
<1>9. bridge \in Bridge /\ bridge \in Nat /\ MaxBridges \in Nat
  BY OpTypes DEF PlaybackInv, PlaybackTypeOK
<1>10. CASE ops[t].op = "select"
  <2>1. /\ bridge < MaxBridges /\ position' = ops[t].date /\ bridge' = bridge + 1
        /\ state' = [state EXCEPT ![bridge + 1] = "open"]
    BY <1>10 DEF Released
  <2>2. bridge' \in Bridge /\ ops[t].date \in MaybeRecording
    BY <1>9, <2>1, OpTypes DEF Bridge, OpState
  <2>3. /\ state' \in [Bridge -> {"unborn", "open", "closing", "closed"}]
        /\ \A b \in Bridge : state'[b] = IF b = bridge + 1 THEN "open" ELSE state[b]
    BY <2>1, <2>2 DEF PlaybackInv, PlaybackTypeOK
  <2>4. PlaybackTypeOK'
    BY <1>1, <1>4, <2>1, <2>2, <2>3, <1>9 DEF PlaybackInv, PlaybackTypeOK, OpState
  <2>5. Tasks'
    BY <1>1, <1>3, <1>4, <1>9, <2>1 DEF PlaybackInv, Tasks
  <2>6. Bridges'
    <3>1. ASSUME NEW b \in Bridge
          PROVE  /\ b < bridge' => state'[b] = "closed"
                 /\ b > bridge' => state'[b] = "unborn" /\ loaded'[b] = NoRecording
      <4>1. b \in Nat /\ (b < bridge => state[b] = "closed")
            /\ (b > bridge => state[b] = "unborn" /\ loaded[b] = NoRecording)
        BY DEF PlaybackInv, Bridges, Bridge
      <4> QED BY <1>1, <1>2, <1>9, <2>1, <2>3, <4>1
    <3>2. state'[bridge'] = "open" /\ loaded'[bridge'] = NoRecording
      <4>1. bridge' > bridge
        BY <1>9, <2>1
      <4> QED BY <1>1, <2>1, <2>2, <2>3, <4>1 DEF PlaybackInv, Bridges
    <3> QED BY <1>1, <1>5, <3>1, <3>2, OpTypes DEF Bridges, Holding
  <2>7. Shown'
    BY <1>1 DEF Shown
  <2>8. ~(unloaded /\ \A u \in Op : ops[u].op # "unload")
    BY <1>2, <1>10 DEF PlaybackInv, Unloaded
  <2>9. Unloaded'
    BY <1>1, <1>4, <1>8, <1>10, <2>8 DEF Unloaded
  <2> QED BY <1>6, <2>4, <2>5, <2>6, <2>7, <2>9 DEF PlaybackInv
<1>11. CASE ops[t].op # "select"
  <2>1. UNCHANGED <<position, bridge, state>>
    BY <1>11 DEF Released
  <2>2. position = NoRecording
    BY <1>2, <1>11 DEF PlaybackInv, Bridges
  <2>3. PlaybackTypeOK'
    BY <1>1, <1>4, <1>9, <2>1 DEF PlaybackInv, PlaybackTypeOK, OpState
  <2>4. Tasks'
    BY <1>1, <1>3, <1>4, <2>1 DEF PlaybackInv, Tasks
  <2>5. Bridges'
    BY <1>1, <1>2, <1>5, <2>1, <2>2, OpTypes DEF PlaybackInv, Bridges, Holding
  <2>6. Shown'
    BY <1>1 DEF Shown
  <2>7. Unloaded'
    BY <1>1, <1>2, <1>8, <2>1, OpTypes DEF Unloaded
  <2> QED BY <1>6, <2>3, <2>4, <2>5, <2>6, <2>7 DEF PlaybackInv
<1> QED BY <1>10, <1>11

\* A stream request gets the lock: what it warmed is still chosen, or it ends.
LEMMA CreateLockedKeeps ==
    ASSUME PlaybackInv, NEW t \in Op, CreateLocked(t)
    PROVE  PlaybackInv'
<1>1. /\ ops[t].op = "create" /\ ops[t].pc = "locking" /\ lock = NoOp
      /\ UNCHANGED <<position, bridge, state, loaded, stream, unloaded, query>>
  BY DEF CreateLocked
<1>2. CASE ~StillChosen(t)
  <2>1. ops' = [ops EXCEPT ![t] = IdleOp] /\ UNCHANGED lock
    BY <1>2 DEF CreateLocked, Done
  <2>2. IdleOp.pc = "idle" /\ IdleOp.op = "none"
    BY DEF IdleOp
  <2>3. Unloaded'
    BY <1>1, <2>1, <2>2, OpTypes DEF PlaybackInv, Unloaded
  <2> QED BY <1>1, <2>1, <2>2, <2>3, OpTypes, OutsideLock DEF Holding
<1>3. CASE StillChosen(t)
  <2> DEFINE x == [ops[t] EXCEPT !.pc = "binding"]
  <2>1. /\ lock' = t /\ ops' = [ops EXCEPT ![t] = x]
        /\ ~unloaded /\ position # NoRecording /\ bridge = ops[t].bridge
    BY <1>3 DEF CreateLocked, StillChosen
  <2>2. x \in OpState /\ x.pc = "binding" /\ x.op = "create" /\ x.bridge = bridge
    BY <1>1, <2>1, OpTypes DEF OpState
  <2> HIDE DEF x
  <2>3. ops' \in [Op -> OpState] /\ ops'[t] = x /\ \A u \in Op \ {t} : ops'[u] = ops[u]
    BY <2>1, <2>2, OpTypes
  <2>4. \A u \in Op \ {t} : ops[u].pc \notin Holding
    BY <1>1, OpTypes DEF PlaybackInv, Holder, Holding
  <2>5. PlaybackTypeOK'
    BY <1>1, <2>1, <2>3 DEF PlaybackInv, PlaybackTypeOK, OpState
  <2>6. Tasks'
    BY <1>1, <2>1, <2>2, <2>3 DEF PlaybackInv, Tasks
  <2>7. Holder'
    BY <1>1, <2>1, <2>2, <2>3, <2>4, OpTypes DEF Holder, Holding
  <2>8. state[bridge] = "open"
    BY <1>1, <2>1, OpTypes DEF PlaybackInv, Bridges
  <2>9. Bridges'
    BY <1>1, <2>1, <2>2, <2>3, <2>4, <2>8 DEF PlaybackInv, Bridges, Holding
  <2>10. Shown'
    BY <1>1, <2>1, <2>3, OpTypes DEF PlaybackInv, Shown
  <2>11. Unloaded'
    BY <1>1, <2>1, <2>3, OpTypes DEF PlaybackInv, Unloaded
  <2> QED BY <2>5, <2>6, <2>7, <2>9, <2>10, <2>11 DEF PlaybackInv
<1> QED BY <1>2, <1>3

\* The stream is made, of the bridge that was compared under the lock.
LEMMA CreatedKeeps ==
    ASSUME PlaybackInv, NEW t \in Op, Created(t)
    PROVE  PlaybackInv'
<1>1. /\ ops[t].pc = "binding" /\ lock' = NoOp /\ ops' = [ops EXCEPT ![t] = IdleOp]
      /\ stream' = IF stream = 0 /\ ~unloaded /\ position # NoRecording THEN ops[t].bridge ELSE stream
      /\ UNCHANGED <<position, bridge, state, loaded, unloaded, query>>
  BY DEF Created, Done
<1>2. /\ lock = t /\ ops[t].op = "create" /\ ops[t].bridge = bridge /\ position # NoRecording
      /\ loaded[bridge] # NoRecording
      /\ \A u \in Op \ {t} : ops[u].pc \notin Holding
  BY <1>1 DEF PlaybackInv, Holder, Bridges, Tasks, Holding
<1>3. state[bridge] = "open" /\ loaded[bridge] = position
  BY <1>2 DEF PlaybackInv, Bridges
<1>4. IdleOp.pc = "idle" /\ IdleOp.op = "none"
  BY DEF IdleOp
<1>5. ops' \in [Op -> OpState] /\ ops'[t] = IdleOp /\ \A u \in Op \ {t} : ops'[u] = ops[u]
  BY <1>1, OpTypes
<1>6. \A u \in Op : ops'[u].pc \notin Holding
  BY <1>2, <1>4, <1>5 DEF Holding
<1>7. stream' \in 0..MaxBridges
  BY <1>1, <1>2, OpTypes DEF PlaybackInv, PlaybackTypeOK
<1>8. PlaybackTypeOK'
  BY <1>1, <1>5, <1>7 DEF PlaybackInv, PlaybackTypeOK, OpState
<1>9. Tasks'
  BY <1>1, <1>4, <1>5 DEF PlaybackInv, Tasks
<1>10. Holder'
  BY <1>1, <1>6, OpTypes DEF Holder, Holding
<1>11. Bridges'
  BY <1>1, <1>3, <1>6, OpTypes DEF PlaybackInv, Bridges, Holding
<1>12. Shown'
  BY <1>1, <1>2, <1>3 DEF PlaybackInv, Shown
<1>13. ~(unloaded /\ \A u \in Op : ops[u].op # "unload")
  BY <1>2 DEF PlaybackInv, Unloaded
<1>14. query # NoOp => query # t /\ query \in Op
  BY <1>1, OpTypes DEF PlaybackInv, Unloaded
<1>15. Unloaded'
  BY <1>1, <1>2, <1>5, <1>13, <1>14 DEF PlaybackInv, Unloaded
<1> QED BY <1>8, <1>9, <1>10, <1>11, <1>12, <1>15 DEF PlaybackInv

\* The invariant of the playback entity is inductive.
LEMMA PlaybackInductive == PlaybackInv /\ [PlaybackNext]_playbackVars => PlaybackInv'
<1> SUFFICES ASSUME PlaybackInv, [PlaybackNext]_playbackVars PROVE PlaybackInv'
  OBVIOUS
<1>1. CASE UNCHANGED playbackVars
  BY <1>1 DEF playbackVars, PlaybackInv, PlaybackTypeOK, Tasks, Holder, Bridges, Shown, Unloaded
<1> QED BY <1>1, OutsideKeeps, SearchCancelledKeeps, LoadsKeeps, LockedKeeps, BridgeClosesKeeps,
           StoppingKeeps, ReleasedKeeps, CreateLockedKeeps, CreatedKeeps DEF PlaybackNext

(***************************************************************************)
(* camera.OrviboHddCamera: whenever _selection_lock is free the stream     *)
(* reads the current bridge, which is open and loaded with the recording   *)
(* that is chosen, and after the last unload nothing is left; for any      *)
(* number of concurrent calls and recordings, in any order.                *)
(***************************************************************************)
THEOREM SelectionShown == PlaybackSpec => []StreamShowsSelection
<1>1. PlaybackInit => PlaybackInv
  <2> SUFFICES ASSUME PlaybackInit PROVE PlaybackInv
    OBVIOUS
  <2>1. IdleOp \in OpState /\ IdleOp.pc = "idle" /\ IdleOp.op = "none" /\ 1 \in Bridge
        /\ NoRecording \in MaybeRecording /\ 0 \in 0..MaxBridges
    BY PlaybackAssumption DEF OpState, IdleOp, MaybeRecording, Bridge
  <2>2. ops \in [Op -> OpState] /\ \A t \in Op : ops[t] = IdleOp
    BY <2>1 DEF PlaybackInit
  <2>3. PlaybackTypeOK
    BY <2>1, <2>2 DEF PlaybackInit, PlaybackTypeOK, OpState
  <2>4. Tasks /\ Holder /\ Shown /\ Unloaded
    BY <2>1, <2>2, PlaybackAssumption DEF PlaybackInit, Tasks, Holder, Shown, Unloaded
  <2>5. Bridges
    BY <2>1, <2>2, PlaybackAssumption DEF PlaybackInit, Bridges, Bridge
  <2> QED BY <2>3, <2>4, <2>5 DEF PlaybackInv
<1>2. PlaybackInv => StreamShowsSelection
  <2> SUFFICES ASSUME PlaybackInv, lock = NoOp PROVE StreamShowsSelection
    BY DEF StreamShowsSelection
  <2>1. \A t \in Op : lock # t
    BY OpTypes
  <2>2. stream # 0 => /\ stream = bridge /\ state[bridge] = "open"
                      /\ position # NoRecording /\ loaded[bridge] = position
    BY <2>1 DEF PlaybackInv, Shown
  <2>3. ASSUME unloaded, \A t \in Op : ops[t].op # "unload"
        PROVE  stream = 0 /\ state[bridge] = "closed" /\ query = NoOp
    BY <2>3 DEF PlaybackInv, Unloaded, Tasks
  <2> QED BY <2>2, <2>3 DEF StreamShowsSelection
<1> QED BY <1>1, <1>2, PlaybackInductive, PTL DEF PlaybackSpec

-----------------------------------------------------------------------------
(* The video bridge *)

\* A warm-up that starts gets a pipeline nobody refers to.
LEMMA EnsureFacts ==
    ASSUME EnsureWarm
    PROVE  \/ warming # NoWarm /\ UNCHANGED <<warming, pipe>>
           \/ \E q \in Pipe :
                 /\ warming = NoWarm /\ q \in Fresh
                 /\ pipe' = [pipe EXCEPT ![q] = "starting"]
                 /\ warming' = [pc |-> "preparing", pipe |-> q]
<1>1. Fresh # {} => NewPipe \in Fresh
  BY DEF NewPipe
<1> QED BY <1>1 DEF EnsureWarm, Fresh

\* The processes: they are reaped, or stop by themselves.
LEMMA ProcessesKeep ==
    ASSUME BridgeInv, ~SlowReap, NEW p \in Pipe, Reaped(p) \/ PipeStops(p)
    PROVE  BridgeInv'
<1> USE DEF BridgeInv, BridgeTypeOK, PipeState, MaybePipe, NoWarm, NoRequest, NoRecovery, Open
<1>1. CASE Reaped(p)
  <2>1. BridgeTypeOK'
    BY <1>1, BridgeAssumption DEF Reaped, SlotWatched, Holdings, Exclusive
  <2>2. SlotWatched' /\ Holdings' /\ Exclusive' /\ ClosingSteps'
    BY <1>1, BridgeAssumption
       DEF Reaped, SlotWatched, Holdings, Exclusive, ClosingSteps
  <2>3. EveryPipelineOwned'
    BY <1>1, BridgeAssumption
       DEF Reaped, SlotWatched, Holdings, Exclusive, ClosingSteps, EveryPipelineOwned, Owned
  <2> QED BY <2>1, <2>2, <2>3
<1>2. CASE PipeStops(p)
  <2>1. BridgeTypeOK'
    BY <1>2, BridgeAssumption DEF PipeStops, SlotWatched, Holdings, Exclusive
  <2>2. SlotWatched' /\ Holdings' /\ Exclusive' /\ ClosingSteps'
    BY <1>2, BridgeAssumption
       DEF PipeStops, SlotWatched, Holdings, Exclusive, ClosingSteps
  <2>3. EveryPipelineOwned'
    BY <1>2, BridgeAssumption
       DEF PipeStops, SlotWatched, Holdings, Exclusive, ClosingSteps, EveryPipelineOwned, Owned
  <2> QED BY <2>1, <2>2, <2>3
<1> QED BY <1>1, <1>2

\* The expiry of a pipeline.
LEMMA ExpiryKeeps ==
    ASSUME BridgeInv, ~SlowReap, NEW p \in Pipe, Expires(p) \/ ExpiryOver(p)
    PROVE  BridgeInv'
<1> USE DEF BridgeInv, BridgeTypeOK, PipeState, MaybePipe, NoWarm, NoRequest, NoRecovery, Open
<1>1. CASE Expires(p)
  <2>1. BridgeTypeOK'
    BY <1>1, BridgeAssumption DEF Expires, SlotWatched, Holdings, Exclusive, Kill
  <2>2. SlotWatched' /\ Holdings' /\ Exclusive' /\ ClosingSteps'
    BY <1>1, BridgeAssumption
       DEF Expires, SlotWatched, Holdings, Exclusive, ClosingSteps, Kill
  <2>3. EveryPipelineOwned'
    BY <1>1, BridgeAssumption
       DEF Expires, SlotWatched, Holdings, Exclusive, ClosingSteps, EveryPipelineOwned, Owned, Kill
  <2> QED BY <2>1, <2>2, <2>3
<1>2. CASE ExpiryOver(p)
  <2>1. BridgeTypeOK'
    BY <1>2, BridgeAssumption DEF ExpiryOver, SlotWatched, Holdings, Exclusive
  <2>2. SlotWatched' /\ Holdings' /\ Exclusive' /\ ClosingSteps'
    BY <1>2, BridgeAssumption
       DEF ExpiryOver, SlotWatched, Holdings, Exclusive, ClosingSteps
  <2>3. EveryPipelineOwned'
    BY <1>2, BridgeAssumption
       DEF ExpiryOver, SlotWatched, Holdings, Exclusive, ClosingSteps, EveryPipelineOwned, Owned
  <2> QED BY <2>1, <2>2, <2>3
<1> QED BY <1>1, <1>2

\* The warm-up fails, succeeds or is over.
LEMMA WarmUpKeeps ==
    ASSUME BridgeInv, ~SlowReap, WarmFails \/ WarmReady \/ WarmOver
    PROVE  BridgeInv'
<1> USE DEF BridgeInv, BridgeTypeOK, PipeState, MaybePipe, NoWarm, NoRequest, NoRecovery, Open
<1>1. CASE WarmFails
  <2>1. BridgeTypeOK'
    BY <1>1, BridgeAssumption DEF WarmFails, SlotWatched, Holdings, Exclusive, Kill
  <2>2. SlotWatched' /\ Holdings' /\ Exclusive' /\ ClosingSteps'
    BY <1>1, BridgeAssumption
       DEF WarmFails, SlotWatched, Holdings, Exclusive, ClosingSteps, Kill
  <2>3. EveryPipelineOwned'
    BY <1>1, BridgeAssumption
       DEF WarmFails, SlotWatched, Holdings, Exclusive, ClosingSteps, EveryPipelineOwned, Owned, Kill
  <2> QED BY <2>1, <2>2, <2>3
<1>2. CASE WarmReady
  <2>1. BridgeTypeOK'
    BY <1>2, BridgeAssumption DEF WarmReady, SlotWatched, Holdings, Exclusive, Resumed
  <2>2. SlotWatched' /\ Holdings' /\ Exclusive' /\ ClosingSteps'
    BY <1>2, BridgeAssumption
       DEF WarmReady, SlotWatched, Holdings, Exclusive, ClosingSteps, Resumed
  <2>3. EveryPipelineOwned'
    BY <1>2, BridgeAssumption
       DEF WarmReady, SlotWatched, Holdings, Exclusive, ClosingSteps, EveryPipelineOwned, Owned, Resumed
  <2> QED BY <2>1, <2>2, <2>3
<1>3. CASE WarmOver
  <2>1. BridgeTypeOK'
    BY <1>3, BridgeAssumption DEF WarmOver, SlotWatched, Holdings, Exclusive, Resumed
  <2>2. SlotWatched' /\ Holdings' /\ Exclusive' /\ ClosingSteps'
    BY <1>3, BridgeAssumption
       DEF WarmOver, SlotWatched, Holdings, Exclusive, ClosingSteps, Resumed
  <2>3. EveryPipelineOwned'
    BY <1>3, BridgeAssumption
       DEF WarmOver, SlotWatched, Holdings, Exclusive, ClosingSteps, EveryPipelineOwned, Owned, Resumed
  <2> QED BY <2>1, <2>2, <2>3
<1> QED BY <1>1, <1>2, <1>3

\* async_prepare, before and after it closes a broken pipeline.
LEMMA PrepareKeeps ==
    ASSUME BridgeInv, ~SlowReap, NEW c \in Caller, Prepare(c) \/ PrepareGoesOn(c)
    PROVE  BridgeInv'
<1> USE DEF BridgeInv, BridgeTypeOK, PipeState, MaybePipe, NoWarm, NoRequest, NoRecovery, Open
<1>1. CASE Prepare(c)
  <2>1. BridgeTypeOK'
    BY <1>1, EnsureFacts, BridgeAssumption DEF Prepare, SlotWatched, Holdings, Exclusive, Claim, Kill, Broken, Fresh, Owned
  <2>2. SlotWatched' /\ Holdings' /\ Exclusive' /\ ClosingSteps'
    BY <1>1, EnsureFacts, BridgeAssumption
       DEF Prepare, SlotWatched, Holdings, Exclusive, ClosingSteps, Claim, Kill, Broken, Fresh, Owned
  <2>3. EveryPipelineOwned'
    BY <1>1, EnsureFacts, BridgeAssumption
       DEF Prepare, SlotWatched, Holdings, Exclusive, ClosingSteps, EveryPipelineOwned, Owned, Claim, Kill, Broken, Fresh
  <2> QED BY <2>1, <2>2, <2>3
<1>2. CASE PrepareGoesOn(c)
  <2>1. BridgeTypeOK'
    BY <1>2, EnsureFacts, BridgeAssumption DEF PrepareGoesOn, SlotWatched, Holdings, Exclusive, Fresh, Owned
  <2>2. SlotWatched' /\ Holdings' /\ Exclusive' /\ ClosingSteps'
    BY <1>2, EnsureFacts, BridgeAssumption
       DEF PrepareGoesOn, SlotWatched, Holdings, Exclusive, ClosingSteps, Fresh, Owned
  <2>3. EveryPipelineOwned'
    BY <1>2, EnsureFacts, BridgeAssumption
       DEF PrepareGoesOn, SlotWatched, Holdings, Exclusive, ClosingSteps, EveryPipelineOwned, Owned, Fresh
  <2> QED BY <2>1, <2>2, <2>3
<1> QED BY <1>1, <1>2

\* A request before it has a pipeline and once it is over.
LEMMA RequestKeepsBridge ==
    ASSUME BridgeInv, ~SlowReap, Start \/ Request \/ RunStarts \/ OwnReady \/ RequestOver
    PROVE  BridgeInv'
<1> USE DEF BridgeInv, BridgeTypeOK, PipeState, MaybePipe, NoWarm, NoRequest, NoRecovery, Open
<1>1. CASE Start
  <2>1. BridgeTypeOK'
    BY <1>1, BridgeAssumption DEF Start, SlotWatched, Holdings, Exclusive
  <2>2. SlotWatched' /\ Holdings' /\ Exclusive' /\ ClosingSteps'
    BY <1>1, BridgeAssumption
       DEF Start, SlotWatched, Holdings, Exclusive, ClosingSteps
  <2>3. EveryPipelineOwned'
    BY <1>1, BridgeAssumption
       DEF Start, SlotWatched, Holdings, Exclusive, ClosingSteps, EveryPipelineOwned, Owned
  <2> QED BY <2>1, <2>2, <2>3
<1>2. CASE Request
  <2>1. BridgeTypeOK'
    <3>1. active' \in [pc : {"none", "start", "waiting", "take", "taking", "retry", "retaking", "warmed",
                             "preparing", "opening", "streaming", "failing", "closing"},
                       pipe : MaybePipe, recover : BOOLEAN]
      BY <1>2 DEF Request
    <3> QED BY <1>2, <3>1 DEF Request
  <2>2. SlotWatched' /\ Holdings' /\ Exclusive' /\ ClosingSteps'
    BY <1>2, BridgeAssumption
       DEF Request, SlotWatched, Holdings, Exclusive, ClosingSteps
  <2>3. EveryPipelineOwned'
    BY <1>2, BridgeAssumption
       DEF Request, SlotWatched, Holdings, Exclusive, ClosingSteps, EveryPipelineOwned, Owned
  <2> QED BY <2>1, <2>2, <2>3
<1>3. CASE RunStarts
  <2>1. BridgeTypeOK'
    BY <1>3, BridgeAssumption DEF RunStarts, SlotWatched, Holdings, Exclusive
  <2>2. SlotWatched' /\ Holdings' /\ Exclusive' /\ ClosingSteps'
    BY <1>3, BridgeAssumption
       DEF RunStarts, SlotWatched, Holdings, Exclusive, ClosingSteps
  <2>3. EveryPipelineOwned'
    BY <1>3, BridgeAssumption
       DEF RunStarts, SlotWatched, Holdings, Exclusive, ClosingSteps, EveryPipelineOwned, Owned
  <2> QED BY <2>1, <2>2, <2>3
<1>4. CASE OwnReady
  <2>1. BridgeTypeOK'
    BY <1>4, BridgeAssumption DEF OwnReady, SlotWatched, Holdings, Exclusive
  <2>2. SlotWatched' /\ Holdings' /\ Exclusive' /\ ClosingSteps'
    BY <1>4, BridgeAssumption
       DEF OwnReady, SlotWatched, Holdings, Exclusive, ClosingSteps
  <2>3. EveryPipelineOwned'
    BY <1>4, BridgeAssumption
       DEF OwnReady, SlotWatched, Holdings, Exclusive, ClosingSteps, EveryPipelineOwned, Owned
  <2> QED BY <2>1, <2>2, <2>3
<1>5. CASE RequestOver
  <2>1. BridgeTypeOK'
    BY <1>5, BridgeAssumption DEF RequestOver, SlotWatched, Holdings, Exclusive, ScheduleRecovery
  <2>2. SlotWatched' /\ Holdings' /\ Exclusive' /\ ClosingSteps'
    BY <1>5, BridgeAssumption
       DEF RequestOver, SlotWatched, Holdings, Exclusive, ClosingSteps, ScheduleRecovery
  <2>3. EveryPipelineOwned'
    BY <1>5, BridgeAssumption
       DEF RequestOver, SlotWatched, Holdings, Exclusive, ClosingSteps, EveryPipelineOwned, Owned, ScheduleRecovery
  <2> QED BY <2>1, <2>2, <2>3
<1> QED BY <1>1, <1>2, <1>3, <1>4, <1>5

\* The recovery.
LEMMA RecoveryKeeps ==
    ASSUME BridgeInv, ~SlowReap, RecoveryWakes \/ RecoveryRetries
    PROVE  BridgeInv'
<1> USE DEF BridgeInv, BridgeTypeOK, PipeState, MaybePipe, NoWarm, NoRequest, NoRecovery, Open
<1>1. CASE RecoveryWakes
  <2>1. BridgeTypeOK'
    BY <1>1, EnsureFacts, BridgeAssumption DEF RecoveryWakes, SlotWatched, Holdings, Exclusive, Fresh, Owned
  <2>2. SlotWatched' /\ Holdings' /\ Exclusive' /\ ClosingSteps'
    BY <1>1, EnsureFacts, BridgeAssumption
       DEF RecoveryWakes, SlotWatched, Holdings, Exclusive, ClosingSteps, Fresh, Owned
  <2>3. EveryPipelineOwned'
    BY <1>1, EnsureFacts, BridgeAssumption
       DEF RecoveryWakes, SlotWatched, Holdings, Exclusive, ClosingSteps, EveryPipelineOwned, Owned, Fresh
  <2> QED BY <2>1, <2>2, <2>3
<1>2. CASE RecoveryRetries
  <2>1. BridgeTypeOK'
    BY <1>2, BridgeAssumption DEF RecoveryRetries, SlotWatched, Holdings, Exclusive
  <2>2. SlotWatched' /\ Holdings' /\ Exclusive' /\ ClosingSteps'
    BY <1>2, BridgeAssumption
       DEF RecoveryRetries, SlotWatched, Holdings, Exclusive, ClosingSteps
  <2>3. EveryPipelineOwned'
    BY <1>2, BridgeAssumption
       DEF RecoveryRetries, SlotWatched, Holdings, Exclusive, ClosingSteps, EveryPipelineOwned, Owned
  <2> QED BY <2>1, <2>2, <2>3
<1> QED BY <1>1, <1>2

\* The steps of async_close that end nothing of the request.
LEMMA CloseKeeps ==
    ASSUME BridgeInv, ~SlowReap, CloseCalled \/ CloseRecovery \/ CloseReady
    PROVE  BridgeInv'
<1> USE DEF BridgeInv, BridgeTypeOK, PipeState, MaybePipe, NoWarm, NoRequest, NoRecovery, Open
<1>1. CASE CloseCalled
  <2>1. BridgeTypeOK'
    BY <1>1, BridgeAssumption DEF CloseCalled, SlotWatched, Holdings, Exclusive
  <2>2. SlotWatched' /\ Holdings' /\ Exclusive' /\ ClosingSteps'
    BY <1>1, BridgeAssumption
       DEF CloseCalled, SlotWatched, Holdings, Exclusive, ClosingSteps
  <2>3. EveryPipelineOwned'
    BY <1>1, BridgeAssumption
       DEF CloseCalled, SlotWatched, Holdings, Exclusive, ClosingSteps, EveryPipelineOwned, Owned
  <2> QED BY <2>1, <2>2, <2>3
<1>2. CASE CloseRecovery
  <2>1. BridgeTypeOK'
    BY <1>2, BridgeAssumption DEF CloseRecovery, SlotWatched, Holdings, Exclusive, Kill
  <2>2. SlotWatched' /\ Holdings' /\ Exclusive' /\ ClosingSteps'
    BY <1>2, BridgeAssumption
       DEF CloseRecovery, SlotWatched, Holdings, Exclusive, ClosingSteps, Kill
  <2>3. EveryPipelineOwned'
    BY <1>2, BridgeAssumption
       DEF CloseRecovery, SlotWatched, Holdings, Exclusive, ClosingSteps, EveryPipelineOwned, Owned, Kill
  <2> QED BY <2>1, <2>2, <2>3
<1>3. CASE CloseReady
  <2>1. BridgeTypeOK'
    BY <1>3, BridgeAssumption DEF CloseReady, SlotWatched, Holdings, Exclusive, Claim, Kill
  <2>2. SlotWatched' /\ Holdings' /\ Exclusive' /\ ClosingSteps'
    BY <1>3, BridgeAssumption
       DEF CloseReady, SlotWatched, Holdings, Exclusive, ClosingSteps, Claim, Kill
  <2>3. EveryPipelineOwned'
    BY <1>3, BridgeAssumption
       DEF CloseReady, SlotWatched, Holdings, Exclusive, ClosingSteps, EveryPipelineOwned, Owned, Claim, Kill
  <2> QED BY <2>1, <2>2, <2>3
<1> QED BY <1>1, <1>2, <1>3

\* Session.close of a request kills what it holds and keeps holding it.
LEMMA ClosingFacts ==
    ASSUME BridgeInv, NEW recover \in BOOLEAN, Closing(recover), UNCHANGED prepared
    PROVE  /\ active' \in [pc : {"closing"}, pipe : MaybePipe, recover : BOOLEAN]
           /\ active'.pc = "closing" /\ active'.pipe = active.pipe
           /\ pipe' \in [Pipe -> PipeState]
           /\ \A p \in Pipe : /\ pipe[p] = "none" <=> pipe'[p] = "none"
                              /\ p # active.pipe => pipe'[p] = pipe[p]
           /\ prepared # NoPipe => pipe'[prepared] = pipe[prepared]
<1>1. active' = [active EXCEPT !.pc = "closing", !.recover = recover]
  BY DEF Closing
<1>2. /\ active' \in [pc : {"closing"}, pipe : MaybePipe, recover : BOOLEAN]
      /\ active'.pc = "closing" /\ active'.pipe = active.pipe
  BY <1>1 DEF BridgeInv, BridgeTypeOK
<1>3. /\ pipe' \in [Pipe -> PipeState]
      /\ \A p \in Pipe : /\ pipe[p] = "none" <=> pipe'[p] = "none"
                         /\ p # active.pipe => pipe'[p] = pipe[p]
  BY DEF Closing, Kill, BridgeInv, BridgeTypeOK, PipeState, MaybePipe
<1>4. prepared # NoPipe => pipe'[prepared] = pipe[prepared]
  BY <1>3 DEF BridgeInv, BridgeTypeOK, MaybePipe, Exclusive
<1> QED BY <1>2, <1>3, <1>4

\* The request's run starts to stream, or is over.
LEMMA RunKeeps ==
    ASSUME BridgeInv, StreamStarts \/ RequestEnds
    PROVE  BridgeInv'
<1> USE DEF BridgeInv, BridgeTypeOK, NoWarm, NoRequest
<1>1. CASE StreamStarts
  <2>1. streamed' \in BOOLEAN /\ consumed' \in BOOLEAN
    BY <1>1 DEF StreamStarts
  <2>2. active' \in [pc : {"none", "start", "waiting", "take", "taking", "retry", "retaking", "warmed",
                           "preparing", "opening", "streaming", "failing", "closing"},
                     pipe : MaybePipe, recover : BOOLEAN]
    BY <1>1 DEF StreamStarts
  <2>3. BridgeTypeOK'
    BY <1>1, <2>1, <2>2 DEF StreamStarts
  <2>4. active'.pipe = active.pipe /\ active'.pc \in {"failing", "streaming"}
    BY <1>1 DEF StreamStarts
  <2>5. SlotWatched' /\ Holdings' /\ Exclusive' /\ ClosingSteps'
    BY <1>1, <2>4 DEF StreamStarts, SlotWatched, Holdings, Exclusive, ClosingSteps
  <2>6. EveryPipelineOwned'
    BY <1>1, <2>4 DEF StreamStarts, EveryPipelineOwned, Owned
  <2> QED BY <2>3, <2>5, <2>6
<1>2. CASE RequestEnds
  <2>1. PICK recover \in BOOLEAN : Closing(recover)
    BY <1>2 DEF RequestEnds
  <2>2. UNCHANGED <<mode, prepared, expiry, latest, warming, recovery, taking, streamed, consumed,
                    bound, closed, closer>>
    BY <1>2 DEF RequestEnds
  <2>3. /\ active' \in [pc : {"closing"}, pipe : MaybePipe, recover : BOOLEAN]
        /\ active'.pc = "closing" /\ active'.pipe = active.pipe
        /\ pipe' \in [Pipe -> PipeState]
        /\ \A p \in Pipe : /\ pipe[p] = "none" <=> pipe'[p] = "none"
                           /\ p # active.pipe => pipe'[p] = pipe[p]
        /\ prepared # NoPipe => pipe'[prepared] = pipe[prepared]
    BY <2>1, <2>2, ClosingFacts
  <2>4. BridgeTypeOK'
    BY <2>2, <2>3
  <2>5. SlotWatched' /\ Holdings' /\ Exclusive'
    BY <2>2, <2>3 DEF SlotWatched, Holdings, Exclusive
  <2>6. ClosingSteps'
    BY <2>2, <2>3 DEF ClosingSteps, MaybePipe
  <2>7. EveryPipelineOwned'
    BY <2>2, <2>3 DEF EveryPipelineOwned, Owned
  <2> QED BY <2>4, <2>5, <2>6, <2>7
<1> QED BY <1>1, <1>2

\* async_close ends the request, and returns.
LEMMA CloseEndsKeeps ==
    ASSUME BridgeInv, CloseActive \/ CloseDone
    PROVE  BridgeInv'
<1> USE DEF BridgeInv, BridgeTypeOK, Open
<1>1. CASE CloseActive
  <2>1. /\ closer.pc = "warming" /\ (closer.pipe # NoPipe => warming.pipe # closer.pipe)
        /\ closer' = [Open EXCEPT !.pc = "active"]
        /\ UNCHANGED <<mode, prepared, expiry, latest, warming, recovery, taking, streamed, consumed,
                       bound, closed>>
    BY <1>1 DEF CloseActive
  <2>2. closer'.pc = "active" /\ closer'.pipe = NoPipe /\ closed /\
        closer' \in [pc : {"idle", "recovery", "warming", "active", "closing", "done"}, pipe : MaybePipe]
    BY <2>1 DEF ClosingSteps, MaybePipe
  <2>3. closer.pipe # NoPipe => pipe[closer.pipe] = "none"
    BY <2>1 DEF ClosingSteps
  <2>4. /\ active' \in [pc : {"none", "start", "waiting", "take", "taking", "retry", "retaking", "warmed",
                              "preparing", "opening", "streaming", "failing", "closing"},
                        pipe : MaybePipe, recover : BOOLEAN]
        /\ active'.pipe = active.pipe
        /\ active'.pc = "closing" \/ active' = active
        /\ pipe' \in [Pipe -> PipeState]
        /\ \A p \in Pipe : pipe[p] = "none" <=> pipe'[p] = "none"
        /\ prepared # NoPipe => pipe'[prepared] = pipe[prepared]
    <3>1. CASE Closing(FALSE)
      BY <2>1, <3>1, ClosingFacts
    <3>2. CASE UNCHANGED <<active, pipe>>
      BY <3>2
    <3> QED BY <1>1, <3>1, <3>2 DEF CloseActive
  <2>5. BridgeTypeOK'
    BY <2>1, <2>2, <2>4
  <2>6. SlotWatched' /\ Holdings' /\ Exclusive'
    BY <2>1, <2>2, <2>4 DEF SlotWatched, Holdings, Exclusive
  <2>7. ClosingSteps'
    BY <2>1, <2>2 DEF ClosingSteps
  <2>8. EveryPipelineOwned'
    BY <2>1, <2>3, <2>4 DEF EveryPipelineOwned, Owned
  <2> QED BY <2>5, <2>6, <2>7, <2>8
<1>2. CASE CloseDone
  <2>1. /\ closer.pc = "closing" /\ (closer.pipe # NoPipe => pipe[closer.pipe] = "none")
        /\ bound' = FALSE /\ latest' = NoPipe /\ closer' = [Open EXCEPT !.pc = "done"]
        /\ UNCHANGED <<mode, pipe, prepared, expiry, warming, active, recovery, taking, streamed,
                       consumed, closed>>
    BY <1>2 DEF CloseDone
  <2>2. bound' \in BOOLEAN
    BY <2>1
  <2>3. closer'.pc = "done" /\ closer'.pipe = NoPipe /\
        closer' \in [pc : {"idle", "recovery", "warming", "active", "closing", "done"}, pipe : MaybePipe]
    BY <2>1 DEF MaybePipe
  <2>4. prepared = NoPipe
    BY <2>1 DEF ClosingSteps
  <2>5. BridgeTypeOK'
    BY <2>1, <2>2, <2>3 DEF MaybePipe
  <2>6. SlotWatched' /\ Holdings' /\ Exclusive' /\ ClosingSteps'
    BY <2>1, <2>3, <2>4 DEF SlotWatched, Holdings, Exclusive, ClosingSteps
  <2>7. EveryPipelineOwned'
    BY <2>1, <2>3 DEF EveryPipelineOwned, Owned
  <2> QED BY <2>5, <2>6, <2>7
<1> QED BY <1>1, <1>2

\* The types of a request and of the pipelines.
RequestType == [pc : {"none", "start", "waiting", "take", "taking", "retry", "retaking", "warmed",
                      "preparing", "opening", "streaming", "failing", "closing"},
                pipe : MaybePipe, recover : BOOLEAN]

\* A request that has found nothing shares a warm-up.
LEMMA SharesWarmUp ==
    ASSUME BridgeInv, prepared = NoPipe, EnsureWarm,
           active' \in RequestType, active'.pc = "retry", active'.pipe = NoPipe,
           active.pipe # NoPipe => pipe[active.pipe] = "none",
           UNCHANGED <<mode, prepared, expiry, latest, recovery, taking, streamed, consumed, bound,
                       closed, closer>>
    PROVE  BridgeInv'
<1> USE DEF BridgeInv, BridgeTypeOK, MaybePipe, NoWarm
<1>1. CASE UNCHANGED <<warming, pipe>>
  <2>1. BridgeTypeOK'
    BY <1>1 DEF RequestType
  <2>2. SlotWatched' /\ Holdings' /\ Exclusive' /\ ClosingSteps'
    BY <1>1 DEF SlotWatched, Holdings, Exclusive, ClosingSteps
  <2>3. EveryPipelineOwned'
    BY <1>1 DEF EveryPipelineOwned, Owned
  <2> QED BY <2>1, <2>2, <2>3
<1>2. ASSUME NEW q \in Pipe, warming = NoWarm, q \in Fresh,
             pipe' = [pipe EXCEPT ![q] = "starting"], warming' = [pc |-> "preparing", pipe |-> q]
      PROVE  BridgeInv'
  <2>1. /\ pipe' \in [Pipe -> PipeState] /\ q # NoPipe
        /\ \A p \in Pipe : pipe'[p] = IF p = q THEN "starting" ELSE pipe[p]
    BY <1>2, BridgeAssumption DEF PipeState
  <2>2. q # closer.pipe /\ warming.pipe = NoPipe
    BY <1>2 DEF Fresh, Owned
  <2>3. BridgeTypeOK'
    BY <1>2, <2>1 DEF RequestType
  <2>4. SlotWatched' /\ Holdings' /\ Exclusive'
    BY <1>2, <2>1 DEF SlotWatched, Holdings, Exclusive
  <2>5. ClosingSteps'
    BY <1>2, <2>1, <2>2 DEF ClosingSteps
  <2>6. EveryPipelineOwned'
    BY <1>2, <2>1, <2>2 DEF EveryPipelineOwned, Owned
  <2> QED BY <2>3, <2>4, <2>5, <2>6
<1> QED BY <1>1, <1>2, EnsureFacts

\* Or prepares a pipeline of its own.
LEMMA PreparesOwn ==
    ASSUME BridgeInv, prepared = NoPipe, NEW q \in Fresh,
           pipe' = [pipe EXCEPT ![q] = "starting"],
           active' \in RequestType, active'.pc = "preparing", active'.pipe = q,
           active.pipe # NoPipe => pipe[active.pipe] = "none",
           UNCHANGED <<mode, prepared, expiry, latest, recovery, warming, taking, streamed, consumed,
                       bound, closed, closer>>
    PROVE  BridgeInv'
<1> USE DEF BridgeInv, BridgeTypeOK, MaybePipe, NoWarm
<1>1. /\ pipe' \in [Pipe -> PipeState] /\ q \in Pipe /\ q # NoPipe
      /\ \A p \in Pipe : pipe'[p] = IF p = q THEN "starting" ELSE pipe[p]
  BY BridgeAssumption DEF PipeState, Fresh
<1>2. q # closer.pipe /\ q # warming.pipe /\ q # active.pipe /\ pipe[q] = "none"
  BY DEF Fresh, Owned
<1>3. BridgeTypeOK'
  BY <1>1 DEF RequestType
<1>4. SlotWatched' /\ Holdings' /\ Exclusive'
  BY <1>1, <1>2 DEF SlotWatched, Holdings, Exclusive
<1>5. ClosingSteps'
  BY <1>1, <1>2 DEF ClosingSteps
<1>6. ASSUME NEW p \in Pipe, pipe'[p] # "none"
      PROVE  Owned(p)'
  <2>1. CASE p = q
    BY <2>1 DEF Owned
  <2>2. CASE p # q
    <3>1. pipe[p] # "none" /\ Owned(p)
      BY <1>1, <1>6, <2>2 DEF EveryPipelineOwned
    <3>2. p # active.pipe /\ p # NoPipe
      BY <3>1, BridgeAssumption
    <3> QED BY <3>1, <3>2 DEF Owned
  <2> QED BY <2>1, <2>2
<1>7. EveryPipelineOwned'
  BY <1>6 DEF EveryPipelineOwned
<1> QED BY <1>3, <1>4, <1>5, <1>7

\* _take_ready that finds a pipeline: the request has it now, to stream or to close.
LEMMA TakesPrepared ==
    ASSUME BridgeInv, prepared # NoPipe, Claim, active.pipe = NoPipe,
           active' \in RequestType, active'.pipe = prepared,
           \/ UNCHANGED pipe /\ active'.pc = "opening"
           \/ pipe' = Kill(prepared) /\ active'.pc \in {"taking", "retaking"},
           UNCHANGED <<mode, latest, recovery, warming, taking, streamed, consumed, bound, closed,
                       closer>>
    PROVE  BridgeInv'
<1> USE DEF BridgeInv, BridgeTypeOK, MaybePipe, NoWarm
<1>1. /\ prepared' = NoPipe /\ prepared \in Pipe
      /\ latest = prepared /\ expiry' = [expiry EXCEPT ![prepared] = "none"]
      /\ warming = NoWarm /\ \A c \in Caller : taking[c] = NoPipe
  BY DEF Claim, SlotWatched
<1>2. /\ expiry' \in [Pipe -> {"none", "watching", "closing"}]
      /\ \A p \in Pipe : p # prepared => expiry'[p] = expiry[p]
  BY <1>1
<1>3. pipe' \in [Pipe -> PipeState] /\ \A p \in Pipe : p # prepared => pipe'[p] = pipe[p]
  BY <1>1 DEF Kill, PipeState
<1>4. closer.pipe # prepared
  BY <1>1 DEF Exclusive
<1>5. BridgeTypeOK'
  BY <1>1, <1>2, <1>3 DEF RequestType
<1>6. SlotWatched' /\ Holdings' /\ Exclusive'
  BY <1>1, <1>4, BridgeAssumption DEF SlotWatched, Holdings, Exclusive
<1>7. ClosingSteps'
  BY <1>1, <1>3, <1>4 DEF ClosingSteps
<1>8. EveryPipelineOwned'
  BY <1>1, <1>2, <1>3 DEF EveryPipelineOwned, Owned
<1> QED BY <1>5, <1>6, <1>7, <1>8

\* A request that gives up: it holds nothing that runs.
LEMMA GivesUp ==
    ASSUME BridgeInv, active' \in RequestType, active'.pc = "failing", active'.pipe = NoPipe,
           active.pipe # NoPipe => pipe[active.pipe] = "none",
           UNCHANGED <<mode, pipe, prepared, expiry, latest, recovery, warming, taking, streamed,
                       consumed, bound, closed, closer>>
    PROVE  BridgeInv'
<1>1. BridgeTypeOK'
  BY DEF BridgeInv, BridgeTypeOK, RequestType
<1>2. SlotWatched' /\ Holdings' /\ Exclusive' /\ ClosingSteps'
  BY DEF BridgeInv, SlotWatched, Holdings, Exclusive, ClosingSteps
<1>3. EveryPipelineOwned'
  BY DEF BridgeInv, EveryPipelineOwned, Owned
<1> QED BY <1>1, <1>2, <1>3 DEF BridgeInv

\* The request looks for a pipeline.
LEMMA TakeKeeps ==
    ASSUME BridgeInv, Take
    PROVE  BridgeInv'
<1>1. /\ active.pc \in {"take", "warmed"} /\ active.pipe = NoPipe
      /\ UNCHANGED <<mode, latest, recovery, taking, streamed, consumed, bound, closed, closer>>
      /\ active \in RequestType
  BY DEF Take, BridgeInv, Holdings, BridgeTypeOK, RequestType
<1>2. CASE prepared = NoPipe
  <2>1. UNCHANGED <<prepared, expiry>>
    BY <1>2 DEF Take
  <2>2. CASE active.pc = "take" /\ TakeNothing
    <3>1. CASE streamed /\ mode = "live"
      <4>1. EnsureWarm /\ active' = [active EXCEPT !.pc = "retry"]
        BY <2>2, <3>1 DEF TakeNothing
      <4>2. active' \in RequestType /\ active'.pc = "retry" /\ active'.pipe = NoPipe
        BY <1>1, <4>1 DEF RequestType
      <4> QED BY <1>1, <1>2, <2>1, <4>1, <4>2, SharesWarmUp
    <3>2. CASE ~(streamed /\ mode = "live")
      <4>1. /\ NewPipe \in Fresh /\ pipe' = [pipe EXCEPT ![NewPipe] = "starting"]
            /\ active' = [active EXCEPT !.pc = "preparing", !.pipe = NewPipe] /\ UNCHANGED warming
        BY <2>2, <3>2 DEF TakeNothing, NewPipe
      <4>2. NewPipe \in MaybePipe
        BY <4>1 DEF Fresh, MaybePipe
      <4>3. active' \in RequestType /\ active'.pc = "preparing" /\ active'.pipe = NewPipe
        BY <1>1, <4>1, <4>2 DEF RequestType
      <4> QED BY <1>1, <1>2, <2>1, <4>1, <4>3, PreparesOwn
    <3> QED BY <3>1, <3>2
  <2>3. CASE active' = [active EXCEPT !.pc = "failing"] /\ UNCHANGED <<pipe, warming>>
    <3>1. active' \in RequestType /\ active'.pc = "failing" /\ active'.pipe = NoPipe
      BY <1>1, <2>3 DEF RequestType
    <3> QED BY <1>1, <2>1, <2>3, <3>1, GivesUp
  <2> QED BY <1>1, <1>2, <2>2, <2>3 DEF Take
<1>3. CASE prepared # NoPipe /\ ~Broken(prepared)
  <2>1. /\ Claim /\ active' = [active EXCEPT !.pc = "opening", !.pipe = prepared]
        /\ UNCHANGED <<pipe, warming>>
    BY <1>3 DEF Take
  <2>2. prepared \in MaybePipe
    BY DEF BridgeInv, BridgeTypeOK
  <2>3. active' \in RequestType /\ active'.pc = "opening" /\ active'.pipe = prepared
    BY <1>1, <2>1, <2>2 DEF RequestType
  <2> QED BY <1>1, <1>3, <2>1, <2>3, TakesPrepared
<1>4. CASE prepared # NoPipe /\ Broken(prepared)
  <2> DEFINE pc == IF active.pc = "take" THEN "taking" ELSE "retaking"
  <2>1. /\ Claim /\ pipe' = Kill(prepared) /\ UNCHANGED warming
        /\ active' = [active EXCEPT !.pc = pc, !.pipe = prepared]
    BY <1>4 DEF Take
  <2>2. prepared \in MaybePipe /\ pc \in {"taking", "retaking"}
    BY DEF BridgeInv, BridgeTypeOK
  <2> HIDE DEF pc
  <2>3. active' \in RequestType /\ active'.pc \in {"taking", "retaking"} /\ active'.pipe = prepared
    BY <1>1, <2>1, <2>2 DEF RequestType
  <2> QED BY <1>1, <1>4, <2>1, <2>3, TakesPrepared
<1> QED BY <1>2, <1>3, <1>4

\* The broken pipeline it found is gone.
LEMMA TakenKeeps ==
    ASSUME BridgeInv, Taken
    PROVE  BridgeInv'
<1>1. /\ active.pc \in {"taking", "retaking"} /\ pipe[active.pipe] = "none"
      /\ UNCHANGED <<mode, prepared, expiry, latest, recovery, taking, streamed, consumed, bound,
                     closed, closer>>
      /\ active \in RequestType
  BY DEF Taken, BridgeInv, BridgeTypeOK, RequestType
<1>2. CASE active.pc = "taking"
  <2>1. prepared = NoPipe
    BY <1>2 DEF BridgeInv, Holdings
  <2>2. CASE EnsureWarm /\ active' = [active EXCEPT !.pc = "retry", !.pipe = NoPipe]
    <3>1. active' \in RequestType /\ active'.pc = "retry" /\ active'.pipe = NoPipe
      BY <1>1, <2>2 DEF RequestType, MaybePipe
    <3> QED BY <1>1, <2>1, <2>2, <3>1, SharesWarmUp
  <2>3. CASE ~(streamed /\ mode = "live") /\ TakeNothing
    <3>1. /\ NewPipe \in Fresh /\ pipe' = [pipe EXCEPT ![NewPipe] = "starting"]
          /\ active' = [active EXCEPT !.pc = "preparing", !.pipe = NewPipe] /\ UNCHANGED warming
      BY <2>3 DEF TakeNothing, NewPipe
    <3>2. NewPipe \in MaybePipe
      BY <3>1 DEF Fresh, MaybePipe
    <3>3. active' \in RequestType /\ active'.pc = "preparing" /\ active'.pipe = NewPipe
      BY <1>1, <3>1, <3>2 DEF RequestType
    <3> QED BY <1>1, <2>1, <3>1, <3>3, PreparesOwn
  <2> QED BY <1>2, <2>2, <2>3 DEF Taken
<1>3. CASE active.pc = "retaking"
  <2>1. active' = [active EXCEPT !.pc = "failing", !.pipe = NoPipe] /\ UNCHANGED <<pipe, warming>>
    BY <1>3 DEF Taken
  <2>2. active' \in RequestType /\ active'.pc = "failing" /\ active'.pipe = NoPipe
    BY <1>1, <2>1 DEF RequestType, MaybePipe
  <2> QED BY <1>1, <2>1, <2>2, GivesUp
<1> QED BY <1>1, <1>2, <1>3

\* The invariant of the bridge is inductive.
LEMMA BridgeInductive ==
    ASSUME ~SlowReap
    PROVE  BridgeInv /\ [BridgeNext]_bridgeVars => BridgeInv'
<1> SUFFICES ASSUME BridgeInv, [BridgeNext]_bridgeVars PROVE BridgeInv'
  OBVIOUS
<1>1. CASE UNCHANGED bridgeVars
  BY <1>1 DEF bridgeVars, BridgeInv, BridgeTypeOK, SlotWatched, Holdings, Exclusive, ClosingSteps,
              EveryPipelineOwned, Owned
<1> QED BY <1>1, ProcessesKeep, ExpiryKeeps, WarmUpKeeps, PrepareKeeps, RequestKeepsBridge, TakeKeeps,
           TakenKeeps, RunKeeps, RecoveryKeeps, CloseKeeps, CloseEndsKeeps DEF BridgeNext

(***************************************************************************)
(* MeariVideoBridge: every pipeline with processes belongs to a task that  *)
(* ends it, for any number of pipelines and callers of async_prepare, as   *)
(* long as killed processes are reaped before a new warm-up produces its   *)
(* first output.  Where they are not, a caller that closes a broken        *)
(* pipeline starts a second warm-up beside a filled slot.                  *)
(***************************************************************************)
THEOREM PipelinesOwned ==
    ASSUME ~SlowReap
    PROVE  BridgeSpec => []EveryPipelineOwned
<1>1. BridgeInit => BridgeInv
  <2> SUFFICES ASSUME BridgeInit PROVE BridgeInv
    OBVIOUS
  <2> USE DEF BridgeInit, NoWarm, NoRequest, NoRecovery, Open
  <2>1. /\ streamed \in BOOLEAN /\ consumed \in BOOLEAN /\ bound \in BOOLEAN /\ closed \in BOOLEAN
    OBVIOUS
  <2>2. active \in RequestType
    BY DEF RequestType, MaybePipe
  <2>3. BridgeTypeOK
    BY <2>1, <2>2, BridgeAssumption DEF BridgeTypeOK, RequestType, MaybePipe, PipeState
  <2>4. SlotWatched /\ Holdings /\ Exclusive /\ ClosingSteps
    BY DEF SlotWatched, Holdings, Exclusive, ClosingSteps
  <2>5. EveryPipelineOwned
    BY DEF EveryPipelineOwned
  <2> QED BY <2>3, <2>4, <2>5 DEF BridgeInv
<1>2. BridgeInv => EveryPipelineOwned
  BY DEF BridgeInv
<1> QED BY <1>1, <1>2, BridgeInductive, PTL DEF BridgeSpec

-----------------------------------------------------------------------------
(* The pipeline *)

\* The types of the processes' states.
WorkerType == [pc : {"connecting", "receiving", "exited"}, tries : 0..Candidates,
               codec : Codec \cup {"unknown"}, params : BOOLEAN, keyed : BOOLEAN, first : BOOLEAN,
               acked : BOOLEAN, refused : BOOLEAN]
ReaderType == [pc : {"preparing", "feeding", "ended", "failed"}, codec : Codec \cup {"unknown"}]
DecoderType == [fed : BOOLEAN, key : BOOLEAN, own : BOOLEAN, codecs : SUBSET Codec,
                servers : SUBSET (1..Candidates)]

\* What a record written into the pipe leaves alone, and what it adds.
LEMMA AppendKeeps ==
    ASSUME NEW S, NEW s \in Seq(S), NEW r \in S
    PROVE  /\ Append(s, r) \in Seq(S) /\ Len(Append(s, r)) = Len(s) + 1
           /\ \A i \in 1..Len(s) : Append(s, r)[i] = s[i]
           /\ Append(s, r)[Len(s) + 1] = r
OBVIOUS

\* What is left of the pipe once its first record was read.
LEMMA TailKeeps ==
    ASSUME NEW S, NEW s \in Seq(S), s # <<>>
    PROVE  /\ Tail(s) \in Seq(S) /\ Len(s) > 0 /\ Len(Tail(s)) = Len(s) - 1 /\ Len(s) \in Nat
           /\ \A i \in 1..Len(Tail(s)) : Tail(s)[i] = s[i + 1] /\ i + 1 \in 1..Len(s)
           /\ Head(s) = s[1] /\ Head(s) \in S /\ 1 \in 1..Len(s)
OBVIOUS

\* Steps of the worker that forward no picture: its one connection stays its one.
WorkerGoesOn ==
    /\ worker' \in WorkerType /\ worker'.first = worker.first
    /\ worker.refused => worker'.refused
    /\ worker'.pc = "receiving" => worker'.tries > 0
    /\ worker.first /\ worker'.keyed => worker'.refused
    /\ ~worker.first => /\ worker'.pc # "connecting" /\ worker'.codec = worker.codec
                        /\ worker'.tries = worker.tries
    /\ UNCHANGED <<request, reader, decoder>>

\* Such a step that writes nothing.
LEMMA WritesNothing ==
    ASSUME PipelineInv, WorkerGoesOn, UNCHANGED stdout
    PROVE  PipelineInv'
<1> USE DEF PipelineInv, WorkerGoesOn
<1>1. PipelineTypeOK'
  BY DEF PipelineTypeOK, WorkerType
<1>2. Forwarded'
  BY DEF Forwarded, WorkerType
<1>3. StartsWithKey'
  BY DEF StartsWithKey
<1>4. FedByWorker'
  BY DEF FedByWorker, Forwarded
<1> QED BY <1>1, <1>2, <1>3, <1>4

\* Such a step that writes a status record.
LEMMA WritesStatus ==
    ASSUME PipelineInv, WorkerGoesOn, Room(1),
           NEW r \in Record, r.kind = "J", r.stage # "video_keyframe_received",
           stdout' = Append(stdout, r)
    PROVE  PipelineInv'
<1> USE DEF PipelineInv, WorkerGoesOn
<1>1. stdout \in Seq(Record) /\ Len(stdout) \in Nat
  BY DEF PipelineTypeOK
<1>2. /\ stdout' \in Seq(Record) /\ Len(stdout') = Len(stdout) + 1
      /\ \A i \in 1..Len(stdout) : stdout'[i] = stdout[i]
      /\ stdout'[Len(stdout) + 1] = r
  BY <1>1, AppendKeeps
<1>3. PipelineTypeOK'
  BY <1>2 DEF PipelineTypeOK, WorkerType, Room
<1>4. ASSUME NEW i \in 1..Len(stdout')
      PROVE  \/ stdout'[i] = r
             \/ i \in 1..Len(stdout) /\ stdout'[i] = stdout[i]
  BY <1>1, <1>2
<1>5. Forwarded'
  BY <1>4 DEF Forwarded, WorkerType
<1>6. StartsWithKey'
  <2> SUFFICES ASSUME reader.pc = "preparing", ~worker.first
               PROVE  StartsWithKey'
    BY DEF StartsWithKey
  <2>1. PICK k \in 1..Len(stdout) : /\ stdout[k].kind = "V" /\ (stdout[k].key \/ worker.refused)
                                    /\ \A j \in 1..(k - 1) : stdout[j].kind = "J"
    BY DEF StartsWithKey
  <2>2. k \in 1..Len(stdout') /\ \A j \in 1..(k - 1) : j \in 1..Len(stdout)
    BY <1>1, <1>2
  <2> QED BY <1>2, <2>1, <2>2 DEF StartsWithKey
<1>7. FedByWorker'
  BY DEF FedByWorker, Forwarded
<1> QED BY <1>3, <1>5, <1>6, <1>7

\* The first picture goes out behind the record that announces it.
LEMMA WritesFirst ==
    ASSUME PipelineInv, worker.first, Room(2),
           NEW j \in Record, j.kind = "J", j.codec = worker'.codec,
           NEW v \in Record, v.kind = "V", v.codec = worker'.codec, v.own, v.server = worker'.tries,
           v.key \/ worker'.refused, v.stage = "none",
           stdout' = stdout \o <<j, v>>,
           worker' \in WorkerType, ~worker'.first, worker'.pc = "receiving", worker'.codec \in Codec,
           worker'.tries > 0, UNCHANGED <<request, reader, decoder>>
    PROVE  PipelineInv'
<1> USE DEF PipelineInv
<1>1. stdout \in Seq(Record) /\ Len(stdout) \in Nat
  BY DEF PipelineTypeOK
<1>2. /\ stdout' \in Seq(Record) /\ Len(stdout') = Len(stdout) + 2
      /\ \A i \in 1..Len(stdout) : stdout'[i] = stdout[i]
      /\ stdout'[Len(stdout) + 1] = j /\ stdout'[Len(stdout) + 2] = v
  BY <1>1
<1>3. ASSUME NEW i \in 1..Len(stdout')
      PROVE  \/ i \in 1..Len(stdout) /\ stdout'[i] = stdout[i]
             \/ stdout'[i] = j
             \/ stdout'[i] = v
  BY <1>1, <1>2
<1>4. PipelineTypeOK'
  BY <1>2 DEF PipelineTypeOK, WorkerType, Room
<1>5. Forwarded'
  BY <1>3, SMTT(30) DEF Forwarded
<1>6. StartsWithKey'
  <2>1. Len(stdout) + 2 \in 1..Len(stdout')
    BY <1>1, <1>2
  <2>2. \A i \in 1..(Len(stdout) + 1) : stdout'[i].kind = "J"
    BY <1>1, <1>2 DEF Forwarded
  <2>3. \A i \in 1..((Len(stdout) + 2) - 1) : i \in 1..(Len(stdout) + 1)
    BY <1>1
  <2> QED BY <1>2, <2>1, <2>2, <2>3 DEF StartsWithKey
<1>7. FedByWorker'
  BY DEF FedByWorker
<1> QED BY <1>4, <1>5, <1>6, <1>7

\* Further pictures of the connection.
LEMMA WritesNext ==
    ASSUME PipelineInv, ~worker.first, Room(1),
           NEW v \in Record, v.kind = "V", v.codec = worker.codec, v.own, v.server = worker.tries,
           v.stage = "none", stdout' = Append(stdout, v), WorkerGoesOn
    PROVE  PipelineInv'
<1> USE DEF PipelineInv, WorkerGoesOn
<1>1. stdout \in Seq(Record) /\ Len(stdout) \in Nat
  BY DEF PipelineTypeOK
<1>2. /\ stdout' \in Seq(Record) /\ Len(stdout') = Len(stdout) + 1
      /\ \A i \in 1..Len(stdout) : stdout'[i] = stdout[i]
      /\ stdout'[Len(stdout) + 1] = v
  BY <1>1, AppendKeeps
<1>3. PipelineTypeOK'
  BY <1>2 DEF PipelineTypeOK, WorkerType, Room
<1>4. ASSUME NEW i \in 1..Len(stdout')
      PROVE  \/ stdout'[i] = v
             \/ i \in 1..Len(stdout) /\ stdout'[i] = stdout[i]
  BY <1>1, <1>2
<1>5. Forwarded'
  BY <1>4 DEF Forwarded, WorkerType
<1>6. StartsWithKey'
  <2> SUFFICES ASSUME reader.pc = "preparing", ~worker.first
               PROVE  StartsWithKey'
    BY DEF StartsWithKey
  <2>1. PICK k \in 1..Len(stdout) : /\ stdout[k].kind = "V" /\ (stdout[k].key \/ worker.refused)
                                    /\ \A j \in 1..(k - 1) : stdout[j].kind = "J"
    BY DEF StartsWithKey
  <2>2. k \in 1..Len(stdout') /\ \A j \in 1..(k - 1) : j \in 1..Len(stdout)
    BY <1>1, <1>2
  <2> QED BY <1>2, <2>1, <2>2 DEF StartsWithKey
<1>7. FedByWorker'
  BY DEF FedByWorker, Forwarded
<1> QED BY <1>3, <1>5, <1>6, <1>7

\* A status record, and a picture that is wanted, are records of the pipe.
LEMMA Records ==
    ASSUME PipelineInv
    PROVE  /\ \A stage \in Stage, c \in Codec \cup {"unknown"} :
                 /\ Status(stage, c) \in Record /\ Status(stage, c).kind = "J"
                 /\ Status(stage, c).stage = stage /\ Status(stage, c).codec = c
           /\ \A f \in Frame :
                 /\ Video(f) \in Record /\ Video(f).kind = "V" /\ Video(f).codec = f.codec
                 /\ Video(f).key = f.key /\ Video(f).stage = "none"
                 /\ Video(f).server = worker.tries
                 /\ Wanted(f) => Video(f).own
<1>1. \A stage \in Stage, c \in Codec \cup {"unknown"} :
          /\ Status(stage, c) \in Record /\ Status(stage, c).kind = "J"
          /\ Status(stage, c).stage = stage /\ Status(stage, c).codec = c
  BY PipelineAssumption DEF Status, Record
<1>2. ASSUME NEW f \in Frame
      PROVE  /\ Video(f) \in Record /\ Video(f).kind = "V" /\ Video(f).codec = f.codec
             /\ Video(f).key = f.key /\ Video(f).stage = "none"
             /\ Video(f).server = worker.tries
             /\ Wanted(f) => Video(f).own
  <2>1. (request = "live" \/ f.own) \in BOOLEAN /\ worker.tries \in 0..Candidates
    BY DEF PipelineInv, PipelineTypeOK
  <2>2. Wanted(f) => (request = "live" \/ f.own)
    BY DEF PipelineInv, PipelineTypeOK, Wanted
  <2>3. f.codec \in Codec /\ f.key \in BOOLEAN
    BY DEF Frame
  <2> QED BY <2>1, <2>2, <2>3 DEF Video, Record
<1> QED BY <1>1, <1>2

\* The worker connects, or fails to: no picture was forwarded then.
LEMMA ConnectingKeeps ==
    ASSUME PipelineInv, Connects \/ ConnectFails
    PROVE  PipelineInv'
<1> USE DEF PipelineInv
<1>1. /\ worker \in WorkerType /\ Candidates \in Nat /\ worker.pc = "connecting" /\ worker.first
      /\ worker.keyed => worker.refused
  BY PipelineAssumption DEF PipelineTypeOK, WorkerType, Forwarded, Connects, ConnectFails
<1>2. worker.tries < Candidates => worker.tries + 1 \in 0..Candidates /\ worker.tries + 1 > 0
  BY <1>1 DEF WorkerType
<1>3. CASE Connects
  <2>1. worker' = [worker EXCEPT !.pc = "receiving", !.tries = worker.tries + 1, !.acked = FALSE]
    BY <1>3 DEF Connects
  <2>2. /\ worker' \in WorkerType /\ worker'.tries > 0 /\ worker'.first = worker.first
        /\ worker'.keyed = worker.keyed /\ worker'.refused = worker.refused
    BY <1>1, <1>2, <1>3, <2>1 DEF Connects, WorkerType
  <2>3. WorkerGoesOn
    BY <1>1, <1>3, <2>2 DEF Connects, WorkerGoesOn
  <2>4. "progress" \in Stage \ {"video_keyframe_received"}
    BY DEF Stage
  <2> QED BY <1>3, <2>3, <2>4, Records, WritesStatus DEF Connects
<1>4. CASE ConnectFails
  <2>1. \/ /\ worker.tries < Candidates
           /\ worker' = [worker EXCEPT !.tries = worker.tries + 1]
        \/ worker' = [worker EXCEPT !.pc = "exited"]
    BY <1>4 DEF ConnectFails, Finish
  <2>2. /\ worker' \in WorkerType /\ worker'.pc # "receiving" /\ worker'.first = worker.first
        /\ worker'.keyed = worker.keyed /\ worker'.refused = worker.refused
    BY <1>1, <1>2, <2>1 DEF WorkerType
  <2>3. WorkerGoesOn
    BY <1>1, <1>4, <2>2 DEF ConnectFails, WorkerGoesOn
  <2>4. "probe_failed" \in Stage \ {"video_keyframe_received"} /\ worker.codec \in Codec \cup {"unknown"}
    BY <1>1 DEF Stage, WorkerType
  <2>5. \/ UNCHANGED stdout
        \/ Room(1) /\ stdout' = Append(stdout, Status("probe_failed", worker.codec))
    BY <1>4 DEF ConnectFails, Finish
  <2> QED BY <2>3, <2>4, <2>5, Records, WritesStatus, WritesNothing
<1> QED BY <1>3, <1>4

\* An error while the worker receives: w is what it has observed so far.
LEMMA ErrsKeeps ==
    ASSUME PipelineInv, worker.pc = "receiving", NEW w \in WorkerType, Errs(w),
           UNCHANGED <<request, reader, decoder>>,
           w.first = worker.first, w.tries = worker.tries, worker.refused => w.refused,
           worker.first /\ w.keyed => w.refused,
           ~worker.first => w.codec = worker.codec
    PROVE  PipelineInv'
<1> USE DEF PipelineInv
<1>1. worker.tries > 0
  BY DEF Forwarded
<1>2. WorkerGoesOn
  BY <1>1 DEF Errs, GoOn, WorkerGoesOn, WorkerType
<1>3. "probe_failed" \in Stage \ {"video_keyframe_received"} /\ w.codec \in Codec \cup {"unknown"}
  BY DEF Stage, WorkerType
<1>4. \/ UNCHANGED stdout
      \/ Room(1) /\ stdout' = Append(stdout, Status("probe_failed", w.codec))
  BY DEF Errs
<1> QED BY <1>2, <1>3, <1>4, Records, WritesStatus, WritesNothing

\* The acknowledgement, the end of the stream, an error and the worker's death.
LEMMA EndingKeeps ==
    ASSUME PipelineInv, Acknowledged \/ StreamOver \/ ReceiveFails \/ Dies
    PROVE  PipelineInv'
<1> USE DEF PipelineInv
<1>1. worker \in WorkerType /\ (worker.first /\ worker.keyed => worker.refused)
  BY DEF PipelineTypeOK, WorkerType, Forwarded
<1>2. {"progress", "stream_complete", "stream_idle_timeout", "probe_failed"}
         = Stage \ {"video_keyframe_received"}
  BY DEF Stage
<1>3. CASE Acknowledged
  <2>1. WorkerGoesOn
    BY <1>1, <1>3 DEF Acknowledged, WorkerGoesOn, WorkerType, Forwarded
  <2> QED BY <1>2, <1>3, <2>1, Records, WritesStatus DEF Acknowledged
<1>4. CASE StreamOver
  <2>1. PICK stage \in {"stream_complete", "stream_idle_timeout", "probe_failed"} : Finish(stage)
    BY <1>4 DEF StreamOver
  <2>2. WorkerGoesOn
    BY <1>1, <1>4, <2>1 DEF StreamOver, Finish, WorkerGoesOn, WorkerType, Forwarded
  <2>3. worker.codec \in Codec \cup {"unknown"} /\ stage \in Stage \ {"video_keyframe_received"}
    BY <1>1, <1>2 DEF WorkerType
  <2> QED BY <2>1, <2>2, <2>3, Records, WritesStatus DEF Finish
<1>5. CASE ReceiveFails
  BY <1>1, <1>5, ErrsKeeps DEF ReceiveFails
<1>6. CASE Dies
  <2>1. WorkerGoesOn
    BY <1>1, <1>6 DEF Dies, WorkerGoesOn, WorkerType, Forwarded
  <2> QED BY <1>6, <2>1, WritesNothing DEF Dies
<1> QED BY <1>3, <1>4, <1>5, <1>6

\* What the Observation knows after a frame of the codec it has seen.
LEMMA ObservedFacts ==
    ASSUME PipelineInv, NEW f \in Frame
    PROVE  /\ Observed(f) \in WorkerType /\ Observed(f).first = worker.first
           /\ Observed(f).tries = worker.tries /\ Observed(f).refused = worker.refused
           /\ Observed(f).pc = worker.pc /\ Observed(f).codec = f.codec /\ f.codec \in Codec
           /\ Observed(f).keyed => worker.keyed \/ Recovery(Observed(f), f)
           /\ Recovery(Observed(f), f) => f.key
           /\ [Observed(f) EXCEPT !.refused = TRUE] \in WorkerType
           /\ [Observed(f) EXCEPT !.first = FALSE] \in WorkerType
<1>1. worker \in WorkerType /\ f.codec \in Codec /\ f.key \in BOOLEAN /\ f.params \in BOOLEAN
  BY DEF PipelineInv, PipelineTypeOK, WorkerType, Frame
<1>2. /\ (worker.params \/ f.params) \in BOOLEAN
      /\ (worker.keyed \/ (f.key /\ (worker.params \/ f.params))) \in BOOLEAN
  OBVIOUS
<1>3. Observed(f) \in WorkerType
  BY <1>1, <1>2 DEF Observed, WorkerType
<1>4. /\ Observed(f).first = worker.first
      /\ Observed(f).tries = worker.tries /\ Observed(f).refused = worker.refused
      /\ Observed(f).pc = worker.pc /\ Observed(f).codec = f.codec
  BY <1>1 DEF Observed, WorkerType
<1>5. Observed(f).keyed => worker.keyed \/ Recovery(Observed(f), f)
  BY <1>1 DEF Observed, WorkerType, Recovery
<1>6. /\ [Observed(f) EXCEPT !.refused = TRUE] \in WorkerType
      /\ [Observed(f) EXCEPT !.first = FALSE] \in WorkerType
  BY <1>3 DEF WorkerType
<1> QED BY <1>1, <1>3, <1>4, <1>5, <1>6 DEF Recovery

\* A frame without a picture.
LEMMA ReceiveNoPictureKeeps ==
    ASSUME PipelineInv, NEW f \in Frame, ReceiveNoPicture(f)
    PROVE  PipelineInv'
<1>1. WorkerGoesOn
  BY ObservedFacts DEF ReceiveNoPicture, WorkerGoesOn, PipelineInv, Forwarded, Codec
<1> QED BY <1>1, WritesNothing DEF ReceiveNoPicture

\* A frame with one.
LEMMA ReceiveKeeps ==
    ASSUME PipelineInv, NEW f \in Frame, Receive(f)
    PROVE  PipelineInv'
<1> DEFINE w == Observed(f)
<1>1. /\ worker \in WorkerType /\ worker.pc = "receiving" /\ worker.tries > 0 /\ Wanted(f)
      /\ worker.first /\ worker.keyed => worker.refused
      /\ ~worker.first => worker.codec \in Codec
      /\ UNCHANGED <<request, reader, decoder>>
  BY DEF PipelineInv, PipelineTypeOK, WorkerType, Forwarded, Receive
<1>2. CASE worker.codec \notin {"unknown", f.codec}
  <2>1. Errs(worker)
    BY <1>2 DEF Receive
  <2> QED BY <1>1, <2>1, ErrsKeeps
<1>3. CASE worker.codec \in {"unknown", f.codec}
  <2>1. ~worker.first => worker.codec = f.codec
    BY <1>1, <1>3 DEF Codec
  <2>2. CASE f.big /\ Recovery(w, f)
    <3>1. Errs([w EXCEPT !.refused = TRUE])
      BY <1>3, <2>2 DEF Receive
    <3>2. /\ [w EXCEPT !.refused = TRUE].first = worker.first
          /\ [w EXCEPT !.refused = TRUE].tries = worker.tries
          /\ [w EXCEPT !.refused = TRUE].refused
          /\ [w EXCEPT !.refused = TRUE].codec = f.codec
      BY ObservedFacts DEF WorkerType
    <3> QED BY <1>1, <2>1, <3>1, <3>2, ErrsKeeps, ObservedFacts
  <2>3. CASE ~(f.big /\ Recovery(w, f)) /\ ~w.keyed
    <3>1. worker' = w /\ UNCHANGED stdout
      BY <1>3, <2>3 DEF Receive, Forwardable
    <3>2. WorkerGoesOn
      BY <1>1, <2>1, <2>3, <3>1, ObservedFacts DEF WorkerGoesOn
    <3> QED BY <3>1, <3>2, WritesNothing
  <2>4. CASE ~(f.big /\ Recovery(w, f)) /\ w.keyed /\ worker.first
    <3>1. /\ Room(2) /\ worker' = [w EXCEPT !.first = FALSE]
          /\ stdout' = stdout \o <<Status("video_keyframe_received", f.codec), Video(f)>>
      BY <1>3, <2>4, ObservedFacts DEF Receive, Forwardable
    <3>2. /\ worker' \in WorkerType /\ ~worker'.first /\ worker'.pc = "receiving"
          /\ worker'.codec = f.codec /\ worker'.tries = worker.tries
          /\ worker'.refused = worker.refused
      BY <1>1, <3>1, ObservedFacts DEF WorkerType
    <3>3. f.key \/ worker.refused
      BY <1>1, <2>4, ObservedFacts
    <3>4. "video_keyframe_received" \in Stage
      BY DEF Stage
    <3>5. f.codec \in Codec
      BY ObservedFacts
    <3>6. /\ Status("video_keyframe_received", f.codec) \in Record
          /\ Status("video_keyframe_received", f.codec).kind = "J"
          /\ Status("video_keyframe_received", f.codec).codec = f.codec
      BY <3>4, <3>5, Records
    <3>7. /\ Video(f) \in Record /\ Video(f).kind = "V" /\ Video(f).codec = f.codec
          /\ Video(f).own /\ Video(f).server = worker.tries /\ Video(f).stage = "none"
          /\ Video(f).key = f.key
      BY <1>1, Records
    <3> HIDE DEF w
    <3> QED BY <1>1, <2>4, <3>1, <3>2, <3>3, <3>5, <3>6, <3>7, WritesFirst
  <2>5. CASE ~(f.big /\ Recovery(w, f)) /\ w.keyed /\ ~worker.first
    <3>1. Room(1) /\ stdout' = Append(stdout, Video(f)) /\ worker' = w
      BY <1>3, <2>5, ObservedFacts DEF Receive, Forwardable
    <3>2. WorkerGoesOn
      BY <1>1, <2>1, <2>5, <3>1, ObservedFacts DEF WorkerGoesOn
    <3>3. /\ Video(f) \in Record /\ Video(f).kind = "V" /\ Video(f).codec = worker.codec
          /\ Video(f).own /\ Video(f).server = worker.tries /\ Video(f).stage = "none"
      BY <1>1, <2>1, <2>5, Records
    <3> QED BY <2>5, <3>1, <3>2, <3>3, WritesNext
  <2> QED BY <2>2, <2>3, <2>4, <2>5
<1> QED BY <1>2, <1>3

\* The reader takes a record that feeds nothing: a status record, or a picture it has no
\* codec for, which ends it.
LEMMA ReadsStatus ==
    ASSUME PipelineInv, stdout # <<>>, stdout' = Tail(stdout), UNCHANGED <<request, worker, decoder>>,
           reader' \in ReaderType, reader.pc \in {"preparing", "feeding"},
           reader'.pc \in {reader.pc, "ended", "failed"},
           reader'.pc = "preparing" => Head(stdout).kind = "J",
           \/ reader'.codec = reader.codec
           \/ /\ reader.pc = "preparing" /\ reader'.codec = Head(stdout).codec
              /\ Head(stdout).stage = "video_keyframe_received"
    PROVE  PipelineInv'
<1> USE DEF PipelineInv
<1>1. stdout \in Seq(Record)
  BY DEF PipelineTypeOK
<1>2. /\ stdout' \in Seq(Record) /\ Len(stdout) > 0 /\ Len(stdout') = Len(stdout) - 1
      /\ \A i \in 1..Len(stdout') : stdout'[i] = stdout[i + 1] /\ i + 1 \in 1..Len(stdout)
      /\ Head(stdout) = stdout[1] /\ 1 \in 1..Len(stdout) /\ Len(stdout) \in Nat
  BY <1>1, TailKeeps
<1>3. \/ reader'.codec = reader.codec
      \/ ~worker.first /\ reader'.codec = worker.codec /\ ~decoder.fed
  BY <1>2 DEF Forwarded, FedByWorker
<1>4. PipelineTypeOK'
  BY <1>2, <1>3, PipelineAssumption DEF PipelineTypeOK, ReaderType
<1>5. Forwarded'
  BY <1>2, <1>3 DEF Forwarded
<1>6. StartsWithKey'
  <2> SUFFICES ASSUME reader'.pc = "preparing", ~worker.first
               PROVE  StartsWithKey'
    BY DEF StartsWithKey
  <2>1. PICK k \in 1..Len(stdout) : /\ stdout[k].kind = "V" /\ (stdout[k].key \/ worker.refused)
                                    /\ \A j \in 1..(k - 1) : stdout[j].kind = "J"
    BY DEF StartsWithKey
  <2>2. k # 1
    BY <1>2, <2>1
  <2>3. /\ k - 1 \in 1..Len(stdout') /\ stdout'[k - 1] = stdout[k]
        /\ \A j \in 1..((k - 1) - 1) : j + 1 \in 1..(k - 1) /\ stdout'[j] = stdout[j + 1]
    BY <1>2, <2>2
  <2>4. stdout'[k - 1].kind = "V" /\ (stdout'[k - 1].key \/ worker'.refused)
    BY <2>1, <2>3
  <2>5. \A j \in 1..((k - 1) - 1) : stdout'[j].kind = "J"
    BY <2>1, <2>3
  <2> QED BY <2>3, <2>4, <2>5 DEF StartsWithKey
<1>7. FedByWorker'
  BY <1>3 DEF FedByWorker
<1> QED BY <1>4, <1>5, <1>6, <1>7

\* A decoder that was fed by one connection.
LEMMA FedDecoder ==
    ASSUME NEW k \in BOOLEAN, NEW cs \in SUBSET Codec, NEW ss \in SUBSET (1..Candidates)
    PROVE  [fed |-> TRUE, key |-> k, own |-> TRUE, codecs |-> cs, servers |-> ss] \in DecoderType
BY DEF DecoderType

\* The reader feeds the picture it has taken from the pipe.
LEMMA ReadsPicture ==
    ASSUME PipelineInv, stdout # <<>>, stdout' = Tail(stdout), UNCHANGED <<request, worker>>,
           reader' = [reader EXCEPT !.pc = "feeding"], reader.pc \in {"preparing", "feeding"},
           Head(stdout).kind = "V", reader.codec # "unknown", decoder' = Fed(Head(stdout))
    PROVE  PipelineInv'
<1> USE DEF PipelineInv
<1>1. stdout \in Seq(Record)
  BY DEF PipelineTypeOK
<1>2. /\ stdout' \in Seq(Record) /\ Len(stdout) > 0 /\ Len(stdout') = Len(stdout) - 1
      /\ \A i \in 1..Len(stdout') : stdout'[i] = stdout[i + 1] /\ i + 1 \in 1..Len(stdout)
      /\ Head(stdout) = stdout[1] /\ Head(stdout) \in Record /\ 1 \in 1..Len(stdout)
      /\ Len(stdout) \in Nat
  BY <1>1, TailKeeps
<1>3. /\ ~worker.first /\ reader.codec = worker.codec /\ worker.codec \in Codec /\ worker.tries > 0
      /\ Head(stdout).codec = worker.codec /\ Head(stdout).own /\ Head(stdout).server = worker.tries
  BY <1>2 DEF Forwarded
<1>4. reader' \in ReaderType /\ reader'.pc = "feeding" /\ reader'.codec = reader.codec
  BY DEF PipelineTypeOK, ReaderType
<1>5. {worker.codec} \in SUBSET Codec /\ {worker.tries} \in SUBSET (1..Candidates)
  <2>1. worker.tries \in 1..Candidates
    BY <1>3, PipelineAssumption DEF PipelineTypeOK
  <2> QED BY <1>3, <2>1
<1>6. CASE decoder.fed
  <2>1. /\ decoder.codecs = {worker.codec} /\ decoder.servers = {worker.tries}
        /\ decoder.own /\ (decoder.key \/ worker.refused) /\ decoder.key \in BOOLEAN
    BY <1>6 DEF FedByWorker, PipelineTypeOK
  <2>2. (decoder.own /\ Head(stdout).own) = TRUE
    BY <1>3, <2>1
  <2>3. decoder' = [fed |-> TRUE, key |-> decoder.key, own |-> TRUE, codecs |-> {worker.codec},
                    servers |-> {worker.tries}]
    BY <1>3, <1>6, <2>1, <2>2 DEF Fed
  <2>4. decoder' \in DecoderType
    <3>1. decoder.key \in BOOLEAN
      BY <2>1
    <3> QED BY <1>5, <2>3, <3>1, FedDecoder
  <2>5. /\ decoder'.fed /\ decoder'.codecs = {worker.codec} /\ decoder'.servers = {worker.tries}
        /\ decoder'.own /\ decoder'.key = decoder.key
    BY <2>3
  <2>6. decoder'.key \/ worker.refused
    BY <2>1, <2>5
  <2> QED BY <1>2, <1>3, <1>4, <2>4, <2>5, <2>6, PipelineAssumption
          DEF PipelineTypeOK, ReaderType, DecoderType, Forwarded, StartsWithKey, FedByWorker
<1>7. CASE ~decoder.fed
  <2>1. reader.pc = "preparing" /\ decoder = NothingFed
    BY <1>7 DEF FedByWorker
  <2>2. Head(stdout).key \/ worker.refused
    <3>1. PICK k \in 1..Len(stdout) : /\ stdout[k].kind = "V" /\ (stdout[k].key \/ worker.refused)
                                      /\ \A j \in 1..(k - 1) : stdout[j].kind = "J"
      BY <1>3, <2>1 DEF StartsWithKey
    <3>2. k = 1 \/ 1 \in 1..(k - 1)
      OBVIOUS
    <3> QED BY <1>2, <3>1, <3>2
  <2>3. /\ decoder' = [fed |-> TRUE, key |-> Head(stdout).key, own |-> TRUE,
                       codecs |-> {worker.codec}, servers |-> {worker.tries}]
        /\ Head(stdout).key \in BOOLEAN
    BY <1>2, <1>3, <1>7, <2>1 DEF Fed, NothingFed, Record
  <2>4. decoder' \in DecoderType
    BY <1>5, <2>3, FedDecoder
  <2>5. /\ decoder'.fed /\ decoder'.codecs = {worker.codec} /\ decoder'.servers = {worker.tries}
        /\ decoder'.own /\ decoder'.key = Head(stdout).key
    BY <2>3
  <2>6. decoder'.key \/ worker.refused
    BY <2>2, <2>5
  <2> QED BY <1>2, <1>3, <1>4, <2>4, <2>5, <2>6, PipelineAssumption
          DEF PipelineTypeOK, ReaderType, DecoderType, Forwarded, StartsWithKey, FedByWorker
<1> QED BY <1>6, <1>7

\* _prepare reads a record.
LEMMA PrepareReadsKeeps ==
    ASSUME PipelineInv, PrepareReads
    PROVE  PipelineInv'
<1> DEFINE r == Head(stdout)
<1>1. /\ reader \in ReaderType /\ reader.pc = "preparing" /\ stdout # <<>> /\ stdout' = Tail(stdout)
      /\ stdout \in Seq(Record) /\ UNCHANGED <<request, worker>>
  BY DEF PipelineInv, PipelineTypeOK, ReaderType, PrepareReads
<1>2. r \in Record /\ r = stdout[1] /\ 1 \in 1..Len(stdout)
  BY <1>1, TailKeeps
<1>3. r.kind = "V" => r.stage = "none"
  BY <1>2 DEF PipelineInv, Forwarded
<1>4. CASE r.kind = "V" /\ reader.codec # "unknown"
  <2>1. reader' = [reader EXCEPT !.pc = "feeding"] /\ decoder' = Fed(r)
    BY <1>3, <1>4 DEF PrepareReads, Final
  <2> QED BY <1>1, <1>4, <2>1, ReadsPicture
<1>5. CASE r.kind = "V" /\ reader.codec = "unknown"
  <2>1. reader' = [reader EXCEPT !.pc = "failed"] /\ decoder' = decoder
    BY <1>3, <1>5 DEF PrepareReads, Final
  <2> QED BY <1>1, <2>1, ReadsStatus DEF ReaderType
<1>6. CASE r.kind = "J"
  <2>1. decoder' = decoder
    BY <1>6 DEF PrepareReads
  <2>2. \/ reader' = [reader EXCEPT !.pc = "failed"]
        \/ reader' = [reader EXCEPT !.codec = r.codec] /\ r.stage = "video_keyframe_received"
        \/ reader' = reader
    BY <1>6 DEF PrepareReads
  <2>3. r.codec \in Codec \cup {"unknown"}
    BY <1>2 DEF Record
  <2>4. /\ reader' \in ReaderType /\ reader'.pc \in {"preparing", "failed"}
        /\ \/ reader'.codec = reader.codec
           \/ reader'.codec = r.codec /\ r.stage = "video_keyframe_received"
    BY <1>1, <2>2, <2>3 DEF ReaderType
  <2> QED BY <1>1, <1>6, <2>1, <2>4, ReadsStatus
<1>7. r.kind \in {"J", "V"}
  BY <1>2 DEF Record
<1> QED BY <1>4, <1>5, <1>6, <1>7

\* _feed reads a record.
LEMMA FeedReadsKeeps ==
    ASSUME PipelineInv, FeedReads
    PROVE  PipelineInv'
<1> DEFINE r == Head(stdout)
<1>1. /\ reader \in ReaderType /\ reader.pc = "feeding" /\ stdout # <<>> /\ stdout' = Tail(stdout)
      /\ stdout \in Seq(Record) /\ UNCHANGED <<request, worker>> /\ reader.codec # "unknown"
  BY DEF PipelineInv, PipelineTypeOK, ReaderType, FeedReads, FedByWorker
<1>2. r.kind \in {"J", "V"}
  <2>1. r \in Record
    BY <1>1, TailKeeps
  <2> QED BY <2>1 DEF Record
<1>3. CASE r.kind = "V"
  <2>1. reader' = reader /\ decoder' = Fed(r)
    BY <1>3 DEF FeedReads
  <2>2. reader' = [reader EXCEPT !.pc = "feeding"]
    BY <1>1, <2>1 DEF ReaderType
  <2> QED BY <1>1, <1>3, <2>1, <2>2, ReadsPicture
<1>4. CASE r.kind = "J"
  <2>1. decoder' = decoder
    BY <1>4 DEF FeedReads
  <2>2. \/ \E pc \in {"ended", "failed"} : reader' = [reader EXCEPT !.pc = pc]
        \/ reader' = reader
    BY <1>4 DEF FeedReads
  <2>3. reader' \in ReaderType /\ reader'.pc # "preparing" /\ reader'.codec = reader.codec
        /\ reader'.pc \in {"feeding", "ended", "failed"}
    BY <1>1, <2>2 DEF ReaderType
  <2> QED BY <1>1, <2>1, <2>3, ReadsStatus
<1> QED BY <1>2, <1>3, <1>4

\* The reader gives up, and with it the worker.
LEMMA ReaderStopsKeeps ==
    ASSUME PipelineInv, ReaderStops
    PROVE  PipelineInv'
<1> USE DEF PipelineInv
<1>1. /\ worker \in WorkerType /\ reader \in ReaderType /\ UNCHANGED <<request, decoder>>
      /\ stdout' = <<>> \/ UNCHANGED stdout
  BY DEF PipelineTypeOK, WorkerType, ReaderType, ReaderStops
<1>2. /\ reader' \in ReaderType /\ reader'.pc \in {"ended", "failed"}
      /\ reader'.codec = reader.codec
  BY <1>1 DEF ReaderType, ReaderStops
<1>3. /\ worker' \in WorkerType /\ worker'.pc \in {worker.pc, "exited"}
      /\ worker'.first = worker.first /\ worker'.codec = worker.codec
      /\ worker'.tries = worker.tries /\ worker'.keyed = worker.keyed
      /\ worker'.refused = worker.refused
  BY <1>1 DEF WorkerType, ReaderStops
<1>4. PipelineTypeOK'
  <2>1. stdout' \in Seq(Record) /\ Len(stdout') <= MaxRecords
    <3>1. CASE stdout' = <<>>
      BY <3>1, PipelineAssumption
    <3> QED BY <1>1, <3>1 DEF PipelineTypeOK
  <2> QED BY <1>1, <1>2, <1>3, <2>1 DEF PipelineTypeOK, WorkerType, ReaderType
<1>5. Forwarded'
  BY <1>1, <1>2, <1>3 DEF Forwarded
<1>6. StartsWithKey' /\ FedByWorker'
  BY <1>1, <1>2, <1>3 DEF StartsWithKey, FedByWorker
<1> QED BY <1>4, <1>5, <1>6

\* Every step of the pipeline keeps the invariant.
LEMMA PipelineInductive == PipelineInv /\ [PipelineNext]_pipelineVars => PipelineInv'
<1> SUFFICES ASSUME PipelineInv, [PipelineNext]_pipelineVars
             PROVE  PipelineInv'
  OBVIOUS
<1>1. CASE UNCHANGED pipelineVars
  BY <1>1 DEF pipelineVars, PipelineInv, PipelineTypeOK, Forwarded, StartsWithKey, FedByWorker
<1>2. CASE PipelineNext
  BY <1>2, ConnectingKeeps, EndingKeeps, ReceiveKeeps, ReceiveNoPictureKeeps, PrepareReadsKeeps,
     FeedReadsKeeps, ReaderStopsKeeps DEF PipelineNext
<1> QED BY <1>1, <1>2

(***************************************************************************)
(* The worker process and the bridge's reader: FFmpeg is fed one stream,   *)
(* of one connection and one codec, from a random access point on, for any *)
(* number of signalling servers and any capacity of the pipe.  The         *)
(* invariant says which records can lie in the pipe before the worker has  *)
(* forwarded a picture and after it.                                       *)
(***************************************************************************)
THEOREM OneStreamFed == PipelineSpec => []DecoderFedOneStream
<1>1. PipelineInit => PipelineInv
  <2> SUFFICES ASSUME PipelineInit PROVE PipelineInv
    OBVIOUS
  <2> USE PipelineAssumption DEF PipelineInit, NothingFed
  <2>1. PipelineTypeOK
    BY DEF PipelineTypeOK
  <2>2. Forwarded /\ StartsWithKey /\ FedByWorker
    BY DEF Forwarded, StartsWithKey, FedByWorker
  <2> QED BY <2>1, <2>2 DEF PipelineInv
<1>2. PipelineInv => DecoderFedOneStream
  BY FS_Singleton DEF PipelineInv, FedByWorker, DecoderFedOneStream
<1> QED BY <1>1, <1>2, PipelineInductive, PTL DEF PipelineSpec

-----------------------------------------------------------------------------
(* The inventory of the vendor *)

\* What an item of the inventory may be.
Item == Device \cup {Junk}

\* Objects further down the inventory have greater indexes, so that no two of
\* them share one: the count _devices, _nvr_snapshot and _selected_device keep.
LEMMA IndexGrows ==
    ASSUME NEW inv \in Seq(Item), NEW k \in Objects(inv), NEW j \in Objects(inv), j < k
    PROVE  Index(inv, j) # Index(inv, k)
<1> DEFINE upto(x) == {i \in Objects(inv) : i <= x}
<1>1. Len(inv) \in Nat /\ j \in 1..Len(inv) /\ k \in 1..Len(inv)
  BY DEF Objects
<1>2. IsFiniteSet(1..Len(inv))
  BY <1>1, FS_Interval
<1>3. upto(k) \in SUBSET (1..Len(inv))
  BY DEF Objects
<1>4. IsFiniteSet(upto(k))
  BY <1>2, <1>3, FS_Subset
<1>5. upto(j) \in SUBSET upto(k)
  BY <1>1 DEF Objects
<1>6. k \in upto(k) /\ k \notin upto(j)
  BY <1>1
<1> HIDE DEF upto
<1>7. Cardinality(upto(k)) # Cardinality(upto(j))
  BY <1>4, <1>5, <1>6, FS_Subset
<1> QED BY <1>7 DEF upto, Index

\* The device found under the index of an object is that object.
LEMMA IndexFindsObject ==
    ASSUME NEW inv \in Seq(Item), NEW k \in Objects(inv)
    PROVE  SelectedDevice(inv, Index(inv, k)) = inv[k]
<1>1. \A j \in Objects(inv) : Index(inv, j) = Index(inv, k) => j = k
  <2> SUFFICES ASSUME NEW j \in Objects(inv), j # k
               PROVE  Index(inv, j) # Index(inv, k)
    OBVIOUS
  <2>1. j \in Nat /\ k \in Nat
    BY DEF Objects
  <2>2. j < k \/ k < j
    BY <2>1
  <2> QED BY <2>2, IndexGrows
<1> QED BY <1>1 DEF SelectedDevice

\* What was described of one uid is of one type, the type of its only row.
LEMMA DescribedAsFound ==
    ASSUME InventoryTypeOK, NEW uid, NEW d \in DescriptionsOf(uid)
    PROVE  /\ d \in Description /\ d.vendor = uid
           /\ ~d.nvr => d.channel = 0
           /\ \A e \in DescriptionsOf(uid) : e.nvr = d.nvr
BY DEF DescriptionsOf

\* Discovery describes devices of the inventory, each by one type.
LEMMA DiscoverKeeps == ASSUME InventoryTypeOK, Discover PROVE InventoryTypeOK'
<1>1. described' = UNION {DescriptionsOf(uid) : uid \in Selected}
  BY DEF Discover
<1>2. \A d \in described' : /\ d \in Description /\ (~d.nvr => d.channel = 0)
                            /\ \A e \in described' : e.vendor = d.vendor => e.nvr = d.nvr
  <2> SUFFICES ASSUME NEW d \in described'
               PROVE  /\ d \in Description /\ (~d.nvr => d.channel = 0)
                      /\ \A e \in described' : e.vendor = d.vendor => e.nvr = d.nvr
    OBVIOUS
  <2>1. PICK uid \in Selected : d \in DescriptionsOf(uid)
    BY <1>1
  <2>2. /\ d \in Description /\ d.vendor = uid /\ (~d.nvr => d.channel = 0)
        /\ \A e \in DescriptionsOf(uid) : e.nvr = d.nvr
    BY <2>1, DescribedAsFound
  <2>3. ASSUME NEW e \in described', e.vendor = d.vendor PROVE e.nvr = d.nvr
    <3>1. PICK other \in Selected : e \in DescriptionsOf(other)
      BY <1>1
    <3>2. e.vendor = other
      BY <3>1, DescribedAsFound
    <3> QED BY <2>2, <2>3, <3>1, <3>2
  <2> QED BY <2>2, <2>3
<1> QED BY <1>2 DEF Discover, InventoryTypeOK

\* The cloud's changes leave an inventory of devices and junk.
LEMMA CloudChangesKeep == ASSUME InventoryTypeOK, CloudChanges PROVE InventoryTypeOK'
<1>1. rows' \in Seq(Device \cup {Junk}) /\ Len(rows') <= MaxRows
  <2>1. CASE UNCHANGED rows
    BY <2>1 DEF InventoryTypeOK
  <2>2. ASSUME NEW r \in Device \cup {Junk}, rows' = Append(rows, r), Len(rows) < MaxRows
        PROVE  rows' \in Seq(Device \cup {Junk}) /\ Len(rows') <= MaxRows
    BY <2>2, InventoryAssumption DEF InventoryTypeOK
  <2>3. ASSUME NEW i \in 1..Len(rows), rows' = RemoveAt(rows, i)
        PROVE  rows' \in Seq(Device \cup {Junk}) /\ Len(rows') <= MaxRows
    <3> DEFINE before == SubSeq(rows, 1, i - 1)
               after == SubSeq(rows, i + 1, Len(rows))
    <3>1. /\ before \in Seq(Device \cup {Junk}) /\ Len(before) = i - 1
          /\ after \in Seq(Device \cup {Junk}) /\ Len(after) = Len(rows) - i
      <4>1. rows \in Seq(Device \cup {Junk}) /\ Len(rows) \in Nat /\ i \in 1..Len(rows)
        BY DEF InventoryTypeOK
      <4>2. /\ \A x \in 1..(i - 1) : rows[x] \in Device \cup {Junk}
            /\ \A x \in (i + 1)..Len(rows) : rows[x] \in Device \cup {Junk}
        BY <4>1
      <4> QED BY <4>1, <4>2, SubSeqProperties
    <3>2. rows' = before \o after
      BY <2>3 DEF RemoveAt
    <3> HIDE DEF before, after
    <3> QED BY <3>1, <3>2, ConcatProperties, InventoryAssumption DEF InventoryTypeOK
  <2> QED BY <2>1, <2>2, <2>3 DEF CloudChanges
<1>2. online' \in [Serial -> SUBSET Channel]
  BY DEF CloudChanges, InventoryTypeOK
<1> QED BY <1>1, <1>2 DEF CloudChanges, InventoryTypeOK

\* The inventory, the channels on line and the descriptions keep their types.
THEOREM InventoryTypes == InventorySpec => []InventoryTypeOK
<1>1. InventoryInit => InventoryTypeOK
  BY InventoryAssumption DEF InventoryInit, InventoryTypeOK
<1>2. InventoryTypeOK /\ [InventoryNext]_inventoryVars => InventoryTypeOK'
  <2>1. CASE UNCHANGED inventoryVars
    BY <2>1 DEF inventoryVars, InventoryTypeOK
  <2> QED BY <2>1, DiscoverKeeps, CloudChangesKeep DEF InventoryNext
<1> QED BY <1>1, <1>2, PTL DEF InventorySpec

\* A device resolved for a description is the one row with its ID.
LEMMA ResolvedIsTheRow ==
    ASSUME InventoryTypeOK, NEW d, NEW device \in Resolved(d)
    PROVE  \E k \in Objects(rows) :
              /\ Matches(rows, d.vendor) = {k} /\ device = rows[k]
              /\ (rows[k].type = 11) = d.nvr
              /\ \/ rows[k].type = 2 /\ d.channel = 0
                 \/ rows[k].type = 11 /\ d.channel \in online[rows[k].sn]
<1>1. rows \in Seq(Item)
  BY DEF InventoryTypeOK, Item
<1>2. PICK k \in Matches(rows, d.vendor) :
         /\ device = SelectedDevice(rows, Index(rows, k))
         /\ Matches(rows, d.vendor) = {k}
         /\ (rows[k].type = 11) = d.nvr
         /\ Buildable(rows, online, Index(rows, k), d.channel)
  BY DEF Resolved
<1>3. k \in Objects(rows)
  BY DEF Matches
<1>4. SelectedDevice(rows, Index(rows, k)) = rows[k]
  BY <1>1, <1>3, IndexFindsObject
<1> QED BY <1>2, <1>3, <1>4 DEF Buildable

(***************************************************************************)
(* A camera entity never connects to another camera than the one it was    *)
(* made for: for any vendor's inventory of any length, with rows that are  *)
(* no devices, double, move, change type or lose channels after the entity *)
(* was made.  The invariant is the type of the inventory; the argument is  *)
(* that the three counts of the code give different objects different      *)
(* indexes, so that the second look-up by index ends at the row the first  *)
(* one found by ID.                                                        *)
(***************************************************************************)
THEOREM IdentityKept == InventorySpec => []CameraKeepsIdentity
<1>1. InventoryTypeOK => CameraKeepsIdentity
  <2> SUFFICES ASSUME InventoryTypeOK, NEW d \in described, NEW device \in Resolved(d)
               PROVE  /\ device.id = d.vendor
                      /\ device.type = IF d.nvr THEN 11 ELSE 2
                      /\ d.nvr => d.channel \in online[device.sn]
                      /\ Cardinality({i \in 1..Len(rows) :
                                        rows[i].map /\ rows[i].id = d.vendor}) = 1
    BY DEF CameraKeepsIdentity
  <2>1. PICK k \in Objects(rows) :
              /\ Matches(rows, d.vendor) = {k} /\ device = rows[k]
              /\ (rows[k].type = 11) = d.nvr
              /\ \/ rows[k].type = 2 /\ d.channel = 0
                 \/ rows[k].type = 11 /\ d.channel \in online[rows[k].sn]
    BY ResolvedIsTheRow
  <2>2. k \in Matches(rows, d.vendor)
    BY <2>1
  <2>3. device.id = d.vendor
    BY <2>1, <2>2 DEF Matches
  <2>4. {i \in 1..Len(rows) : rows[i].map /\ rows[i].id = d.vendor} = {k}
    BY <2>1 DEF Matches, Objects
  <2>5. d.nvr \in BOOLEAN
    BY DEF InventoryTypeOK, Description
  <2>6. device.type = IF d.nvr THEN 11 ELSE 2
    BY <2>1, <2>5
  <2>7. d.nvr => d.channel \in online[device.sn]
    BY <2>1, <2>6
  <2>8. Cardinality({k}) = 1
    BY FS_Singleton
  <2> QED BY <2>3, <2>4, <2>6, <2>7, <2>8
<1> QED BY <1>1, InventoryTypes, PTL

=============================================================================
