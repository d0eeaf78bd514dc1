---------------------------- MODULE PlaybackCamera ----------------------------
(***************************************************************************)
(* OrviboHddCamera (camera.py): the entity that plays one recording chosen *)
(* by a service call.  Choosing and stopping replace the video bridge      *)
(* under _selection_lock, Home Assistant opens the stream in two halves    *)
(* (warm the bridge without the lock, then create the stream under it),    *)
(* and unloading ends everything, a search for recordings included.        *)
(*                                                                         *)
(* A bridge is what VideoBridge has the inside of: open, closing, closed.  *)
(***************************************************************************)
EXTENDS Naturals

CONSTANTS
    Op,           \* concurrent service calls, stream requests, unloads
    Recording,    \* start times of recordings
    NoRecording,
    NoOp,
    MaxBridges    \* bound of the model: bridges ever made

ASSUME PlaybackAssumption ==
    /\ NoRecording \notin Recording /\ NoOp \notin Op
    /\ MaxBridges \in Nat \ {0}

VARIABLES
    position,   \* _position
    bridge,     \* _bridge: the number of the current one
    state,      \* per bridge: open, closing, closed
    loaded,     \* per bridge: the recording its pipeline asks the device for
    stream,     \* Camera.stream: the bridge it reads from, 0 for none
    lock,       \* who holds _selection_lock
    unloaded,   \* _closed
    query,      \* _query_task
    ops         \* per task: what it does

playbackVars == <<position, bridge, state, loaded, stream, lock, unloaded, query, ops>>

Bridge == 1..MaxBridges
MaybeRecording == Recording \cup {NoRecording}
IdleOp == [op |-> "none", pc |-> "idle", date |-> NoRecording, bridge |-> 0]

PlaybackTypeOK ==
    /\ position \in MaybeRecording /\ bridge \in Bridge
    /\ state \in [Bridge -> {"unborn", "open", "closing", "closed"}]
    /\ loaded \in [Bridge -> MaybeRecording]
    /\ stream \in 0..MaxBridges
    /\ lock \in Op \cup {NoOp} /\ query \in Op \cup {NoOp}
    /\ unloaded \in BOOLEAN
    /\ ops \in [Op -> [op : {"none", "select", "stop", "unload", "create", "search"},
                       pc : {"idle", "locking", "closing", "stopping", "warming", "binding",
                             "cancelling", "searching"},
                       date : MaybeRecording, bridge : 0..MaxBridges]]

PlaybackInit ==
    /\ position = NoRecording /\ bridge = 1
    /\ state = [b \in Bridge |-> IF b = 1 THEN "open" ELSE "unborn"]
    /\ loaded = [b \in Bridge |-> NoRecording]
    /\ stream = 0 /\ lock = NoOp /\ unloaded = FALSE /\ query = NoOp
    /\ ops = [t \in Op |-> IdleOp]

Done(t) == ops' = [ops EXCEPT ![t] = IdleOp]

-----------------------------------------------------------------------------
(* Choosing, stopping and unloading *)

\* async_select_recording and async_stop_recording come in.
Call(t, op, date) ==
    /\ ops[t] = IdleOp
    /\ op = "select" <=> date # NoRecording
    /\ ops' = [ops EXCEPT ![t] = [IdleOp EXCEPT !.op = op, !.pc = "locking", !.date = date]]
    /\ UNCHANGED <<position, bridge, state, loaded, stream, lock, unloaded, query>>

\* _async_stop: the flag, the registry and, if one runs, the search first.
Unload(t) ==
    /\ ops[t] = IdleOp
    /\ unloaded' = TRUE
    /\ ops' = [ops EXCEPT ![t] = [IdleOp EXCEPT !.op = "unload",
                                              !.pc = IF query = NoOp THEN "locking" ELSE "cancelling"]]
    /\ UNCHANGED <<position, bridge, state, loaded, stream, lock, query>>

\* The cancelled search has reaped its worker.
SearchCancelled(t) ==
    /\ ops[t].pc = "cancelling"
    /\ query' = NoOp
    /\ ops' = [u \in Op |-> CASE u = t -> [ops[t] EXCEPT !.pc = "locking"]
                              [] u = query /\ u # t -> IdleOp
                              [] OTHER -> ops[u]]
    /\ UNCHANGED <<position, bridge, state, loaded, stream, lock, unloaded>>

\* The lock is had: a choice is refused once unloaded; stopping and unloading
\* forget the recording; the bridge is told to close.
Locked(t) ==
    /\ ops[t].op \in {"select", "stop", "unload"} /\ ops[t].pc = "locking" /\ lock = NoOp
    /\ IF ops[t].op = "select" /\ unloaded
         THEN Done(t) /\ UNCHANGED <<position, state, lock>>
         ELSE /\ lock' = t
              /\ position' = IF ops[t].op = "select" THEN position ELSE NoRecording
              /\ state' = [state EXCEPT ![bridge] = IF @ = "open" THEN "closing" ELSE @]
              /\ ops' = [ops EXCEPT ![t].pc = "closing"]
    /\ UNCHANGED <<bridge, loaded, stream, unloaded, query>>

\* MeariVideoBridge.async_close returns.
BridgeCloses ==
    /\ state[bridge] = "closing"
    /\ state' = [state EXCEPT ![bridge] = "closed"]
    /\ UNCHANGED <<position, bridge, loaded, stream, lock, unloaded, query, ops>>

\* _release_player goes on to stop the stream.
Stopping(t) ==
    /\ ops[t].pc = "closing" /\ state[bridge] = "closed"
    /\ ops' = [ops EXCEPT ![t].pc = "stopping"]
    /\ UNCHANGED <<position, bridge, state, loaded, stream, lock, unloaded, query>>

\* The stream is gone; a choice puts the new bridge in place.
Released(t) ==
    /\ ops[t].pc = "stopping"
    /\ stream' = 0
    /\ lock' = NoOp
    /\ IF ops[t].op = "select"
         THEN /\ bridge < MaxBridges
              /\ position' = ops[t].date
              /\ bridge' = bridge + 1
              /\ state' = [state EXCEPT ![bridge + 1] = "open"]
         ELSE UNCHANGED <<position, bridge, state>>
    /\ Done(t)
    /\ UNCHANGED <<loaded, unloaded, query>>

-----------------------------------------------------------------------------
(* Opening the stream *)

\* async_create_stream takes hold of the bridge and warms it.
Create(t) ==
    /\ ops[t] = IdleOp /\ ~unloaded /\ position # NoRecording
    /\ ops' = [ops EXCEPT ![t] = [IdleOp EXCEPT !.op = "create", !.pc = "warming", !.bridge = bridge]]
    /\ UNCHANGED <<position, bridge, state, loaded, stream, lock, unloaded, query>>

\* The context of a warm-up: it takes the recording chosen at this moment.
Loads(t) ==
    /\ ops[t].pc = "warming" /\ state[ops[t].bridge] = "open" /\ position # NoRecording
    /\ loaded' = [loaded EXCEPT ![ops[t].bridge] = position]
    /\ UNCHANGED <<position, bridge, state, stream, lock, unloaded, query, ops>>

\* async_prepare returns with a pipeline, or raises.
Warmed(t) ==
    /\ ops[t].pc = "warming"
    /\ \/ /\ loaded[ops[t].bridge] # NoRecording
          /\ ops' = [ops EXCEPT ![t].pc = "locking"]
       \/ Done(t)
    /\ UNCHANGED <<position, bridge, state, loaded, stream, lock, unloaded, query>>

\* Mutant of StillChosen: the bridge is not compared.
StillChosenAny(t) == ~unloaded /\ position # NoRecording

\* The test under the lock.
StillChosen(t) == ~unloaded /\ position # NoRecording /\ bridge = ops[t].bridge

CreateLocked(t) ==
    /\ ops[t].op = "create" /\ ops[t].pc = "locking" /\ lock = NoOp
    /\ IF StillChosen(t)
         THEN lock' = t /\ ops' = [ops EXCEPT ![t].pc = "binding"]
         ELSE Done(t) /\ UNCHANGED lock
    /\ UNCHANGED <<position, bridge, state, loaded, stream, unloaded, query>>

\* Camera.async_create_stream keeps a stream there is; for a new one it asks
\* stream_source, which refuses when unloaded.
Created(t) ==
    /\ ops[t].pc = "binding"
    /\ stream' = IF stream = 0 /\ ~unloaded /\ position # NoRecording THEN ops[t].bridge ELSE stream
    /\ lock' = NoOp
    /\ Done(t)
    /\ UNCHANGED <<position, bridge, state, loaded, unloaded, query>>

-----------------------------------------------------------------------------
(* Searching recordings *)

Search(t) ==
    /\ ops[t] = IdleOp /\ ~unloaded /\ query = NoOp
    /\ query' = t
    /\ ops' = [ops EXCEPT ![t] = [IdleOp EXCEPT !.op = "search", !.pc = "searching"]]
    /\ UNCHANGED <<position, bridge, state, loaded, stream, lock, unloaded>>

\* async_query_hdd has reaped its worker: a result, an error or the timeout.
Searched(t) ==
    /\ ops[t].pc = "searching"
    /\ query' = IF query = t THEN NoOp ELSE query
    /\ Done(t)
    /\ UNCHANGED <<position, bridge, state, loaded, stream, lock, unloaded>>

PlaybackNext ==
    \/ BridgeCloses
    \/ \E t \in Op :
          \/ \E date \in MaybeRecording, op \in {"select", "stop"} : Call(t, op, date)
          \/ Unload(t) \/ SearchCancelled(t) \/ Locked(t) \/ Stopping(t) \/ Released(t)
          \/ Create(t) \/ Loads(t) \/ Warmed(t) \/ CreateLocked(t) \/ Created(t)
          \/ Search(t) \/ Searched(t)

PlaybackSpec == PlaybackInit /\ [][PlaybackNext]_playbackVars

-----------------------------------------------------------------------------
(* Properties *)

(***************************************************************************)
(* What is on the screen is what was chosen: outside a transition the      *)
(* stream reads the current bridge, which is open and asks the device for  *)
(* the recording _position names, whoever chose another one, stopped or    *)
(* unloaded while the stream was being opened.  After an unload there is   *)
(* no stream, no open bridge and no search.                                *)
(***************************************************************************)
StreamShowsSelection ==
    lock = NoOp =>
        /\ stream # 0 => /\ stream = bridge /\ state[bridge] = "open"
                         /\ position # NoRecording /\ loaded[bridge] = position
        /\ unloaded /\ (\A t \in Op : ops[t].op # "unload") =>
              stream = 0 /\ state[bridge] = "closed" /\ query = NoOp

=============================================================================
