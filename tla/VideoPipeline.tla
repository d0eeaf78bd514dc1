----------------------------- MODULE VideoPipeline -----------------------------
(***************************************************************************)
(* The inside of one pipeline: the XTS worker process (meari_transport/    *)
(* worker.py) writes status and video records into its stdout, the bridge  *)
(* reads them (_prepare, then _feed, meari_stream.py) and feeds FFmpeg,    *)
(* whose output starts the HTTP response.                                  *)
(*                                                                         *)
(* A picture is abstracted to what the two sides test of it: its codec,    *)
(* whether it is a random access point, whether it carries the parameter   *)
(* sets, whether it belongs to the requested mode, and whether it exceeds  *)
(* the record limit.                                                       *)
(***************************************************************************)
EXTENDS Naturals, Sequences, FiniteSets

CONSTANTS
    Candidates,   \* signalling servers tried (candidates[:4])
    MaxRecords    \* bound of the model: records the pipe holds

ASSUME PipelineAssumption == Candidates \in Nat \ {0} /\ MaxRecords \in Nat \ {0}

VARIABLES
    request,   \* context.hdd.operation: "live" preview or "playback"
    worker,    \* run_probe, stream_probe and the Observation
    stdout,    \* records between the processes
    reader,    \* _prepare and _feed
    decoder    \* what FFmpeg was fed: nothing, or the first picture and the codecs

pipelineVars == <<request, worker, stdout, reader, decoder>>

Codec == {"h264", "hevc"}
Frame == [codec : Codec, key : BOOLEAN, params : BOOLEAN, own : BOOLEAN, big : BOOLEAN]

\* Records: J carries a stage, and a codec where the summary is sent along.
Status(stage, codec) == [kind |-> "J", stage |-> stage, codec |-> codec, key |-> FALSE, own |-> TRUE,
                          server |-> 0]
Video(f) == [kind |-> "V", stage |-> "none", codec |-> f.codec, key |-> f.key,
             own |-> request = "live" \/ f.own, server |-> worker.tries]

Stage == {"progress", "video_keyframe_received", "stream_complete", "stream_idle_timeout",
          "probe_failed"}
Record == [kind : {"J", "V"}, stage : Stage \cup {"none"}, codec : Codec \cup {"unknown"},
           key : BOOLEAN, own : BOOLEAN, server : 0..Candidates]

NothingFed == [fed |-> FALSE, key |-> FALSE, own |-> TRUE, codecs |-> {}, servers |-> {}]

PipelineTypeOK ==
    /\ request \in {"live", "playback"}
    /\ worker \in [pc : {"connecting", "receiving", "exited"},
                   tries : 0..Candidates,      \* servers tried
                   codec : Codec \cup {"unknown"},
                   params : BOOLEAN,           \* parameter_sets_received
                   keyed : BOOLEAN,            \* keyframe_received
                   first : BOOLEAN,            \* first_video: no picture written yet
                   acked : BOOLEAN,            \* playback_acknowledged
                   refused : BOOLEAN]          \* history: a picture exceeded the limit
    /\ stdout \in Seq(Record) /\ Len(stdout) <= MaxRecords
    /\ reader \in [pc : {"preparing", "feeding", "ended", "failed"}, codec : Codec \cup {"unknown"}]
    /\ decoder \in [fed : BOOLEAN, key : BOOLEAN, own : BOOLEAN, codecs : SUBSET Codec,
                    servers : SUBSET (1..Candidates)]
    \* the response can only start once FFmpeg runs
    /\ decoder.fed => reader.codec # "unknown"

PipelineInit ==
    /\ request \in {"live", "playback"}
    /\ worker = [pc |-> "connecting", tries |-> 0, codec |-> "unknown", params |-> FALSE,
                 keyed |-> FALSE, first |-> TRUE, acked |-> FALSE, refused |-> FALSE]
    /\ stdout = <<>>
    /\ reader = [pc |-> "preparing", codec |-> "unknown"]
    /\ decoder = NothingFed

-----------------------------------------------------------------------------
(* The worker *)

\* BinaryOutput.write blocks while the pipe is full.
Room(n) == Len(stdout) + n <= MaxRecords

\* emit(stage, final=True) and the exit.
Finish(stage) ==
    /\ Room(1)
    /\ stdout' = Append(stdout, Status(stage, worker.codec))
    /\ worker' = [worker EXCEPT !.pc = "exited"]

\* The next signalling server: registration, device status, TURN allocation,
\* offer, ICE and KCP.
Connects ==
    /\ worker.pc = "connecting" /\ worker.tries < Candidates
    /\ Room(1)
    /\ stdout' = Append(stdout, Status("progress", "unknown"))
    /\ worker' = [worker EXCEPT !.pc = "receiving", !.tries = @ + 1, !.acked = FALSE]
    /\ UNCHANGED <<request, reader, decoder>>

\* A server that does not lead to the device; none left, or an error while a
\* recording was asked for.
ConnectFails ==
    /\ worker.pc = "connecting"
    /\ \/ /\ worker.tries < Candidates
          /\ worker' = [worker EXCEPT !.tries = @ + 1]
          /\ UNCHANGED stdout
       \/ (worker.tries = Candidates \/ request = "playback") /\ Finish("probe_failed")
    /\ UNCHANGED <<request, reader, decoder>>

\* Mutant of GoOn: a stream that is under way is restarted like a first one.
GoOnAlways == worker.tries < Candidates /\ request = "live"

\* An error sends the worker to the next server only while nothing was forwarded.
GoOn == worker.tries < Candidates /\ request = "live" /\ worker.first

\* A transport or protocol error inside stream_probe.
Errs(w) ==
    IF GoOn THEN worker' = [w EXCEPT !.pc = "connecting"] /\ UNCHANGED stdout
    ELSE /\ Room(1)
         /\ stdout' = Append(stdout, Status("probe_failed", w.codec))
         /\ worker' = [w EXCEPT !.pc = "exited"]

ReceiveFails ==
    /\ worker.pc = "receiving"
    /\ Errs(worker)
    /\ UNCHANGED <<request, reader, decoder>>

\* The recorder acknowledges the playback command.
Acknowledged ==
    /\ worker.pc = "receiving" /\ request = "playback" /\ ~worker.acked
    /\ Room(1)
    /\ stdout' = Append(stdout, Status("progress", "unknown"))
    /\ worker' = [worker EXCEPT !.acked = TRUE]
    /\ UNCHANGED <<request, reader, decoder>>

\* Frames of the other mode, and any before the acknowledgement, are skipped.
Wanted(f) == request = "playback" => worker.acked /\ f.own

\* The Observation after frame f: the codec sticks, parameter sets accumulate.
Observed(f) ==
    [worker EXCEPT !.codec = f.codec, !.params = @ \/ f.params,
                   !.keyed = @ \/ (f.key /\ (worker.params \/ f.params))]

\* A picture to start decoding from: it goes out with the parameter sets.
Recovery(w, f) == f.key /\ w.params

\* Pictures are forwarded from the first random access point on.
Forwardable(w, f) == w.keyed

\* Observation.feed for one frame that is wanted.
Receive(f) ==
    /\ worker.pc = "receiving" /\ Wanted(f)
    /\ LET w == Observed(f)
       IN  IF worker.codec \notin {"unknown", f.codec}
             THEN Errs(worker)                                        \* codec_changed
           ELSE IF f.big /\ Recovery(w, f)
             THEN Errs([w EXCEPT !.refused = TRUE])                   \* frame_limit
           ELSE IF ~Forwardable(w, f)
             THEN worker' = w /\ UNCHANGED stdout
           ELSE IF w.first
             THEN /\ Room(2)
                  /\ stdout' = stdout \o <<Status("video_keyframe_received", f.codec), Video(f)>>
                  /\ worker' = [w EXCEPT !.first = FALSE]
             ELSE /\ Room(1)
                  /\ stdout' = Append(stdout, Video(f))
                  /\ worker' = w
    /\ UNCHANGED <<request, reader, decoder>>

\* A frame without a picture, or one that FrameSequenceTracker drops after a gap.
ReceiveNoPicture(f) ==
    /\ worker.pc = "receiving" /\ Wanted(f)
    /\ worker.codec \in {"unknown", f.codec} /\ ~Recovery(Observed(f), f)
    /\ worker' = Observed(f)
    /\ UNCHANGED <<request, stdout, reader, decoder>>

\* The stream is over: its hour, the recorder's end notice, or 30 idle seconds
\* once pictures have come; the startup budget before that.
StreamOver ==
    /\ worker.pc = "receiving"
    /\ \/ ~worker.first /\ (Finish("stream_complete") \/ Finish("stream_idle_timeout"))
       \/ request = "playback" /\ worker.acked /\ Finish("stream_complete")
       \/ worker.first /\ Finish("probe_failed")
    /\ UNCHANGED <<request, reader, decoder>>

\* The process dies without a word: between two records that is an orderly end.
Dies ==
    /\ worker.pc # "exited"
    /\ worker' = [worker EXCEPT !.pc = "exited"]
    /\ UNCHANGED <<request, stdout, reader, decoder>>

-----------------------------------------------------------------------------
(* The reader *)

Fed(r) == [fed |-> TRUE, key |-> IF decoder.fed THEN decoder.key ELSE r.key,
           own |-> decoder.own /\ r.own, codecs |-> decoder.codecs \cup {r.codec},
           servers |-> decoder.servers \cup {r.server}]

Final(r) == r.stage \in {"stream_complete", "stream_idle_timeout", "probe_failed"}

\* _prepare: status records up to the announced keyframe, then the first picture,
\* with which FFmpeg is started.
PrepareReads ==
    /\ reader.pc = "preparing" /\ stdout # <<>>
    /\ LET r == Head(stdout)
       IN  /\ reader' = CASE r.kind = "V" /\ reader.codec = "unknown" -> [reader EXCEPT !.pc = "failed"]
                          [] r.kind = "V" /\ reader.codec # "unknown" -> [reader EXCEPT !.pc = "feeding"]
                          [] Final(r) -> [reader EXCEPT !.pc = "failed"]
                          [] r.stage = "video_keyframe_received" -> [reader EXCEPT !.codec = r.codec]
                          [] OTHER -> reader
           /\ decoder' = IF r.kind = "V" /\ reader.codec # "unknown" THEN Fed(r) ELSE decoder
    /\ stdout' = Tail(stdout)
    /\ UNCHANGED <<request, worker>>

\* _feed: pictures go to FFmpeg, a final record or another codec ends it.
FeedReads ==
    /\ reader.pc = "feeding" /\ stdout # <<>>
    /\ LET r == Head(stdout)
       IN  /\ reader' = CASE r.kind = "J" /\ r.stage = "stream_complete" -> [reader EXCEPT !.pc = "ended"]
                          [] r.kind = "J" /\ Final(r) /\ r.stage # "stream_complete"
                               -> [reader EXCEPT !.pc = "failed"]
                          [] r.kind = "J" /\ ~Final(r) /\ r.codec \notin {"unknown", reader.codec}
                               -> [reader EXCEPT !.pc = "failed"]
                          [] OTHER -> reader
           /\ decoder' = IF r.kind = "V" THEN Fed(r) ELSE decoder
    /\ stdout' = Tail(stdout)
    /\ UNCHANGED <<request, worker>>

\* End of file at a record boundary; FIRST_FRAME_TIMEOUT, MEDIA_TIMEOUT, a
\* truncated record or FFmpeg's end; and Session.close, which kills the worker.
ReaderStops ==
    /\ reader.pc \in {"preparing", "feeding"}
    /\ \/ /\ stdout = <<>> /\ worker.pc = "exited"
          /\ reader' = [reader EXCEPT !.pc = IF reader.pc = "feeding" THEN "ended" ELSE "failed"]
          /\ UNCHANGED <<worker, stdout>>
       \/ /\ reader' = [reader EXCEPT !.pc = "failed"]
          /\ worker' = [worker EXCEPT !.pc = "exited"]
          /\ stdout' = <<>>
    /\ UNCHANGED <<request, decoder>>

PipelineNext ==
    \/ Connects \/ ConnectFails \/ ReceiveFails \/ Acknowledged
    \/ \E f \in Frame : Receive(f) \/ ReceiveNoPicture(f)
    \/ StreamOver \/ Dies
    \/ PrepareReads \/ FeedReads \/ ReaderStops

PipelineSpec == PipelineInit /\ [][PipelineNext]_pipelineVars

-----------------------------------------------------------------------------
(* Properties *)

(***************************************************************************)
(* FFmpeg decodes what it was started for: its input begins with a random  *)
(* access point, comes from one connection (one timestamp epoch), holds    *)
(* pictures of the announced codec only and, in playback, none of the live *)
(* preview, whichever servers failed before and however records lie in the *)
(* pipe.  The one exception is a stream whose key picture was refused for  *)
(* its size: the worker has marked it as received and the next server's    *)
(* stream may begin anywhere.                                              *)
(***************************************************************************)
DecoderFedOneStream ==
    decoder.fed => /\ decoder.codecs = {reader.codec}
                   /\ Cardinality(decoder.servers) = 1
                   /\ decoder.own
                   /\ decoder.key \/ worker.refused

=============================================================================
