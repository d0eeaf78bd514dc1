----------------------------- MODULE VideoArchive -----------------------------
(***************************************************************************)
(* How the recording of one lock event reaches the media directory         *)
(* (video_archive.py, run by lock_media_manager.py in executor threads):   *)
(* download to <event>.h264.part, rename to <event>.h264, repackage to     *)
(* <event>.mp4.part, rename to <event>.mp4, delete the .h264.  Beside it   *)
(* run the history's clean-up (history.py) and, at any moment, a restart   *)
(* of Home Assistant, which ends the threads and leaves the files.         *)
(*                                                                         *)
(* Directory entries name inodes, as the open files and renames of the     *)
(* code see them.  An inode's content is the set of the recording's chunks *)
(* it holds; every download writes the same chunks.                        *)
(***************************************************************************)
EXTENDS Naturals, FiniteSets

CONSTANTS
    Worker,     \* executor threads archiving the event
    Chunk,      \* the chunks of the recording, 1..n
    Inode       \* inodes, numbered from 1

ASSUME ArchiveAssumption == IsFiniteSet(Worker) /\ Inode \subseteq Nat \ {0}

\* A name that does not exist has this inode.
NoInode == 0

Name == {"h264.part", "h264", "mp4.part", "mp4"}

VARIABLES
    dir,         \* the directory: per name an inode
    content,     \* per inode: the chunks in it
    worker,      \* per thread: where it is
    overlapped   \* history: two threads archived the event at a time

archiveVars == <<dir, content, worker, overlapped>>

\* A thread: its step, the inode it has open and the chunks it has read or written.
Resting == [pc |-> "idle", file |-> NoInode, done |-> {}]

ArchiveTypeOK ==
    /\ dir \in [Name -> Inode \cup {NoInode}]
    /\ content \in [Inode -> SUBSET Chunk]
    /\ worker \in [Worker -> [pc : {"idle", "open", "write", "transcode", "package", "finish"},
                              file : Inode \cup {NoInode}, done : SUBSET Chunk]]
    /\ overlapped \in BOOLEAN
    \* no two names share an inode: a rename moves it
    /\ \A m, n \in Name : dir[m] = dir[n] /\ dir[m] # NoInode => m = n

ArchiveInit ==
    /\ dir = [n \in Name |-> NoInode]
    /\ content = [i \in Inode |-> {}]
    /\ worker = [w \in Worker |-> Resting]
    /\ overlapped = FALSE

-----------------------------------------------------------------------------
(* Files *)

Exists(n) == dir[n] # NoInode

Unlinked(n) == [dir EXCEPT ![n] = NoInode]

\* Path.replace
Renamed(from, to) == [dir EXCEPT ![to] = dir[from], ![from] = NoInode]

Unused == {i \in Inode : /\ \A n \in Name : dir[n] # i
                         /\ \A w \in Worker : worker[w].file # i}

\* The new state; an inode that no name and no thread refers to is empty.
Becomes(d, c, ws) ==
    /\ dir' = d
    /\ worker' = ws
    /\ content' = [i \in Inode |-> IF \/ \E n \in Name : d[n] = i
                                      \/ \E w \in Worker : ws[w].file = i
                                    THEN c[i] ELSE {}]

\* open(name, "wb"): a file that is there is truncated, else one is made.  That
\* an inode is left is a bound of the model.
Opens(w, n, pc, done) ==
    \E i \in Inode :
        /\ IF Exists(n) THEN i = dir[n] ELSE i \in Unused /\ \A k \in Unused : i <= k
        /\ Becomes([dir EXCEPT ![n] = i], [content EXCEPT ![i] = {}],
                   [worker EXCEPT ![w] = [pc |-> pc, file |-> i, done |-> done]])

\* The thread ends: archive_event returns, or the job raises.
Ended(w) == [worker EXCEPT ![w] = Resting]

-----------------------------------------------------------------------------
(* Archiving *)

\* archive, archive_event: a finished .mp4 is not fetched again.
Begin(w) ==
    /\ worker[w].pc = "idle"
    /\ ~(Exists("mp4") /\ content[dir["mp4"]] # {})
    /\ Becomes(dir, content, [worker EXCEPT ![w].pc = "open"])
    /\ overlapped' = (overlapped \/ \E u \in Worker : worker[u].pc # "idle")

Download(w) ==
    /\ worker[w].pc = "open"
    /\ Opens(w, "h264.part", "write", {})
    /\ UNCHANGED overlapped

Write(w) ==
    /\ worker[w].pc = "write"
    /\ \E c \in Chunk :
         /\ c = Cardinality(worker[w].done) + 1
         /\ Becomes(dir, [content EXCEPT ![worker[w].file] = @ \cup {c}],
                    [worker EXCEPT ![w].done = @ \cup {c}])
    /\ UNCHANGED overlapped

\* The stream is at its end: tmp.replace(dest), which fails if the name is gone.
Downloaded(w) ==
    /\ worker[w].pc = "write" /\ worker[w].done = Chunk
    /\ IF Exists("h264.part")
         THEN Becomes(Renamed("h264.part", "h264"), content,
                      [worker EXCEPT ![w] = [Resting EXCEPT !.pc = "transcode"]])
         ELSE Becomes(dir, content, Ended(w))
    /\ UNCHANGED overlapped

\* Mutant of DownloadFails: what has arrived is kept as the recording.
DownloadFailsKept(w) ==
    /\ worker[w].pc \in {"open", "write"}
    /\ Becomes(IF Exists("h264.part") THEN Renamed("h264.part", "h264") ELSE dir,
               content, Ended(w))
    /\ UNCHANGED overlapped

\* HTTPError, URLError, OSError: the .part is deleted, whoever wrote it last.
DownloadFails(w) ==
    /\ worker[w].pc \in {"open", "write"}
    /\ Becomes(Unlinked("h264.part"), content, Ended(w))
    /\ UNCHANGED overlapped

\* ffmpeg is there and starts: it reads what the .h264 holds by then.
Transcode(w) ==
    /\ worker[w].pc = "transcode"
    /\ Exists("h264")
    /\ Opens(w, "mp4.part", "package", content[dir["h264"]])
    /\ UNCHANGED overlapped

\* No ffmpeg, no .h264: the recording stays as it is.
NotTranscoded(w) ==
    /\ worker[w].pc = "transcode"
    /\ Becomes(dir, content, Ended(w))
    /\ UNCHANGED overlapped

\* ffmpeg ends well and its output is there; or it fails, or ran out of time.
Packaged(w) ==
    /\ worker[w].pc = "package"
    /\ Becomes(dir, [content EXCEPT ![worker[w].file] = worker[w].done],
               [worker EXCEPT ![w].pc = "finish"])
    /\ UNCHANGED overlapped

TranscodeFails(w) ==
    /\ worker[w].pc = "package"
    /\ \E d \in {Unlinked("mp4.part"), dir} : Becomes(d, content, Ended(w))
    /\ UNCHANGED overlapped

\* tmp.replace(dest) and src.unlink, which follow each other without a wait.
Finish(w) ==
    /\ worker[w].pc = "finish"
    /\ Becomes(IF Exists("mp4.part")
                 THEN [Renamed("mp4.part", "mp4") EXCEPT !["h264"] = NoInode]
                 ELSE dir,
               content, Ended(w))
    /\ UNCHANGED overlapped

-----------------------------------------------------------------------------
(* Beside it *)

\* cleanup: an old recording goes; the .part files do not match its pattern.
Cleanup(n) ==
    /\ n \in {"h264", "mp4"} /\ Exists(n)
    /\ Becomes(Unlinked(n), content, worker)
    /\ UNCHANGED overlapped

Restart ==
    /\ \E w \in Worker : worker[w].pc # "idle"
    /\ Becomes(dir, content, [w \in Worker |-> Resting])
    /\ UNCHANGED overlapped

ArchiveNext ==
    \/ \E w \in Worker :
           \/ Begin(w) \/ Download(w) \/ Write(w) \/ Downloaded(w) \/ DownloadFails(w)
           \/ Transcode(w) \/ NotTranscoded(w) \/ Packaged(w) \/ TranscodeFails(w) \/ Finish(w)
    \/ \E n \in Name : Cleanup(n)
    \/ Restart

ArchiveSpec == ArchiveInit /\ [][ArchiveNext]_archiveVars

-----------------------------------------------------------------------------
(* Properties *)

(***************************************************************************)
(* What the history lists is whole: a .h264 or .mp4 holds every chunk of   *)
(* the recording, after failed downloads, failed repackaging, clean-ups    *)
(* and restarts in any order.  Two threads on one event at a time are the  *)
(* exception: they share the .part files, and nothing keeps a second       *)
(* fetch_video call or a repeated event from starting the second one.      *)
(***************************************************************************)
ListedIsWhole ==
    ~overlapped => \A n \in {"h264", "mp4"} : Exists(n) => content[dir[n]] = Chunk

=============================================================================
