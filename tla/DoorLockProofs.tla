---------------------------- MODULE DoorLockProofs ----------------------------
(***************************************************************************)
(* Proofs about the three parts of a door lock: its temporary passwords,   *)
(* the attribution of its openings and the files of its recordings; for    *)
(* any number of calls, users, threads and chunks and any length of the    *)
(* run.                                                                    *)
(***************************************************************************)
EXTENDS TempPasswords, LockEvents, VideoArchive, FiniteSetTheorems, TLAPS

-----------------------------------------------------------------------------
(* The inductive invariants *)

\* The ids a call deals with have been issued, and an answer that says a
\* password was deleted tells the truth, since no id is issued twice.
IdsIssued ==
    /\ \A t \in Task : /\ calls[t].seen \subseteq 1..issued
                       /\ calls[t].todo \subseteq 1..issued
                       /\ calls[t].op = "revoke" => calls[t].id \in 1..issued
    /\ \A a \in answers : /\ a.id \in 1..issued
                          /\ a.op = "revoke" => a.id \notin server

\* The calls that will still add a password: the table they read was below the
\* limit, be it looked at already or not.
WillGrant ==
    {t \in Task : /\ calls[t].op = "grant"
                  /\ \/ calls[t].pc = "reading" /\ ~AtLimit(t)
                     \/ calls[t].pc \in {"sending", "waiting"} /\ ~calls[t].served}

\* A call joins them only while the server is below the limit, and leaves them
\* when its password is made.
RoomLeft ==
    unchecked \/ Cardinality(server) + Cardinality(WillGrant)
                     <= MaxActive + Cardinality(Task) - 1

PasswordInv == PasswordTypeOK /\ IdsIssued /\ RevokedIsGone /\ RoomLeft

\* The duplicate test compares with the packet before, and what is remembered
\* of an unlocking is never younger than the unlocking.
Remembered ==
    /\ lastSignature = Signature(lastPacket)
    /\ lastUnlock.user # Nobody => unlocking[lastUnlock.user] <= lastUnlock.age

LockInv == LockTypeOK /\ Remembered /\ OpenedByRecentUser

\* Where a thread that works alone is: its .part file is the one it has open,
\* and holds what the thread has done.
OwnFile(w) ==
    /\ worker[w].pc \in {"idle", "open", "transcode"} => worker[w] = [Resting EXCEPT !.pc = worker[w].pc]
    /\ worker[w].pc = "write" =>
          /\ worker[w].file \in Inode /\ worker[w].file = dir["h264.part"]
          /\ worker[w].done \subseteq content[worker[w].file]
    /\ worker[w].pc \in {"package", "finish"} =>
          /\ worker[w].file \in Inode /\ worker[w].file = dir["mp4.part"]
          /\ worker[w].done = Chunk
    /\ worker[w].pc = "finish" => content[worker[w].file] = Chunk

Alone ==
    ~overlapped => /\ \A w \in Worker : OwnFile(w)
                   /\ \A u, w \in Worker : worker[u].pc # "idle" /\ worker[w].pc # "idle" => u = w

ArchiveInv == ArchiveTypeOK /\ Alone /\ ListedIsWhole

-----------------------------------------------------------------------------
(* The public events *)

\* Packets of one event have one signature, whatever they say of the door.
LEMMA SignatureOfEvent ==
    ASSUME NEW p \in Packet, NEW q \in Packet \cup {NoPacket}, SameEvent(p, q)
    PROVE  Signature(p) = Signature(q)
BY DEF SameEvent, Signature, Packet, NoPacket

\* A signature has the type of the packets.
LEMMA SignatureType ==
    ASSUME NEW p \in Packet \cup {NoPacket}
    PROVE  Signature(p) \in [kind : {"unlock", "ring", "state", "none"}, user : User \cup {Nobody},
                             time : EventTime \cup {0}, door : BOOLEAN]
<1>1. CASE p \in [kind : {"unlock"}, user : User, time : EventTime, door : BOOLEAN]
  BY <1>1 DEF Signature
<1>2. CASE p \in [kind : {"ring"}, user : {Nobody}, time : EventTime, door : BOOLEAN]
  BY <1>2 DEF Signature
<1>3. CASE p \in [kind : {"state"}, user : {Nobody}, time : {0}, door : BOOLEAN]
  BY <1>3 DEF Signature
<1>4. CASE p = NoPacket
  BY <1>4 DEF Signature, NoPacket
<1> QED BY <1>1, <1>2, <1>3, <1>4 DEF Packet

\* Before the first packet there is no signature.
LEMMA NoSignature == Signature(NoPacket) = NoPacket
<1>1. Signature(NoPacket) \in [kind : {"none"}, user : {Nobody}, time : {0}, door : {FALSE}]
  BY DEF Signature, NoPacket
<1>2. ASSUME NEW s \in [kind : {"none"}, user : {Nobody}, time : {0}, door : {FALSE}]
      PROVE  s = NoPacket
  <2>1. s = [kind |-> s.kind, user |-> s.user, time |-> s.time, door |-> s.door]
    OBVIOUS
  <2>2. s.kind = "none" /\ s.user = Nobody /\ s.time = 0
    OBVIOUS
  <2>3. s.door = FALSE
    OBVIOUS
  <2> QED BY <2>1, <2>2, <2>3, Zenon DEF NoPacket
<1> QED BY <1>1, <1>2

\* Ages: they stay in their range, and growing older keeps their order.
LEMMA AgeFacts ==
    /\ Long \in Nat /\ DoorOpenWindow < Long
    /\ \A a \in 0..Long : Older(a) \in 0..Long
    /\ \A a, b \in 0..Long : a <= b => Older(a) <= Older(b)
BY LockAssumption DEF Long, Older

\* build_event past the duplicate test keeps the invariant.
LEMMA PublishKeeps ==
    ASSUME LockInv, NEW p \in Packet, Publish(p), ~SameEvent(p, lastPacket),
           lastSignature' = Signature(p), lastPacket' = p
    PROVE  LockInv'
<1> DEFINE unlock == IF p.kind = "unlock" THEN [user |-> p.user, age |-> 0] ELSE lastUnlock
           came == IF p.kind = "unlock" THEN [unlocking EXCEPT ![p.user] = 0] ELSE unlocking
           by == IF p.door /\ unlock.age <= DoorOpenWindow THEN unlock.user ELSE Nobody
<1>1. /\ lastUnlock' = unlock /\ unlocking' = came
      /\ published' = IF by = Nobody THEN Silent ELSE [openedBy |-> by, age |-> came[by]]
  BY DEF Publish
<1>2. p.kind = "unlock" => p.user \in User
  BY DEF Packet
<1>3. 0 \in 0..Long
  BY AgeFacts
<1>4. unlock \in [user : User \cup {Nobody}, age : 0..Long] /\ came \in [User -> 0..Long]
  BY <1>2, <1>3 DEF LockInv, LockTypeOK
<1>5. unlock.user # Nobody => unlock.user \in User /\ came[unlock.user] <= unlock.age
  <2>1. CASE p.kind = "unlock"
    BY <2>1, <1>2 DEF LockInv, LockTypeOK
  <2>2. CASE p.kind # "unlock"
    BY <2>2, <1>4 DEF LockInv, Remembered
  <2> QED BY <2>1, <2>2
<1> HIDE DEF unlock, came
<1>6. by # Nobody => /\ by \in User /\ by = unlock.user /\ unlock.age <= DoorOpenWindow
                     /\ came[by] \in 0..Long
  BY <1>4, <1>5
<1>7. by # Nobody => came[by] <= DoorOpenWindow
  BY <1>4, <1>5, <1>6, AgeFacts, LockAssumption
<1> HIDE DEF by
<1>8. published' \in [openedBy : User \cup {Nobody}, age : 0..Long]
  BY <1>1, <1>3, <1>6 DEF Silent
<1>9. OpenedByRecentUser'
  BY <1>1, <1>7 DEF OpenedByRecentUser, Silent
<1>10. LockTypeOK'
  BY <1>1, <1>4, <1>8, SignatureType DEF LockTypeOK
<1>11. Remembered'
  BY <1>1, <1>5 DEF Remembered, Signature
<1> QED BY <1>9, <1>10, <1>11 DEF LockInv

\* A delivery keeps the invariant: a repeated event does not get past the
\* duplicate test, so what is published is new.
LEMMA DeliverKeeps ==
    ASSUME LockInv, NEW p \in Packet, Deliver(p)
    PROVE  LockInv'
<1>1. lastPacket' = p /\ lastSignature' = Signature(p)
  BY DEF Deliver
<1>2. CASE Signature(p) = lastSignature
  <2>1. UNCHANGED <<lastUnlock, unlocking, published>>
    BY <1>2 DEF Deliver
  <2>2. LockTypeOK'
    BY <1>1, <2>1, SignatureType DEF LockInv, LockTypeOK
  <2>3. Remembered' /\ OpenedByRecentUser'
    BY <1>1, <2>1 DEF LockInv, Remembered, OpenedByRecentUser, Signature
  <2> QED BY <2>2, <2>3 DEF LockInv
<1>3. CASE Signature(p) # lastSignature
  <2>1. lastPacket \in Packet \cup {NoPacket} /\ lastSignature = Signature(lastPacket)
    BY DEF LockInv, LockTypeOK, Remembered
  <2>2. ~SameEvent(p, lastPacket)
    BY <2>1, <1>3, SignatureOfEvent
  <2>3. Publish(p)
    BY <1>3 DEF Deliver
  <2> QED BY <1>1, <2>2, <2>3, PublishKeeps
<1> QED BY <1>2, <1>3

\* The packet that comes again is a packet.
LEMMA RepeatedPacket ==
    ASSUME NEW p \in Packet, NEW door \in BOOLEAN
    PROVE  [p EXCEPT !.door = door] \in Packet
<1>1. CASE p \in [kind : {"unlock"}, user : User, time : EventTime, door : BOOLEAN]
  BY <1>1 DEF Packet
<1>2. CASE p \in [kind : {"ring"}, user : {Nobody}, time : EventTime, door : BOOLEAN]
  BY <1>2 DEF Packet
<1>3. CASE p \in [kind : {"state"}, user : {Nobody}, time : {0}, door : BOOLEAN]
  BY <1>3 DEF Packet
<1> QED BY <1>1, <1>2, <1>3 DEF Packet

\* The invariant of the events is inductive.
LEMMA LockInductive == LockInv /\ [LockNext]_eventVars => LockInv'
<1> SUFFICES ASSUME LockInv, [LockNext]_eventVars PROVE LockInv'
  OBVIOUS
<1>1. ASSUME NEW p \in Packet, NewPacket(p) PROVE LockInv'
  BY <1>1, DeliverKeeps DEF NewPacket
<1>2. ASSUME NEW door \in BOOLEAN, Repeat(door) PROVE LockInv'
  <2>1. lastPacket \in Packet
    BY <1>2 DEF Repeat, LockInv, LockTypeOK
  <2>2. [lastPacket EXCEPT !.door = door] \in Packet
    BY <2>1, RepeatedPacket
  <2> QED BY <1>2, <2>2, DeliverKeeps DEF Repeat
<1>3. CASE Forget
  <2>1. LockTypeOK'
    BY <1>3, AgeFacts DEF Forget, LockInv, LockTypeOK, NoPacket, NoUnlock, Silent
  <2>2. Remembered' /\ OpenedByRecentUser'
    BY <1>3, NoSignature DEF Forget, Remembered, OpenedByRecentUser, NoUnlock, Silent, Signature
  <2> QED BY <2>1, <2>2 DEF LockInv
<1>4. CASE SecondPasses
  <2>1. /\ lastUnlock \in [user : User \cup {Nobody}, age : 0..Long]
        /\ unlocking \in [User -> 0..Long]
    BY DEF LockInv, LockTypeOK
  <2>2. /\ lastUnlock' = [lastUnlock EXCEPT !.age = Older(lastUnlock.age)]
        /\ unlocking' = [u \in User |-> Older(unlocking[u])]
        /\ UNCHANGED <<lastSignature, lastPacket, published>>
    BY <1>4 DEF SecondPasses
  <2>3. lastUnlock' \in [user : User \cup {Nobody}, age : 0..Long] /\ unlocking' \in [User -> 0..Long]
    BY <2>1, <2>2, AgeFacts
  <2>4. LockTypeOK'
    BY <2>2, <2>3 DEF LockInv, LockTypeOK
  <2>5. lastUnlock'.user # Nobody => unlocking'[lastUnlock'.user] <= lastUnlock'.age
    BY <2>1, <2>2, AgeFacts DEF LockInv, Remembered
  <2>6. Remembered' /\ OpenedByRecentUser'
    BY <2>2, <2>5 DEF LockInv, Remembered, OpenedByRecentUser, Signature
  <2> QED BY <2>4, <2>6 DEF LockInv
<1>5. CASE UNCHANGED eventVars
  BY <1>5 DEF eventVars, LockInv, LockTypeOK, Remembered, OpenedByRecentUser, Signature
<1> QED BY <1>1, <1>2, <1>3, <1>4, <1>5 DEF LockNext

(***************************************************************************)
(* lock_manager.build_event: a door event names a user only if that user   *)
(* unlocked within the window, however packets repeat, seconds pass and    *)
(* the lock is dropped and listed again; for any users, event times and    *)
(* window.                                                                 *)
(***************************************************************************)
THEOREM OpeningsAscribed == LockSpec => []OpenedByRecentUser
<1>1. LockInit => LockInv
  <2> SUFFICES ASSUME LockInit PROVE LockInv
    OBVIOUS
  <2>1. LockTypeOK
    BY AgeFacts DEF LockInit, LockTypeOK, NoPacket, NoUnlock, Silent
  <2>2. Remembered /\ OpenedByRecentUser
    BY NoSignature DEF LockInit, Remembered, OpenedByRecentUser, NoUnlock, Silent
  <2> QED BY <2>1, <2>2 DEF LockInv
<1>2. LockInv => OpenedByRecentUser
  BY DEF LockInv
<1> QED BY <1>1, <1>2, LockInductive, PTL DEF LockSpec

-----------------------------------------------------------------------------
(* The temporary passwords *)

\* The sets whose sizes the limit is about are finite.
LEMMA PasswordSetsFinite ==
    ASSUME PasswordTypeOK
    PROVE  /\ IsFiniteSet(server) /\ Cardinality(server) \in Nat
           /\ IsFiniteSet(WillGrant) /\ Cardinality(WillGrant) \in Nat
           /\ Cardinality(WillGrant) <= Cardinality(Task)
           /\ Cardinality(Task) \in Nat /\ MaxActive \in Nat \ {0}
<1>1. issued \in Nat
  BY PasswordAssumption DEF PasswordTypeOK
<1>2. IsFiniteSet(1..issued)
  BY <1>1, FS_Interval
<1>3. server \in SUBSET (1..issued)
  BY DEF PasswordTypeOK
<1>4. IsFiniteSet(server)
  BY <1>2, <1>3, FS_Subset
<1>5. WillGrant \in SUBSET Task
  BY DEF WillGrant
<1>6. IsFiniteSet(WillGrant) /\ Cardinality(WillGrant) <= Cardinality(Task)
  BY <1>5, FS_Subset, PasswordAssumption
<1> QED BY <1>4, <1>6, FS_CardinalityType, PasswordAssumption

\* A step that makes no password and lets no further call past the limit.
LEMMA RoomKept ==
    ASSUME PasswordTypeOK, RoomLeft, PasswordTypeOK', unchecked => unchecked',
           server' \subseteq server, WillGrant' \subseteq WillGrant
    PROVE  RoomLeft'
<1>1. Cardinality(server') <= Cardinality(server)
  BY PasswordSetsFinite, FS_Subset
<1>2. Cardinality(WillGrant') <= Cardinality(WillGrant)
  BY PasswordSetsFinite, FS_Subset
<1>3. Cardinality(server') \in Nat /\ Cardinality(WillGrant') \in Nat
  <2>1. IsFiniteSet(server') /\ IsFiniteSet(WillGrant')
    BY PasswordSetsFinite, FS_Subset
  <2> QED BY <2>1, FS_CardinalityType
<1> QED BY <1>1, <1>2, <1>3, PasswordSetsFinite DEF RoomLeft

\* A finished call is no call, or a clean-up run.
LEMMA OverFacts ==
    ASSUME PasswordTypeOK, NEW t \in Task
    PROVE  /\ Idle \in Call /\ Over(t) \in Call
           /\ Over(t).op \in {"none", "cleanup"} /\ Over(t).pc \in {"idle", "cleaning"}
           /\ Over(t).seen = {} /\ Over(t).todo = calls[t].todo
<1>1. calls[t] \in Call
  BY DEF PasswordTypeOK
<1>2. Idle \in Call
  BY PasswordAssumption DEF Idle, Call
<1> QED BY <1>1, <1>2 DEF Over, Idle, Call

\* The fields of a call that a new list in _records does not touch.
SameCall(u) ==
    /\ calls'[u].op = calls[u].op /\ calls'[u].pc = calls[u].pc
    /\ calls'[u].id = calls[u].id /\ calls'[u].seen = calls[u].seen
    /\ calls'[u].served = calls[u].served /\ calls'[u].todo = calls[u].todo

\* The invariant after a step of the call of t that issues nothing.
LEMMA CallStep ==
    ASSUME PasswordInv, NEW t \in Task,
           calls' \in [Task -> Call],
           \A u \in Task \ {t} : SameCall(u),
           /\ calls'[t].seen \subseteq 1..issued
           /\ calls'[t].todo \subseteq 1..issued
           /\ calls'[t].op = "revoke" => calls'[t].id \in 1..issued,
           calls'[t].pc = "waiting" => \A u \in Task \ {t} : calls[u].pc # "waiting",
           server' \subseteq server, issued' = issued,
           records' \subseteq 1..issued,
           answers' \subseteq answers,
           unchecked' \in BOOLEAN, unchecked => unchecked',
           revoked' \subseteq 1..issued, revoked' \cap server' = {}
    PROVE  /\ PasswordTypeOK' /\ IdsIssued' /\ RevokedIsGone'
           /\ (t \in WillGrant' => t \in WillGrant) => PasswordInv'
<1>1. PasswordTypeOK'
  <2>1. server' \subseteq 1..issued' /\ issued' \in 0..MaxIssued
    BY DEF PasswordInv, PasswordTypeOK
  <2>2. answers' \subseteq [op : {"grant", "revoke"}, id : AuthId]
    BY DEF PasswordInv, PasswordTypeOK
  <2>3. ASSUME NEW v \in Task, NEW u \in Task, calls'[v].pc = "waiting", calls'[u].pc = "waiting"
        PROVE  v = u
    BY <2>3 DEF SameCall, PasswordInv, PasswordTypeOK
  <2> QED BY <2>1, <2>2, <2>3 DEF PasswordTypeOK
<1>2. IdsIssued'
  <2>1. ASSUME NEW u \in Task
        PROVE  /\ calls'[u].seen \subseteq 1..issued'
               /\ calls'[u].todo \subseteq 1..issued'
               /\ calls'[u].op = "revoke" => calls'[u].id \in 1..issued'
    BY DEF SameCall, PasswordInv, IdsIssued
  <2>2. ASSUME NEW a \in answers'
        PROVE  a.id \in 1..issued' /\ (a.op = "revoke" => a.id \notin server')
    BY DEF PasswordInv, IdsIssued
  <2> QED BY <2>1, <2>2 DEF IdsIssued
<1>3. RevokedIsGone'
  BY DEF RevokedIsGone
<1>4. ASSUME t \in WillGrant' => t \in WillGrant PROVE PasswordInv'
  <2>1. WillGrant' \subseteq WillGrant
    <3>1. ASSUME NEW u \in Task, u # t, u \in WillGrant' PROVE u \in WillGrant
      BY <3>1 DEF WillGrant, AtLimit, SameCall
    <3> QED BY <3>1, <1>4 DEF WillGrant
  <2>2. RoomLeft'
    BY <1>1, <2>1, RoomKept DEF PasswordInv
  <2> QED BY <1>1, <1>2, <1>3, <2>2 DEF PasswordInv
<1> QED BY <1>1, <1>2, <1>3, <1>4

\* A call asks for the table: if the server is below the limit, so is the
\* number of passwords that all calls together could make of it.
LEMMA ReadStartsKeeps ==
    ASSUME PasswordInv, NEW t \in Task, NEW op \in {"grant", "list"}, ReadStarts(t, op)
    PROVE  PasswordInv'
<1> DEFINE c == [Idle EXCEPT !.op = op, !.pc = "reading", !.seen = server]
<1>1. /\ calls' = [calls EXCEPT ![t] = c]
      /\ UNCHANGED <<server, issued, records, answers, unchecked, revoked>>
  BY DEF ReadStarts
<1>2. server \subseteq 1..issued /\ issued \in 0..MaxIssued /\ calls \in [Task -> Call]
  BY DEF PasswordInv, PasswordTypeOK
<1>3. server \subseteq AuthId
  BY <1>2, PasswordAssumption DEF AuthId
<1>4. c \in Call
  <2>1. Idle \in Call
    BY OverFacts DEF PasswordInv
  <2> QED BY <2>1, <1>3 DEF Call
<1>5. c.op = op /\ c.pc = "reading" /\ c.seen = server /\ c.todo = {}
  BY DEF Idle
<1> HIDE DEF c
<1>6. calls' \in [Task -> Call] /\ calls'[t] = c /\ \A u \in Task \ {t} : SameCall(u)
  BY <1>1, <1>2, <1>4 DEF SameCall
<1>7. /\ calls'[t].seen \subseteq 1..issued /\ calls'[t].todo \subseteq 1..issued
      /\ calls'[t].op # "revoke" /\ calls'[t].pc # "waiting"
  BY <1>2, <1>5, <1>6
<1>8. /\ records' \subseteq 1..issued /\ revoked' \subseteq 1..issued /\ revoked' \cap server' = {}
      /\ unchecked' \in BOOLEAN
  BY <1>1 DEF PasswordInv, PasswordTypeOK, RevokedIsGone
<1>9. /\ PasswordTypeOK' /\ IdsIssued' /\ RevokedIsGone'
      /\ (t \in WillGrant' => t \in WillGrant) => PasswordInv'
  BY <1>1, <1>6, <1>7, <1>8, CallStep
<1>10. CASE Cardinality(server) >= MaxActive
  <2>1. t \notin WillGrant'
    BY <1>10, <1>5, <1>6 DEF WillGrant, AtLimit
  <2> QED BY <1>9, <2>1
<1>11. CASE ~(Cardinality(server) >= MaxActive)
  <2>1. PasswordTypeOK
    BY DEF PasswordInv
  <2>2. IsFiniteSet(WillGrant') /\ Cardinality(WillGrant') <= Cardinality(Task)
    <3>1. WillGrant' \in SUBSET Task
      BY DEF WillGrant
    <3> QED BY <3>1, FS_Subset, PasswordAssumption
  <2>3. Cardinality(WillGrant') \in Nat
    BY <2>2, FS_CardinalityType
  <2>4. Cardinality(server') + Cardinality(WillGrant') <= MaxActive + Cardinality(Task) - 1
    BY <1>1, <1>11, <2>1, <2>2, <2>3, PasswordSetsFinite
  <2> QED BY <1>9, <2>4 DEF RoomLeft, PasswordInv
<1> QED BY <1>10, <1>11

\* What a grant becomes once it is past the limit.
LEMMA SendingIs ==
    ASSUME NEW t \in Task, NEW cls \in [Task -> Call]
    PROVE  Sending(t, cls) = [cls EXCEPT ![t] = [cls[t] EXCEPT !.pc = "sending", !.attached = TRUE,
                                                              !.seen = {}]]
BY DEF Sending, Call

\* The table is there, or cannot be had.
LEMMA ReadDoneKeeps ==
    ASSUME PasswordInv, NEW t \in Task, ReadDone(t)
    PROVE  PasswordInv'
<1>1. /\ calls[t].pc = "reading" /\ records' = calls[t].seen
      /\ UNCHANGED <<server, issued, answers, unchecked, revoked>>
  BY DEF ReadDone
<1>2. calls \in [Task -> Call]
  BY DEF PasswordInv, PasswordTypeOK
<1>3. /\ records' \subseteq 1..issued /\ revoked' \subseteq 1..issued /\ revoked' \cap server' = {}
      /\ unchecked' \in BOOLEAN
  BY <1>1 DEF PasswordInv, PasswordTypeOK, RevokedIsGone, IdsIssued
<1>4. /\ calls[t].todo \subseteq 1..issued
      /\ calls[t].op = "revoke" => calls[t].id \in 1..issued
  BY DEF PasswordInv, IdsIssued
<1>5. /\ Detached \in [Task -> Call]
      /\ \A u \in Task : /\ Detached[u].op = calls[u].op /\ Detached[u].pc = calls[u].pc
                         /\ Detached[u].id = calls[u].id /\ Detached[u].seen = calls[u].seen
                         /\ Detached[u].served = calls[u].served /\ Detached[u].todo = calls[u].todo
  BY <1>2 DEF Detached, Call
<1>6. CASE calls[t].op = "grant" /\ ~AtLimit(t)
  <2>1. calls' = Sending(t, Detached)
    BY <1>6 DEF ReadDone
  <2>2. /\ calls' \in [Task -> Call] /\ \A u \in Task \ {t} : SameCall(u)
        /\ calls'[t].op = "grant" /\ calls'[t].pc = "sending" /\ calls'[t].seen = {}
        /\ calls'[t].todo = calls[t].todo
    <3> DEFINE c == [Detached[t] EXCEPT !.pc = "sending", !.attached = TRUE, !.seen = {}]
    <3>1. calls' = [Detached EXCEPT ![t] = c]
      BY <2>1, <1>5, SendingIs
    <3>2. c \in Call /\ c.op = Detached[t].op /\ c.pc = "sending" /\ c.seen = {}
          /\ c.todo = Detached[t].todo
      BY <1>5 DEF Call
    <3> HIDE DEF c
    <3>3. calls' \in [Task -> Call] /\ calls'[t] = c /\ \A u \in Task \ {t} : calls'[u] = Detached[u]
      BY <3>1, <3>2, <1>5
    <3> QED BY <3>2, <3>3, <1>5, <1>6 DEF SameCall
  <2>3. t \in WillGrant
    BY <1>1, <1>6 DEF WillGrant
  <2> QED BY <1>1, <1>3, <1>4, <2>2, <2>3, CallStep
<1>7. CASE ~(calls[t].op = "grant" /\ ~AtLimit(t))
  <2>1. calls' = [Detached EXCEPT ![t] = Over(t)]
    BY <1>7 DEF ReadDone
  <2>2. /\ calls' \in [Task -> Call] /\ \A u \in Task \ {t} : SameCall(u)
        /\ calls'[t] = Over(t)
    BY <2>1, <1>5, OverFacts DEF SameCall, PasswordInv
  <2>3. /\ calls'[t].op \in {"none", "cleanup"} /\ calls'[t].pc \in {"idle", "cleaning"}
        /\ calls'[t].seen = {} /\ calls'[t].todo = calls[t].todo
    BY <2>2, OverFacts DEF PasswordInv
  <2>4. t \notin WillGrant'
    BY <2>3 DEF WillGrant
  <2> QED BY <1>1, <1>3, <1>4, <2>2, <2>3, <2>4, CallStep
<1> QED BY <1>6, <1>7

\* A read that fails lets a grant past the limit, and is remembered for it.
LEMMA ReadFailsKeeps ==
    ASSUME PasswordInv, NEW t \in Task, ReadFails(t)
    PROVE  PasswordInv'
<1>1. /\ calls[t].pc = "reading" /\ unchecked' = (unchecked \/ calls[t].op = "grant")
      /\ UNCHANGED <<server, issued, records, answers, revoked>>
  BY DEF ReadFails
<1>2. calls \in [Task -> Call]
  BY DEF PasswordInv, PasswordTypeOK
<1>3. /\ records' \subseteq 1..issued /\ revoked' \subseteq 1..issued /\ revoked' \cap server' = {}
  BY <1>1 DEF PasswordInv, PasswordTypeOK, RevokedIsGone
<1>4. unchecked' \in BOOLEAN /\ (unchecked => unchecked')
  BY <1>1 DEF PasswordInv, PasswordTypeOK
<1>5. /\ calls[t].todo \subseteq 1..issued
      /\ calls[t].op = "revoke" => calls[t].id \in 1..issued
  BY DEF PasswordInv, IdsIssued
<1>6. CASE calls[t].op = "grant"
  <2> DEFINE c == [calls[t] EXCEPT !.pc = "sending", !.attached = TRUE, !.seen = {}]
  <2>1. calls' = [calls EXCEPT ![t] = c]
    BY <1>2, <1>6, SendingIs DEF ReadFails
  <2>2. c \in Call /\ c.op = calls[t].op /\ c.pc = "sending" /\ c.seen = {} /\ c.todo = calls[t].todo
    BY <1>2 DEF Call
  <2> HIDE DEF c
  <2>3. calls' \in [Task -> Call] /\ calls'[t] = c /\ \A u \in Task \ {t} : SameCall(u)
    BY <2>1, <2>2, <1>2 DEF SameCall
  <2>4. PasswordTypeOK' /\ IdsIssued' /\ RevokedIsGone'
    BY <1>1, <1>3, <1>4, <1>5, <1>6, <2>2, <2>3, CallStep
  <2>5. RoomLeft'
    BY <1>1, <1>6 DEF RoomLeft
  <2> QED BY <2>4, <2>5 DEF PasswordInv
<1>7. CASE calls[t].op # "grant"
  <2>1. calls' = [calls EXCEPT ![t] = Over(t)]
    BY <1>7 DEF ReadFails
  <2>2. calls' \in [Task -> Call] /\ calls'[t] = Over(t) /\ \A u \in Task \ {t} : SameCall(u)
    BY <2>1, <1>2, OverFacts DEF SameCall, PasswordInv
  <2>3. /\ calls'[t].op \in {"none", "cleanup"} /\ calls'[t].pc \in {"idle", "cleaning"}
        /\ calls'[t].seen = {} /\ calls'[t].todo = calls[t].todo
    BY <2>2, OverFacts DEF PasswordInv
  <2>4. t \notin WillGrant'
    BY <2>3 DEF WillGrant
  <2> QED BY <1>1, <1>3, <1>4, <1>5, <2>2, <2>3, <2>4, CallStep
<1> QED BY <1>6, <1>7

\* The calls that begin or end without a word to the server.
LEMMA LocalStepKeeps ==
    ASSUME PasswordInv, NEW t \in Task, NEW c \in Call,
           calls' = [calls EXCEPT ![t] = c],
           UNCHANGED <<server, issued, records, answers, unchecked, revoked>>,
           c.seen \subseteq 1..issued, c.todo \subseteq 1..issued,
           c.op = "revoke" => c.id \in 1..issued,
           c.pc = "waiting" => \A u \in Task \ {t} : calls[u].pc # "waiting",
           c.op # "grant" \/ t \in WillGrant \/ (c.pc \in {"sending", "waiting"} /\ c.served)
    PROVE  PasswordInv'
<1>1. calls \in [Task -> Call]
  BY DEF PasswordInv, PasswordTypeOK
<1>2. calls' \in [Task -> Call] /\ calls'[t] = c /\ \A u \in Task \ {t} : SameCall(u)
  BY <1>1 DEF SameCall
<1>3. /\ records' \subseteq 1..issued /\ revoked' \subseteq 1..issued /\ revoked' \cap server' = {}
      /\ unchecked' \in BOOLEAN
  BY DEF PasswordInv, PasswordTypeOK, RevokedIsGone
<1>4. t \in WillGrant' => t \in WillGrant
  BY <1>2 DEF WillGrant
<1> QED BY <1>2, <1>3, <1>4, CallStep

\* Revocations and clean-up runs that begin, requests that are sent or fail.
LEMMA RequestKeeps ==
    ASSUME PasswordInv, NEW t \in Task
    PROVE  /\ \A id \in AuthId : RevokeStarts(t, id) => PasswordInv'
           /\ \A spent \in SUBSET records : CleanupStarts(t, spent) => PasswordInv'
           /\ Send(t) => PasswordInv'
           /\ CallFails(t) => PasswordInv'
<1>1. /\ calls \in [Task -> Call] /\ calls[t] \in Call /\ Idle \in Call
      /\ issued \in 0..MaxIssued /\ MaxIssued \in Nat
  BY PasswordAssumption, OverFacts DEF PasswordInv, PasswordTypeOK
<1>2. /\ calls[t].todo \subseteq 1..issued /\ calls[t].seen \subseteq 1..issued
      /\ calls[t].op = "revoke" => calls[t].id \in 1..issued
  BY DEF PasswordInv, IdsIssued
<1>3. ASSUME NEW id \in AuthId, RevokeStarts(t, id) PROVE PasswordInv'
  <2> DEFINE c == [Idle EXCEPT !.op = "revoke", !.pc = "sending", !.id = id,
                               !.todo = calls[t].todo \ {id}]
  <2>1. id \in 1..issued
    BY <1>2, <1>3 DEF RevokeStarts, PasswordInv, PasswordTypeOK
  <2>2. id \in 0..MaxIssued /\ calls[t].todo \ {id} \in SUBSET AuthId
    BY <1>1 DEF AuthId, Call
  <2>3. c \in Call
    BY <1>1, <2>2 DEF Call
  <2>4. c.op = "revoke" /\ c.pc = "sending" /\ c.id = id /\ c.seen = {} /\ c.todo = calls[t].todo \ {id}
    BY DEF Idle
  <2>5. /\ calls' = [calls EXCEPT ![t] = c]
        /\ UNCHANGED <<server, issued, records, answers, unchecked, revoked>>
    BY <1>3 DEF RevokeStarts
  <2> HIDE DEF c
  <2> QED BY <1>2, <2>1, <2>3, <2>4, <2>5, LocalStepKeeps
<1>4. ASSUME NEW spent \in SUBSET records, CleanupStarts(t, spent) PROVE PasswordInv'
  <2> DEFINE c == [Idle EXCEPT !.op = "cleanup", !.pc = "cleaning", !.todo = spent]
  <2>1. spent \subseteq 1..issued
    BY DEF PasswordInv, PasswordTypeOK
  <2>2. spent \in SUBSET AuthId
    BY <1>1, <2>1 DEF AuthId
  <2>3. c \in Call
    BY <1>1, <2>2 DEF Call
  <2>4. c.op = "cleanup" /\ c.pc = "cleaning" /\ c.seen = {} /\ c.todo = spent
    BY DEF Idle
  <2>5. /\ calls' = [calls EXCEPT ![t] = c]
        /\ UNCHANGED <<server, issued, records, answers, unchecked, revoked>>
    BY <1>4 DEF CleanupStarts
  <2> HIDE DEF c
  <2> QED BY <2>1, <2>3, <2>4, <2>5, LocalStepKeeps
<1>5. ASSUME Send(t) PROVE PasswordInv'
  <2> DEFINE c == [calls[t] EXCEPT !.pc = "waiting"]
  <2>1. /\ calls' = [calls EXCEPT ![t] = c]
        /\ UNCHANGED <<server, issued, records, answers, unchecked, revoked>>
        /\ calls[t].pc = "sending" /\ \A u \in Task : calls[u].pc # "waiting"
    BY <1>5 DEF Send
  <2>2. /\ c \in Call /\ c.op = calls[t].op /\ c.pc = "waiting" /\ c.seen = calls[t].seen
        /\ c.todo = calls[t].todo /\ c.id = calls[t].id /\ c.served = calls[t].served
    BY <1>1 DEF Call
  <2> HIDE DEF c
  <2>3. c.op # "grant" \/ t \in WillGrant \/ c.served
    BY <2>1, <2>2 DEF WillGrant
  <2>4. c.served \in BOOLEAN
    BY <2>2 DEF Call
  <2> QED BY <1>2, <2>1, <2>2, <2>3, <2>4, LocalStepKeeps
<1>6. ASSUME CallFails(t) PROVE PasswordInv'
  <2>1. /\ calls' = [calls EXCEPT ![t] = Over(t)]
        /\ UNCHANGED <<server, issued, records, answers, unchecked, revoked>>
    BY <1>6 DEF CallFails
  <2>2. PasswordTypeOK
    BY DEF PasswordInv
  <2> QED BY <1>2, <2>1, <2>2, OverFacts, LocalStepKeeps
<1> QED BY <1>3, <1>4, <1>5, <1>6

\* The server acts: a password it makes uses up the room of the call that asked
\* for it, and one it deletes is not in force, as its answer says.
LEMMA ServerActsKeeps ==
    ASSUME PasswordInv, NEW t \in Task, ServerActs(t)
    PROVE  PasswordInv'
<1> DEFINE c == [calls[t] EXCEPT !.served = TRUE]
<1>1. /\ calls[t].pc = "waiting" /\ ~calls[t].served /\ calls' = [calls EXCEPT ![t] = c]
      /\ UNCHANGED <<records, unchecked, revoked>>
  BY DEF ServerActs
<1>2. /\ calls \in [Task -> Call] /\ calls[t] \in Call /\ issued \in 0..MaxIssued
      /\ MaxIssued \in Nat /\ server \subseteq 1..issued
      /\ answers \subseteq [op : {"grant", "revoke"}, id : AuthId]
      /\ records \subseteq 1..issued /\ revoked \subseteq 1..issued /\ unchecked \in BOOLEAN
      /\ \A v, u \in Task : calls[v].pc = "waiting" /\ calls[u].pc = "waiting" => v = u
  BY PasswordAssumption DEF PasswordInv, PasswordTypeOK
<1>3. /\ c \in Call /\ c.op = calls[t].op /\ c.pc = "waiting" /\ c.seen = calls[t].seen
      /\ c.todo = calls[t].todo /\ c.id = calls[t].id /\ c.served
  BY <1>1, <1>2 DEF Call
<1> HIDE DEF c
<1>4. /\ calls' \in [Task -> Call] /\ calls'[t] = c
      /\ \A u \in Task : /\ calls'[u].op = calls[u].op /\ calls'[u].pc = calls[u].pc
                         /\ calls'[u].id = calls[u].id /\ calls'[u].seen = calls[u].seen
                         /\ calls'[u].todo = calls[u].todo
                         /\ (u # t => calls'[u].served = calls[u].served)
  BY <1>1, <1>2, <1>3
<1>5. /\ \A v, u \in Task : calls'[v].pc = "waiting" /\ calls'[u].pc = "waiting" => v = u
  BY <1>2, <1>4
<1>6. WillGrant' \subseteq WillGrant \ {t}
  <2>1. t \notin WillGrant'
    BY <1>3, <1>4 DEF WillGrant
  <2>2. ASSUME NEW u \in Task, u # t, u \in WillGrant' PROVE u \in WillGrant
    BY <2>2, <1>4 DEF WillGrant, AtLimit
  <2> QED BY <2>1, <2>2 DEF WillGrant
<1>7. CASE /\ calls[t].op = "grant" /\ issued < MaxIssued
           /\ issued' = issued + 1
           /\ server' = server \cup {issued + 1}
           /\ answers' = answers \cup {[op |-> "grant", id |-> issued + 1]}
  <2>1. /\ issued' \in 0..MaxIssued /\ server' \subseteq 1..issued' /\ 1..issued \subseteq 1..issued'
        /\ issued + 1 \in AuthId /\ issued + 1 \notin 1..issued
    BY <1>2, <1>7 DEF AuthId
  <2>2. answers' \subseteq [op : {"grant", "revoke"}, id : AuthId]
    BY <1>2, <1>7, <2>1
  <2>3. PasswordTypeOK'
    BY <1>1, <1>2, <1>4, <1>5, <2>1, <2>2 DEF PasswordTypeOK
  <2>4. IdsIssued'
    <3>1. ASSUME NEW u \in Task
          PROVE  /\ calls'[u].seen \subseteq 1..issued' /\ calls'[u].todo \subseteq 1..issued'
                 /\ calls'[u].op = "revoke" => calls'[u].id \in 1..issued'
      BY <1>4, <2>1 DEF PasswordInv, IdsIssued
    <3>2. ASSUME NEW a \in answers'
          PROVE  a.id \in 1..issued' /\ (a.op = "revoke" => a.id \notin server')
      <4>1. CASE a \in answers
        <5>1. a.id \in 1..issued /\ (a.op = "revoke" => a.id \notin server)
          BY <4>1 DEF PasswordInv, IdsIssued
        <5> QED BY <5>1, <2>1, <1>7
      <4>2. CASE a = [op |-> "grant", id |-> issued + 1]
        BY <4>2, <1>2, <1>7
      <4> QED BY <4>1, <4>2, <1>7
    <3> QED BY <3>1, <3>2 DEF IdsIssued
  <2>5. RevokedIsGone'
    BY <1>1, <1>2, <1>7, <2>1 DEF PasswordInv, RevokedIsGone
  <2>6. RoomLeft'
    <3>1. PasswordTypeOK /\ RoomLeft
      BY DEF PasswordInv
    <3>2. t \in WillGrant
      BY <1>1, <1>7 DEF WillGrant
    <3>3. IsFiniteSet(WillGrant \ {t}) /\ Cardinality(WillGrant \ {t}) = Cardinality(WillGrant) - 1
      BY <3>1, <3>2, PasswordSetsFinite, FS_RemoveElement
    <3>4. /\ IsFiniteSet(WillGrant')
          /\ Cardinality(WillGrant') <= Cardinality(WillGrant \ {t})
      BY <1>6, <3>3, FS_Subset
    <3>5. Cardinality(WillGrant') \in Nat
      BY <3>4, FS_CardinalityType
    <3>6. issued + 1 \notin server
      BY <1>2, <2>1
    <3>7. Cardinality(server') = Cardinality(server) + 1
      BY <1>7, <3>1, <3>6, PasswordSetsFinite, FS_AddElement
    <3> QED BY <1>1, <3>1, <3>3, <3>4, <3>5, <3>7, PasswordSetsFinite DEF RoomLeft
  <2> QED BY <2>3, <2>4, <2>5, <2>6 DEF PasswordInv
<1>8. CASE /\ calls[t].op = "revoke"
           /\ server' = server \ {calls[t].id}
           /\ answers' = answers \cup {[op |-> "revoke", id |-> calls[t].id]}
           /\ UNCHANGED issued
  <2>1. calls[t].id \in 1..issued /\ calls[t].id \in AuthId
    BY <1>2, <1>8 DEF PasswordInv, IdsIssued, AuthId
  <2>2. answers' \subseteq [op : {"grant", "revoke"}, id : AuthId]
    BY <1>2, <1>8, <2>1
  <2>3. PasswordTypeOK'
    BY <1>1, <1>2, <1>4, <1>5, <1>8, <2>2 DEF PasswordTypeOK
  <2>4. IdsIssued'
    <3>1. ASSUME NEW u \in Task
          PROVE  /\ calls'[u].seen \subseteq 1..issued' /\ calls'[u].todo \subseteq 1..issued'
                 /\ calls'[u].op = "revoke" => calls'[u].id \in 1..issued'
      BY <1>4, <1>8 DEF PasswordInv, IdsIssued
    <3>2. ASSUME NEW a \in answers'
          PROVE  a.id \in 1..issued' /\ (a.op = "revoke" => a.id \notin server')
      BY <1>8, <2>1 DEF PasswordInv, IdsIssued
    <3> QED BY <3>1, <3>2 DEF IdsIssued
  <2>5. RevokedIsGone'
    BY <1>1, <1>8 DEF PasswordInv, RevokedIsGone
  <2>6. RoomLeft'
    BY <1>1, <1>6, <1>8, <2>3, RoomKept DEF PasswordInv
  <2> QED BY <2>3, <2>4, <2>5, <2>6 DEF PasswordInv
<1> QED BY <1>7, <1>8 DEF ServerActs

\* An answer arrives: the request that takes it ends.
LEMMA AnsweredKeeps ==
    ASSUME PasswordInv, NEW a \in answers, Answered(a)
    PROVE  PasswordInv'
<1>1. answers' = answers \ {a} /\ UNCHANGED <<server, issued, unchecked>>
  BY DEF Answered
<1>2. /\ calls \in [Task -> Call] /\ issued \in Nat
      /\ records \subseteq 1..issued /\ revoked \subseteq 1..issued /\ unchecked \in BOOLEAN
      /\ revoked \cap server = {}
      /\ a \in [op : {"grant", "revoke"}, id : AuthId]
  BY PasswordAssumption DEF PasswordInv, PasswordTypeOK, RevokedIsGone
<1>3. a.id \in 1..issued /\ (a.op = "revoke" => a.id \notin server)
  BY DEF PasswordInv, IdsIssued
<1>4. ASSUME NEW t \in Task, calls[t].pc = "waiting", Granted(t, a) \/ Revoked(t, a) PROVE PasswordInv'
  <2>1. PasswordTypeOK
    BY DEF PasswordInv
  <2>2. /\ calls' \in [Task -> Call] /\ calls'[t] = Over(t) /\ \A u \in Task \ {t} : SameCall(u)
    <3>1. CASE calls' = [calls EXCEPT ![t] = Over(t)]
      BY <3>1, <1>2, <2>1, OverFacts DEF SameCall
    <3>2. CASE calls' = [Detached EXCEPT ![t] = Over(t)]
      <4>1. Detached \in [Task -> Call] /\ \A u \in Task : Detached[u] = [calls[u] EXCEPT !.attached = FALSE]
        BY <1>2 DEF Detached, Call
      <4> QED BY <3>2, <1>2, <2>1, <4>1, OverFacts DEF SameCall, Call
    <3> QED BY <1>4, <3>1, <3>2 DEF Granted, Revoked
  <2>3. /\ calls'[t].op \in {"none", "cleanup"} /\ calls'[t].pc \in {"idle", "cleaning"}
        /\ calls'[t].seen = {} /\ calls'[t].todo \subseteq 1..issued
    BY <2>1, <2>2, OverFacts DEF PasswordInv, IdsIssued
  <2>4. t \notin WillGrant'
    BY <2>3 DEF WillGrant
  <2>5. records' \subseteq 1..issued
    BY <1>2, <1>3, <1>4 DEF Granted, Revoked
  <2>6. revoked' \subseteq 1..issued /\ revoked' \cap server' = {}
    <3>1. CASE revoked' = revoked
      BY <3>1, <1>1, <1>2
    <3>2. CASE a.op = "revoke" /\ revoked' = revoked \cup {a.id}
      BY <3>2, <1>1, <1>2, <1>3
    <3> QED BY <1>4, <3>1, <3>2 DEF Granted, Revoked
  <2> QED BY <1>1, <1>2, <2>2, <2>3, <2>4, <2>5, <2>6, CallStep
<1>5. CASE /\ \A t \in Task : calls[t].pc # "waiting"
           /\ UNCHANGED <<records, calls, revoked>>
  <2>1. PasswordTypeOK' /\ IdsIssued' /\ RevokedIsGone'
    BY <1>1, <1>5 DEF PasswordInv, PasswordTypeOK, IdsIssued, RevokedIsGone
  <2>2. WillGrant' = WillGrant
    BY <1>5 DEF WillGrant, AtLimit
  <2> QED BY <1>1, <2>1, <2>2 DEF PasswordInv, RoomLeft
<1> QED BY <1>4, <1>5 DEF Answered

\* The invariant of the passwords is inductive.
LEMMA PasswordInductive == PasswordInv /\ [PasswordNext]_passwordVars => PasswordInv'
<1> SUFFICES ASSUME PasswordInv, [PasswordNext]_passwordVars PROVE PasswordInv'
  OBVIOUS
<1>1. CASE UNCHANGED passwordVars
  BY <1>1 DEF passwordVars, PasswordInv, PasswordTypeOK, IdsIssued, RevokedIsGone, RoomLeft,
              WillGrant, AtLimit
<1> QED BY <1>1, ReadStartsKeeps, ReadDoneKeeps, ReadFailsKeeps, RequestKeeps, ServerActsKeeps,
           AnsweredKeeps DEF PasswordNext

\* And it holds at the start.
LEMMA PasswordStart == PasswordInit => PasswordInv
<1> SUFFICES ASSUME PasswordInit PROVE PasswordInv
  OBVIOUS
<1>1. \A t \in Task : calls[t] = Idle
  BY DEF PasswordInit
<1>2. Idle \in Call
  BY PasswordAssumption DEF Idle, Call
<1>3. PasswordTypeOK
  <2>1. calls \in [Task -> Call]
    BY <1>2 DEF PasswordInit
  <2>2. \A t \in Task : calls[t].pc # "waiting"
    BY <1>1 DEF Idle
  <2>3. /\ server \subseteq 1..issued /\ records \subseteq 1..issued /\ revoked \subseteq 1..issued
        /\ issued \in 0..MaxIssued /\ answers \subseteq [op : {"grant", "revoke"}, id : AuthId]
    BY PasswordAssumption DEF PasswordInit
  <2>4. unchecked \in BOOLEAN
    BY DEF PasswordInit
  <2> QED BY <2>1, <2>2, <2>3, <2>4 DEF PasswordTypeOK
<1>4. IdsIssued /\ RevokedIsGone
  BY <1>1 DEF PasswordInit, IdsIssued, RevokedIsGone, Idle
<1>5. WillGrant = {}
  BY <1>1 DEF WillGrant, Idle
<1>6. RoomLeft
  <2>1. Cardinality({}) = 0
    BY FS_EmptySet
  <2> QED BY <1>3, <1>5, <2>1, PasswordSetsFinite DEF RoomLeft, PasswordInit
<1> QED BY <1>3, <1>4, <1>6 DEF PasswordInv

(***************************************************************************)
(* temp_password_manager.grant: unless a table could not be read, the lock *)
(* never has more than one password above MAX_ACTIVE per further call that *)
(* runs at the same time, for any number of calls and whatever is granted, *)
(* revoked, timed out and retried between a read and its request.          *)
(***************************************************************************)
THEOREM OverrunBounded == PasswordSpec => []LimitOverrunBounded
<1>1. PasswordInv => LimitOverrunBounded
  <2> SUFFICES ASSUME PasswordInv PROVE LimitOverrunBounded
    OBVIOUS
  <2>1. PasswordTypeOK /\ RoomLeft
    BY DEF PasswordInv
  <2> QED BY <2>1, PasswordSetsFinite DEF RoomLeft, LimitOverrunBounded
<1> QED BY <1>1, PasswordStart, PasswordInductive, PTL DEF PasswordSpec

(***************************************************************************)
(* temp_password_manager.revoke: a password reported as deleted on the     *)
(* answer to its own request is out of force at the server, for good.      *)
(***************************************************************************)
THEOREM RevokedStayGone == PasswordSpec => []RevokedIsGone
<1>1. PasswordInv => RevokedIsGone
  BY DEF PasswordInv
<1> QED BY <1>1, PasswordStart, PasswordInductive, PTL DEF PasswordSpec

-----------------------------------------------------------------------------
(* The recordings *)

\* A directory: no two names share an inode.
Directory ==
    {d \in [Name -> Inode \cup {NoInode}] :
        \A m, n \in Name : d[m] = d[n] /\ d[m] # NoInode => m = n}

\* The states of a thread.
Thread == [pc : {"idle", "open", "write", "transcode", "package", "finish"},
           file : Inode \cup {NoInode}, done : SUBSET Chunk]

\* The type invariant in these terms.
LEMMA ArchiveTypes ==
    ArchiveTypeOK <=> /\ dir \in Directory /\ content \in [Inode -> SUBSET Chunk]
                      /\ worker \in [Worker -> Thread] /\ overlapped \in BOOLEAN
BY DEF ArchiveTypeOK, Directory, Thread

\* Deleting, making and renaming a file gives a directory.
LEMMA DirectoryChanges ==
    ASSUME NEW d \in Directory, NEW n \in Name
    PROVE  /\ [d EXCEPT ![n] = NoInode] \in Directory
           /\ \A i \in Inode : (\A m \in Name \ {n} : d[m] # i) => [d EXCEPT ![n] = i] \in Directory
           /\ \A m \in Name \ {n} : [d EXCEPT ![n] = d[m], ![m] = NoInode] \in Directory
<1>1. [d EXCEPT ![n] = NoInode] \in Directory
  BY DEF Directory
<1>2. ASSUME NEW i \in Inode, \A m \in Name \ {n} : d[m] # i PROVE [d EXCEPT ![n] = i] \in Directory
  BY <1>2 DEF Directory
<1>3. ASSUME NEW m \in Name \ {n} PROVE [d EXCEPT ![n] = d[m], ![m] = NoInode] \in Directory
  BY <1>3 DEF Directory
<1> QED BY <1>1, <1>2, <1>3

\* The next state keeps the content of every file that has a name or is open.
LEMMA BecomesFacts ==
    ASSUME NEW d \in Directory, NEW c \in [Inode -> SUBSET Chunk],
           NEW ws \in [Worker -> Thread], overlapped' \in BOOLEAN, Becomes(d, c, ws)
    PROVE  /\ ArchiveTypeOK' /\ dir' = d /\ worker' = ws
           /\ \A n \in Name : d[n] \in Inode => content'[d[n]] = c[d[n]]
           /\ \A w \in Worker : ws[w].file \in Inode => content'[ws[w].file] = c[ws[w].file]
<1>1. /\ dir' = d /\ worker' = ws
      /\ content' = [i \in Inode |-> IF \/ \E n \in Name : d[n] = i
                                        \/ \E w \in Worker : ws[w].file = i
                                      THEN c[i] ELSE {}]
  BY DEF Becomes
<1>2. content' \in [Inode -> SUBSET Chunk]
  BY <1>1
<1>3. ArchiveTypeOK'
  BY <1>1, <1>2 DEF ArchiveTypeOK, Directory, Thread
<1>4. \A n \in Name : d[n] \in Inode => content'[d[n]] = c[d[n]]
  BY <1>1
<1>5. \A w \in Worker : ws[w].file \in Inode => content'[ws[w].file] = c[ws[w].file]
  BY <1>1
<1> QED BY <1>1, <1>3, <1>4, <1>5

\* No inode is the missing one.
LEMMA InodeFacts ==
    /\ NoInode \notin Inode
    /\ "h264.part" \in Name /\ "h264" \in Name /\ "mp4.part" \in Name /\ "mp4" \in Name
    /\ \A x \in Inode \cup {NoInode} : x # NoInode <=> x \in Inode
BY ArchiveAssumption DEF NoInode, Name

\* A step of thread w on the files: the types hold after it, and so does the
\* invariant if the thread was alone, is where its files say and what is listed
\* is whole.
LEMMA ThreadStep ==
    ASSUME ArchiveInv, NEW w \in Worker, NEW x \in Thread, NEW d \in Directory,
           NEW c \in [Inode -> SUBSET Chunk], Becomes(d, c, [worker EXCEPT ![w] = x]),
           UNCHANGED overlapped, worker[w].pc # "idle",
           ~overlapped =>
             /\ \A n \in {"h264", "mp4"} : d[n] \in Inode => c[d[n]] = Chunk
             /\ x.pc \in {"idle", "open", "transcode"} => x = [Resting EXCEPT !.pc = x.pc]
             /\ x.pc = "write" =>
                   x.file \in Inode /\ x.file = d["h264.part"] /\ x.done \subseteq c[x.file]
             /\ x.pc \in {"package", "finish"} =>
                   x.file \in Inode /\ x.file = d["mp4.part"] /\ x.done = Chunk
             /\ x.pc = "finish" => c[x.file] = Chunk
    PROVE  ArchiveInv'
<1>1. worker \in [Worker -> Thread] /\ overlapped' \in BOOLEAN
  BY ArchiveTypes DEF ArchiveInv
<1> DEFINE ws == [worker EXCEPT ![w] = x]
<1>2. /\ ws \in [Worker -> Thread] /\ Becomes(d, c, ws)
      /\ ws[w] = x /\ \A u \in Worker \ {w} : ws[u] = worker[u]
  BY <1>1
<1> HIDE DEF ws
<1>3. /\ ArchiveTypeOK' /\ dir' = d /\ worker' = ws
      /\ \A n \in Name : d[n] \in Inode => content'[d[n]] = c[d[n]]
      /\ \A u \in Worker : ws[u].file \in Inode => content'[ws[u].file] = c[ws[u].file]
  BY <1>1, <1>2, BecomesFacts
<1>4. worker'[w] = x /\ \A u \in Worker \ {w} : worker'[u] = worker[u]
  BY <1>2, <1>3
<1>5. x.file \in Inode => content'[x.file] = c[x.file]
  BY <1>2, <1>3
<1>6. ASSUME ~overlapped' PROVE Alone' /\ ListedIsWhole'
  <2>1. ~overlapped /\ \A u \in Worker \ {w} : worker[u].pc = "idle"
    BY <1>6 DEF ArchiveInv, Alone
  <2>2. OwnFile(w)'
    BY <1>3, <1>4, <1>5, <2>1 DEF OwnFile
  <2>3. ASSUME NEW u \in Worker \ {w} PROVE OwnFile(u)'
    BY <1>4, <2>1, <2>3 DEF ArchiveInv, Alone, OwnFile
  <2>4. Alone'
    BY <1>4, <2>1, <2>2, <2>3 DEF Alone
  <2>5. ASSUME NEW n \in {"h264", "mp4"}, Exists(n)' PROVE content'[dir'[n]] = Chunk
    <3>1. d[n] \in Inode
      BY <1>3, <2>5, InodeFacts DEF Exists, Directory
    <3> QED BY <1>3, <2>1, <3>1, InodeFacts
  <2> QED BY <2>4, <2>5 DEF ListedIsWhole
<1> QED BY <1>3, <1>6 DEF ArchiveInv, Alone, ListedIsWhole

\* What the invariant says of a thread that works alone.
LEMMA AloneFacts ==
    ASSUME ArchiveInv
    PROVE  /\ dir \in Directory /\ content \in [Inode -> SUBSET Chunk]
           /\ worker \in [Worker -> Thread] /\ overlapped \in BOOLEAN
           /\ ~overlapped =>
                /\ \A n \in {"h264", "mp4"} : dir[n] \in Inode => content[dir[n]] = Chunk
                /\ \A w \in Worker : OwnFile(w)
BY ArchiveTypes, InodeFacts DEF ArchiveInv, Alone, ListedIsWhole, Exists

\* Opening a .part file: the inode is its own, and no other name's.
LEMMA OpensFacts ==
    ASSUME ArchiveInv, NEW n \in {"h264.part", "mp4.part"}, NEW i \in Inode,
           IF Exists(n) THEN i = dir[n] ELSE i \in Unused /\ \A k \in Unused : i <= k
    PROVE  /\ [dir EXCEPT ![n] = i] \in Directory
           /\ [content EXCEPT ![i] = {}] \in [Inode -> SUBSET Chunk]
           /\ ~overlapped =>
                \A m \in {"h264", "mp4"} :
                    [dir EXCEPT ![n] = i][m] \in Inode
                        => [content EXCEPT ![i] = {}][[dir EXCEPT ![n] = i][m]] = Chunk
<1>1. /\ dir \in Directory /\ content \in [Inode -> SUBSET Chunk]
      /\ ~overlapped => \A m \in {"h264", "mp4"} : dir[m] \in Inode => content[dir[m]] = Chunk
  BY AloneFacts
<1>2. n \in Name /\ \A m \in {"h264", "mp4"} : m \in Name \ {n}
  BY InodeFacts
<1>3. \A m \in Name \ {n} : dir[m] # i
  BY <1>1, <1>2, InodeFacts DEF Directory, Exists, Unused
<1>4. [dir EXCEPT ![n] = i] \in Directory
  BY <1>1, <1>2, <1>3, DirectoryChanges
<1>5. [content EXCEPT ![i] = {}] \in [Inode -> SUBSET Chunk]
  BY <1>1
<1>6. ASSUME NEW m \in {"h264", "mp4"} PROVE [dir EXCEPT ![n] = i][m] = dir[m] /\ dir[m] # i
  BY <1>1, <1>2, <1>3 DEF Directory
<1>7. \A j \in Inode : j # i => [content EXCEPT ![i] = {}][j] = content[j]
  BY <1>1
<1> QED BY <1>1, <1>4, <1>5, <1>6, <1>7

\* The download.
LEMMA DownloadKeeps ==
    ASSUME ArchiveInv, NEW w \in Worker, Download(w)
    PROVE  ArchiveInv'
<1>1. /\ worker[w].pc = "open" /\ UNCHANGED overlapped
      /\ Opens(w, "h264.part", "write", {})
  BY DEF Download
<1>2. PICK i \in Inode :
        /\ IF Exists("h264.part") THEN i = dir["h264.part"] ELSE i \in Unused /\ \A k \in Unused : i <= k
        /\ Becomes([dir EXCEPT !["h264.part"] = i], [content EXCEPT ![i] = {}],
                   [worker EXCEPT ![w] = [pc |-> "write", file |-> i, done |-> {}]])
  BY <1>1 DEF Opens
<1> DEFINE d == [dir EXCEPT !["h264.part"] = i]
           c == [content EXCEPT ![i] = {}]
           x == [pc |-> "write", file |-> i, done |-> {}]
<1>3. /\ d \in Directory /\ c \in [Inode -> SUBSET Chunk]
      /\ ~overlapped => \A m \in {"h264", "mp4"} : d[m] \in Inode => c[d[m]] = Chunk
  BY <1>2, OpensFacts
<1>4. x \in Thread /\ x.pc = "write" /\ x.file = i /\ x.done = {}
  BY DEF Thread
<1>5. d["h264.part"] = i
  BY InodeFacts, AloneFacts DEF Directory
<1>6. Becomes(d, c, [worker EXCEPT ![w] = x])
  BY <1>2
<1> HIDE DEF d, c, x
<1> QED BY <1>1, <1>3, <1>4, <1>5, <1>6, ThreadStep

\* A chunk is written.
LEMMA WriteKeeps ==
    ASSUME ArchiveInv, NEW w \in Worker, Write(w)
    PROVE  ArchiveInv'
<1>1. worker[w].pc = "write" /\ UNCHANGED overlapped
  BY DEF Write
<1>2. PICK k \in Chunk : Becomes(dir, [content EXCEPT ![worker[w].file] = @ \cup {k}],
                                 [worker EXCEPT ![w].done = @ \cup {k}])
  BY DEF Write
<1> DEFINE c == [content EXCEPT ![worker[w].file] = @ \cup {k}]
           x == [worker[w] EXCEPT !.done = @ \cup {k}]
<1>3. /\ dir \in Directory /\ content \in [Inode -> SUBSET Chunk]
      /\ worker \in [Worker -> Thread] /\ worker[w] \in Thread
      /\ ~overlapped => /\ \A n \in {"h264", "mp4"} : dir[n] \in Inode => content[dir[n]] = Chunk
                        /\ OwnFile(w)
  BY AloneFacts
<1>4. c \in [Inode -> SUBSET Chunk] /\ \A j \in Inode : content[j] \subseteq c[j]
  BY <1>3
<1>5. x \in Thread /\ x.pc = "write" /\ x.file = worker[w].file /\ x.done = worker[w].done \cup {k}
  BY <1>1, <1>3 DEF Thread
<1>6. worker[w].file \in Inode => k \in c[worker[w].file]
  BY <1>3
<1>7. Becomes(dir, c, [worker EXCEPT ![w] = x])
  BY <1>2, <1>3
<1> HIDE DEF c, x
<1>8. ~overlapped => \A n \in {"h264", "mp4"} : dir[n] \in Inode => c[dir[n]] = Chunk
  BY <1>3, <1>4
<1>9. ~overlapped => /\ x.file \in Inode /\ x.file = dir["h264.part"] /\ x.done \subseteq c[x.file]
  BY <1>1, <1>3, <1>4, <1>5, <1>6 DEF OwnFile
<1> QED BY <1>1, <1>3, <1>4, <1>5, <1>7, <1>8, <1>9, ThreadStep

\* A thread that rests, or is about to repackage, has no file open.
LEMMA RestingFacts ==
    /\ Resting \in Thread /\ Resting.pc = "idle" /\ Resting = [Resting EXCEPT !.pc = "idle"]
    /\ \A pc \in {"open", "transcode"} :
          /\ [Resting EXCEPT !.pc = pc] \in Thread /\ [Resting EXCEPT !.pc = pc].pc = pc
BY DEF Resting, Thread

\* A thread ends, with what is listed as whole as before.
LEMMA EndKeeps ==
    ASSUME ArchiveInv, NEW w \in Worker, worker[w].pc # "idle", UNCHANGED overlapped,
           NEW d \in Directory, Becomes(d, content, Ended(w)),
           ~overlapped => \A n \in {"h264", "mp4"} : d[n] \in Inode => content[d[n]] = Chunk
    PROVE  ArchiveInv'
<1>1. content \in [Inode -> SUBSET Chunk]
  BY AloneFacts
<1>2. Becomes(d, content, [worker EXCEPT ![w] = Resting])
  BY DEF Ended
<1> QED BY <1>1, <1>2, RestingFacts, ThreadStep

\* The download ends, well or badly.
LEMMA DownloadEnds ==
    ASSUME ArchiveInv, NEW w \in Worker, Downloaded(w) \/ DownloadFails(w)
    PROVE  ArchiveInv'
<1>1. UNCHANGED overlapped /\ worker[w].pc # "idle"
  BY DEF Downloaded, DownloadFails
<1>2. /\ dir \in Directory /\ content \in [Inode -> SUBSET Chunk]
      /\ ~overlapped => /\ \A n \in {"h264", "mp4"} : dir[n] \in Inode => content[dir[n]] = Chunk
                        /\ OwnFile(w)
  BY AloneFacts
<1>3. CASE DownloadFails(w)
  <2> DEFINE d == [dir EXCEPT !["h264.part"] = NoInode]
  <2>1. Becomes(d, content, Ended(w))
    BY <1>3 DEF DownloadFails, Unlinked
  <2>2. d \in Directory
    BY <1>2, InodeFacts, DirectoryChanges
  <2>3. d["h264"] = dir["h264"] /\ d["mp4"] = dir["mp4"]
    BY <1>2, InodeFacts DEF Directory
  <2> HIDE DEF d
  <2> QED BY <1>1, <1>2, <2>1, <2>2, <2>3, EndKeeps
<1>4. CASE Downloaded(w) /\ ~Exists("h264.part")
  <2>1. Becomes(dir, content, Ended(w))
    BY <1>4 DEF Downloaded
  <2> QED BY <1>1, <1>2, <2>1, EndKeeps
<1>5. CASE Downloaded(w) /\ Exists("h264.part")
  <2> DEFINE d == [dir EXCEPT !["h264"] = dir["h264.part"], !["h264.part"] = NoInode]
             x == [Resting EXCEPT !.pc = "transcode"]
  <2>1. Becomes(d, content, [worker EXCEPT ![w] = x])
    BY <1>5 DEF Downloaded, Renamed
  <2>2. d \in Directory
    BY <1>2, InodeFacts, DirectoryChanges
  <2>3. d["h264"] = dir["h264.part"] /\ d["mp4"] = dir["mp4"]
    BY <1>2, InodeFacts DEF Directory
  <2>4. x \in Thread /\ x.pc = "transcode" /\ x = [Resting EXCEPT !.pc = x.pc]
    BY RestingFacts
  <2>5. worker[w].pc = "write" /\ worker[w].done = Chunk
    BY <1>5 DEF Downloaded
  <2>6. ~overlapped => content[dir["h264.part"]] = Chunk
    BY <1>2, <2>5, InodeFacts DEF OwnFile
  <2> HIDE DEF d, x
  <2> QED BY <1>1, <1>2, <2>1, <2>2, <2>3, <2>4, <2>6, ThreadStep
<1> QED BY <1>3, <1>4, <1>5

\* Repackaging starts, or does not.
LEMMA TranscodeKeeps ==
    ASSUME ArchiveInv, NEW w \in Worker, Transcode(w) \/ NotTranscoded(w)
    PROVE  ArchiveInv'
<1>1. UNCHANGED overlapped /\ worker[w].pc = "transcode"
  BY DEF Transcode, NotTranscoded
<1>2. /\ dir \in Directory /\ content \in [Inode -> SUBSET Chunk]
      /\ ~overlapped => /\ \A n \in {"h264", "mp4"} : dir[n] \in Inode => content[dir[n]] = Chunk
                        /\ OwnFile(w)
  BY AloneFacts
<1>3. CASE NotTranscoded(w)
  BY <1>1, <1>2, <1>3, EndKeeps DEF NotTranscoded
<1>4. CASE Transcode(w)
  <2> DEFINE h == content[dir["h264"]]
  <2>1. Exists("h264") /\ Opens(w, "mp4.part", "package", h)
    BY <1>4 DEF Transcode
  <2>2. dir["h264"] \in Inode
    BY <1>2, <2>1, InodeFacts DEF Exists, Directory
  <2>3. h \subseteq Chunk /\ (~overlapped => h = Chunk)
    BY <1>2, <2>2
  <2> HIDE DEF h
  <2>4. PICK i \in Inode :
          /\ IF Exists("mp4.part") THEN i = dir["mp4.part"] ELSE i \in Unused /\ \A k \in Unused : i <= k
          /\ Becomes([dir EXCEPT !["mp4.part"] = i], [content EXCEPT ![i] = {}],
                     [worker EXCEPT ![w] = [pc |-> "package", file |-> i, done |-> h]])
    BY <2>1 DEF Opens
  <2> DEFINE d == [dir EXCEPT !["mp4.part"] = i]
             c == [content EXCEPT ![i] = {}]
             x == [pc |-> "package", file |-> i, done |-> h]
  <2>5. /\ d \in Directory /\ c \in [Inode -> SUBSET Chunk]
        /\ ~overlapped => \A m \in {"h264", "mp4"} : d[m] \in Inode => c[d[m]] = Chunk
    BY <2>4, OpensFacts
  <2>6. x \in Thread /\ x.pc = "package" /\ x.file = i /\ x.done = h
    BY <2>3 DEF Thread
  <2>7. d["mp4.part"] = i
    BY <1>2, InodeFacts DEF Directory
  <2>8. Becomes(d, c, [worker EXCEPT ![w] = x])
    BY <2>4
  <2> HIDE DEF d, c, x
  <2> QED BY <1>1, <2>3, <2>5, <2>6, <2>7, <2>8, ThreadStep
<1> QED BY <1>3, <1>4

\* Repackaging ends, well or badly.
LEMMA PackageKeeps ==
    ASSUME ArchiveInv, NEW w \in Worker, Packaged(w) \/ TranscodeFails(w)
    PROVE  ArchiveInv'
<1>1. UNCHANGED overlapped /\ worker[w].pc = "package"
  BY DEF Packaged, TranscodeFails
<1>2. /\ dir \in Directory /\ content \in [Inode -> SUBSET Chunk]
      /\ worker \in [Worker -> Thread] /\ worker[w] \in Thread
      /\ ~overlapped => /\ \A n \in {"h264", "mp4"} : dir[n] \in Inode => content[dir[n]] = Chunk
                        /\ OwnFile(w)
  BY AloneFacts
<1>3. CASE TranscodeFails(w)
  <2>1. PICK d \in {[dir EXCEPT !["mp4.part"] = NoInode], dir} : Becomes(d, content, Ended(w))
    BY <1>3 DEF TranscodeFails, Unlinked
  <2>2. d \in Directory
    BY <1>2, <2>1, InodeFacts, DirectoryChanges
  <2>3. d["h264"] = dir["h264"] /\ d["mp4"] = dir["mp4"]
    BY <1>2, <2>1, InodeFacts DEF Directory
  <2> QED BY <1>1, <1>2, <2>1, <2>2, <2>3, EndKeeps
<1>4. CASE Packaged(w)
  <2> DEFINE f == worker[w].file
             c == [content EXCEPT ![f] = worker[w].done]
             x == [worker[w] EXCEPT !.pc = "finish"]
  <2>1. Becomes(dir, c, [worker EXCEPT ![w] = x])
    BY <1>2, <1>4 DEF Packaged
  <2>2. x \in Thread /\ x.pc = "finish" /\ x.file = f /\ x.done = worker[w].done
    BY <1>2 DEF Thread
  <2>3. worker[w].done \subseteq Chunk
    BY <1>2 DEF Thread
  <2>4. c \in [Inode -> SUBSET Chunk] /\ \A j \in Inode : c[j] = IF j = f THEN worker[w].done ELSE content[j]
    BY <1>2, <2>3
  <2>5. ~overlapped => f \in Inode /\ f = dir["mp4.part"] /\ worker[w].done = Chunk
    BY <1>1, <1>2 DEF OwnFile
  <2> HIDE DEF c, x, f
  <2>6. ~overlapped => \A n \in {"h264", "mp4"} : dir[n] \in Inode => c[dir[n]] = Chunk
    BY <1>2, <2>4, <2>5
  <2> QED BY <1>1, <1>2, <2>1, <2>2, <2>4, <2>5, <2>6, ThreadStep
<1> QED BY <1>3, <1>4

\* The .mp4 takes its place and the .h264 goes.
LEMMA FinishKeeps ==
    ASSUME ArchiveInv, NEW w \in Worker, Finish(w)
    PROVE  ArchiveInv'
<1>1. UNCHANGED overlapped /\ worker[w].pc = "finish"
  BY DEF Finish
<1>2. /\ dir \in Directory /\ content \in [Inode -> SUBSET Chunk]
      /\ ~overlapped => /\ \A n \in {"h264", "mp4"} : dir[n] \in Inode => content[dir[n]] = Chunk
                        /\ OwnFile(w)
  BY AloneFacts
<1>3. CASE ~Exists("mp4.part")
  BY <1>1, <1>2, <1>3, EndKeeps DEF Finish
<1>4. CASE Exists("mp4.part")
  <2> DEFINE r == [dir EXCEPT !["mp4"] = dir["mp4.part"], !["mp4.part"] = NoInode]
             d == [r EXCEPT !["h264"] = NoInode]
  <2>1. Becomes(d, content, Ended(w))
    BY <1>4 DEF Finish, Renamed
  <2>2. r \in Directory
    BY <1>2, InodeFacts, DirectoryChanges
  <2>3. r["mp4"] = dir["mp4.part"]
    BY <1>2, InodeFacts DEF Directory
  <2> HIDE DEF r
  <2>4. d \in Directory
    BY <2>2, InodeFacts, DirectoryChanges
  <2>5. d["mp4"] = dir["mp4.part"] /\ d["h264"] = NoInode
    BY <2>2, <2>3, InodeFacts DEF Directory
  <2> HIDE DEF d
  <2>6. ~overlapped => content[dir["mp4.part"]] = Chunk
    BY <1>1, <1>2 DEF OwnFile
  <2> QED BY <1>1, <2>1, <2>4, <2>5, <2>6, InodeFacts, EndKeeps
<1> QED BY <1>3, <1>4

\* A thread begins: alone only if no other works.
LEMMA BeginKeeps ==
    ASSUME ArchiveInv, NEW w \in Worker, Begin(w)
    PROVE  ArchiveInv'
<1> DEFINE x == [worker[w] EXCEPT !.pc = "open"]
           ws == [worker EXCEPT ![w] = x]
<1>1. /\ dir \in Directory /\ content \in [Inode -> SUBSET Chunk]
      /\ worker \in [Worker -> Thread] /\ worker[w] \in Thread /\ overlapped \in BOOLEAN
      /\ ~overlapped => /\ \A n \in {"h264", "mp4"} : dir[n] \in Inode => content[dir[n]] = Chunk
                        /\ \A u \in Worker : OwnFile(u)
  BY AloneFacts
<1>2. /\ worker[w].pc = "idle" /\ Becomes(dir, content, ws)
      /\ overlapped' = (overlapped \/ \E u \in Worker : worker[u].pc # "idle")
  BY <1>1 DEF Begin
<1>3. overlapped' \in BOOLEAN
  BY <1>1, <1>2
<1>4. x \in Thread /\ x.pc = "open"
  BY <1>1 DEF Thread
<1>5. worker[w] = [Resting EXCEPT !.pc = "idle"] => x = [Resting EXCEPT !.pc = "open"]
  BY DEF Resting
<1> HIDE DEF x
<1>6. ws \in [Worker -> Thread] /\ ws[w] = x /\ \A u \in Worker \ {w} : ws[u] = worker[u]
  BY <1>1, <1>4
<1> HIDE DEF ws
<1>7. /\ ArchiveTypeOK' /\ dir' = dir /\ worker' = ws
      /\ \A n \in Name : dir[n] \in Inode => content'[dir[n]] = content[dir[n]]
  BY <1>1, <1>2, <1>3, <1>6, BecomesFacts
<1>8. ASSUME ~overlapped' PROVE Alone' /\ ListedIsWhole'
  <2>1. ~overlapped /\ \A u \in Worker : worker[u].pc = "idle"
    BY <1>2, <1>8
  <2>2. \A u \in Worker : worker[u] = [Resting EXCEPT !.pc = "idle"]
    BY <1>1, <2>1 DEF OwnFile
  <2>3. ASSUME NEW u \in Worker PROVE OwnFile(u)'
    <3>1. CASE u = w
      BY <3>1, <1>4, <1>5, <1>6, <1>7, <2>2 DEF OwnFile
    <3>2. CASE u # w
      BY <3>2, <1>6, <1>7, <2>1, <2>2 DEF OwnFile
    <3> QED BY <3>1, <3>2
  <2>4. Alone'
    BY <1>6, <1>7, <2>1, <2>3 DEF Alone
  <2>5. ASSUME NEW n \in {"h264", "mp4"}, Exists(n)' PROVE content'[dir'[n]] = Chunk
    <3>1. dir[n] \in Inode
      BY <1>1, <1>7, <2>5, InodeFacts DEF Exists, Directory
    <3> QED BY <1>1, <1>7, <2>1, <3>1, InodeFacts
  <2> QED BY <2>4, <2>5 DEF ListedIsWhole
<1> QED BY <1>7, <1>8 DEF ArchiveInv, Alone, ListedIsWhole

\* A clean-up takes a finished file; it never touches a .part file.
LEMMA CleanupKeeps ==
    ASSUME ArchiveInv, NEW n \in Name, Cleanup(n)
    PROVE  ArchiveInv'
<1> DEFINE d == [dir EXCEPT ![n] = NoInode]
<1>1. /\ dir \in Directory /\ content \in [Inode -> SUBSET Chunk]
      /\ worker \in [Worker -> Thread] /\ overlapped \in BOOLEAN
      /\ ~overlapped => /\ \A m \in {"h264", "mp4"} : dir[m] \in Inode => content[dir[m]] = Chunk
                        /\ \A u \in Worker : OwnFile(u)
  BY AloneFacts
<1>2. n \in {"h264", "mp4"} /\ Becomes(d, content, worker) /\ UNCHANGED overlapped
  BY DEF Cleanup, Unlinked
<1>3. d \in Directory
  BY <1>1, DirectoryChanges
<1>4. d[n] = NoInode /\ \A m \in Name \ {n} : d[m] = dir[m]
  BY <1>1 DEF Directory
<1> HIDE DEF d
<1>5. /\ ArchiveTypeOK' /\ dir' = d /\ worker' = worker
      /\ \A m \in Name : d[m] \in Inode => content'[d[m]] = content[d[m]]
      /\ \A w \in Worker : worker[w].file \in Inode => content'[worker[w].file] = content[worker[w].file]
  BY <1>1, <1>2, <1>3, BecomesFacts
<1>6. ASSUME ~overlapped' PROVE Alone' /\ ListedIsWhole'
  <2>1. ~overlapped
    BY <1>2, <1>6
  <2>2. d["h264.part"] = dir["h264.part"] /\ d["mp4.part"] = dir["mp4.part"]
    BY <1>2, <1>4, InodeFacts
  <2>3. ASSUME NEW u \in Worker PROVE OwnFile(u)'
    <3>1. OwnFile(u)
      BY <1>1, <2>1
    <3> QED BY <1>5, <2>2, <3>1 DEF OwnFile
  <2>4. Alone'
    BY <1>5, <2>1, <2>3 DEF ArchiveInv, Alone
  <2>5. ASSUME NEW m \in {"h264", "mp4"}, Exists(m)' PROVE content'[dir'[m]] = Chunk
    <3>1. d[m] \in Inode
      BY <1>3, <1>5, <2>5, InodeFacts DEF Exists, Directory
    <3>2. d[m] = dir[m]
      BY <1>4, <3>1, InodeFacts
    <3> QED BY <1>1, <1>5, <2>1, <3>1, <3>2, InodeFacts
  <2> QED BY <2>4, <2>5 DEF ListedIsWhole
<1> QED BY <1>5, <1>6 DEF ArchiveInv, Alone, ListedIsWhole

\* A restart ends the threads and leaves the files.
LEMMA RestartKeeps ==
    ASSUME ArchiveInv, Restart
    PROVE  ArchiveInv'
<1> DEFINE ws == [w \in Worker |-> Resting]
<1>1. /\ dir \in Directory /\ content \in [Inode -> SUBSET Chunk] /\ overlapped \in BOOLEAN
      /\ ~overlapped => \A m \in {"h264", "mp4"} : dir[m] \in Inode => content[dir[m]] = Chunk
  BY AloneFacts
<1>2. Becomes(dir, content, ws) /\ UNCHANGED overlapped
  BY DEF Restart
<1>3. ws \in [Worker -> Thread] /\ \A u \in Worker : ws[u] = Resting
  BY RestingFacts
<1> HIDE DEF ws
<1>4. /\ ArchiveTypeOK' /\ dir' = dir /\ worker' = ws
      /\ \A m \in Name : dir[m] \in Inode => content'[dir[m]] = content[dir[m]]
  BY <1>1, <1>2, <1>3, BecomesFacts
<1>5. ASSUME ~overlapped' PROVE Alone' /\ ListedIsWhole'
  <2>1. ASSUME NEW u \in Worker PROVE OwnFile(u)'
    BY <1>3, <1>4, RestingFacts DEF OwnFile
  <2>2. Alone'
    BY <1>3, <1>4, <2>1, RestingFacts DEF Alone
  <2>3. ASSUME NEW m \in {"h264", "mp4"}, Exists(m)' PROVE content'[dir'[m]] = Chunk
    <3>1. dir[m] \in Inode
      BY <1>1, <1>4, <2>3, InodeFacts DEF Exists, Directory
    <3> QED BY <1>1, <1>2, <1>4, <1>5, <3>1, InodeFacts
  <2> QED BY <2>2, <2>3 DEF ListedIsWhole
<1> QED BY <1>4, <1>5 DEF ArchiveInv, Alone, ListedIsWhole

\* The invariant of the recordings is inductive.
LEMMA ArchiveInductive == ArchiveInv /\ [ArchiveNext]_archiveVars => ArchiveInv'
<1> SUFFICES ASSUME ArchiveInv, [ArchiveNext]_archiveVars PROVE ArchiveInv'
  OBVIOUS
<1>1. CASE UNCHANGED archiveVars
  BY <1>1 DEF archiveVars, ArchiveInv, ArchiveTypeOK, Alone, OwnFile, ListedIsWhole, Exists
<1> QED BY <1>1, BeginKeeps, DownloadKeeps, WriteKeeps, DownloadEnds, TranscodeKeeps, PackageKeeps,
           FinishKeeps, CleanupKeeps, RestartKeeps DEF ArchiveNext

(***************************************************************************)
(* video_archive.archive_event: as long as no two threads archive one      *)
(* event at a time, every .h264 and .mp4 the history can list holds the    *)
(* whole recording, whatever fails, is cleaned up or is cut off by a       *)
(* restart; for any chunks and any number of files.                        *)
(***************************************************************************)
THEOREM ListedWhole == ArchiveSpec => []ListedIsWhole
<1>1. ArchiveInit => ArchiveInv
  <2> SUFFICES ASSUME ArchiveInit PROVE ArchiveInv
    OBVIOUS
  <2>1. dir \in Directory /\ content \in [Inode -> SUBSET Chunk]
    BY DEF ArchiveInit, Directory
  <2>2. worker \in [Worker -> Thread] /\ \A w \in Worker : worker[w] = Resting
    BY RestingFacts DEF ArchiveInit
  <2>3. overlapped \in BOOLEAN
    BY DEF ArchiveInit
  <2>4. Alone
    BY <2>2, RestingFacts DEF Alone, OwnFile
  <2>5. ListedIsWhole
    BY InodeFacts DEF ListedIsWhole, Exists, ArchiveInit
  <2> QED BY <2>1, <2>2, <2>3, <2>4, <2>5, ArchiveTypes DEF ArchiveInv
<1>2. ArchiveInv => ListedIsWhole
  BY DEF ArchiveInv
<1> QED BY <1>1, <1>2, ArchiveInductive, PTL DEF ArchiveSpec

=============================================================================
