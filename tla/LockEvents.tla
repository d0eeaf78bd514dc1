------------------------------ MODULE LockEvents ------------------------------
(***************************************************************************)
(* The public events of one door lock (lock_manager.py): packets are       *)
(* normalised, a packet with the signature of the one before it is         *)
(* dropped, and an opening door is ascribed to the user whose unlocking    *)
(* came last, if that was not too long ago.                                *)
(*                                                                         *)
(* A packet is an unlocking by a user at a server time, another event      *)
(* (ring, alarm) with its time, or a state report.  The channel may        *)
(* deliver the packet it delivered last once more.                         *)
(***************************************************************************)
EXTENDS Naturals

CONSTANTS
    User,            \* lock users
    EventTime,       \* the "time" of events
    DoorOpenWindow,  \* LOCK_DOOR_OPEN_WINDOW
    Nobody           \* no user

ASSUME LockAssumption == DoorOpenWindow \in Nat /\ Nobody \notin User

VARIABLES
    lastSignature,   \* LockEventManager._last_signatures of the lock
    lastUnlock,      \* _last_unlocks: the user and the seconds since
    lastPacket,      \* the packet the channel delivered last
    unlocking,       \* history: seconds since each user's newest unlocking came
    published        \* the event on the bus: who opened the door, and how
                     \* long ago that user had unlocked

eventVars == <<lastSignature, lastUnlock, lastPacket, unlocking, published>>

\* Every age beyond the window counts as this one.
Long == DoorOpenWindow + 1

Older(age) == IF age = Long THEN Long ELSE age + 1

\* What normalize_door_lock_properties and normalize_lock_event leave of a packet.
Packet ==
    [kind : {"unlock"}, user : User, time : EventTime, door : BOOLEAN]
      \cup [kind : {"ring"}, user : {Nobody}, time : EventTime, door : BOOLEAN]
      \cup [kind : {"state"}, user : {Nobody}, time : {0}, door : BOOLEAN]

NoPacket == [kind |-> "none", user |-> Nobody, time |-> 0, door |-> FALSE]

NoUnlock == [user |-> Nobody, age |-> Long]

Silent == [openedBy |-> Nobody, age |-> 0]

LockTypeOK ==
    /\ lastSignature \in [kind : {"unlock", "ring", "state", "none"}, user : User \cup {Nobody},
                          time : EventTime \cup {0}, door : BOOLEAN]
    /\ lastUnlock \in [user : User \cup {Nobody}, age : 0..Long]
    /\ lastPacket \in Packet \cup {NoPacket}
    /\ unlocking \in [User -> 0..Long]
    /\ published \in [openedBy : User \cup {Nobody}, age : 0..Long]

LockInit ==
    /\ lastSignature = NoPacket
    /\ lastUnlock = NoUnlock
    /\ lastPacket = NoPacket
    /\ unlocking = [u \in User |-> Long]
    /\ published = Silent

\* Mutant of Signature: the state of the door is part of every signature.
SignatureWithDoor(p) == p

\* An event is known by kind, user and time; a report by the state it reports.
Signature(p) == [p EXCEPT !.door = p.kind = "state" /\ p.door]

\* The two packets tell of one event.
SameEvent(p, q) == p.kind # "state" /\ [p EXCEPT !.door = q.door] = q

\* build_event past the duplicate test: remember an unlocking, then ascribe.
Publish(p) ==
    LET unlock == IF p.kind = "unlock" THEN [user |-> p.user, age |-> 0] ELSE lastUnlock
        came == IF p.kind = "unlock" /\ ~SameEvent(p, lastPacket)
                  THEN [unlocking EXCEPT ![p.user] = 0] ELSE unlocking
        by == IF p.door /\ unlock.age <= DoorOpenWindow THEN unlock.user ELSE Nobody
    IN  /\ lastUnlock' = unlock
        /\ unlocking' = came
        /\ published' = IF by = Nobody THEN Silent ELSE [openedBy |-> by, age |-> came[by]]

Deliver(p) ==
    /\ lastPacket' = p
    /\ lastSignature' = Signature(p)
    /\ IF Signature(p) = lastSignature
         THEN UNCHANGED <<lastUnlock, unlocking, published>>
         ELSE Publish(p)

\* A new packet.  Its server time tells it from the unlocking before it.
NewPacket(p) == ~SameEvent(p, lastPacket) /\ Deliver(p)

\* The channel repeats itself; the door may have moved meanwhile.
Repeat(door) == lastPacket # NoPacket /\ Deliver([lastPacket EXCEPT !.door = door])

\* remove(): the inventory dropped the lock.
Forget ==
    /\ lastSignature' = NoPacket /\ lastUnlock' = NoUnlock
    /\ lastPacket' = NoPacket /\ published' = Silent
    /\ UNCHANGED unlocking

SecondPasses ==
    /\ lastUnlock' = [lastUnlock EXCEPT !.age = Older(@)]
    /\ unlocking' = [u \in User |-> Older(unlocking[u])]
    /\ UNCHANGED <<lastSignature, lastPacket, published>>

LockNext ==
    \/ \E p \in Packet : NewPacket(p)
    \/ \E door \in BOOLEAN : Repeat(door)
    \/ Forget
    \/ SecondPasses

LockSpec == LockInit /\ [][LockNext]_eventVars

(***************************************************************************)
(* Who opened the door: an event names a user only if that user unlocked   *)
(* within the window before the door opened.                               *)
(***************************************************************************)
OpenedByRecentUser == published.openedBy # Nobody => published.age <= DoorOpenWindow

=============================================================================
