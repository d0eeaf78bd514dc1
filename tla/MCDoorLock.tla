------------------------------ MODULE MCDoorLock ------------------------------
(***************************************************************************)
(* TLC instance of the three parts of the door lock: temporary passwords,  *)
(* public events and recordings.  They share no variable, so one part      *)
(* moves while the others rest in their initial states: the run explores   *)
(* the sum of their state spaces, not the product, and every invariant of  *)
(* a part sees every state of the part.                                    *)
(***************************************************************************)
EXTENDS TempPasswords, LockEvents, VideoArchive, TLC

vars == <<passwordVars, eventVars, archiveVars>>

Init == PasswordInit /\ LockInit /\ ArchiveInit

Next ==
    \/ /\ LockInit /\ ArchiveInit
       /\ PasswordNext
       /\ UNCHANGED <<eventVars, archiveVars>>
    \/ /\ PasswordInit /\ ArchiveInit
       /\ LockNext
       /\ UNCHANGED <<passwordVars, archiveVars>>
    \/ /\ PasswordInit /\ LockInit
       /\ ArchiveNext
       /\ UNCHANGED <<passwordVars, eventVars>>

Spec == Init /\ [][Next]_vars

\* Calls, users and threads are interchangeable.
Symmetry == Permutations(Task) \cup Permutations(User) \cup Permutations(Worker)

\* The types of the three parts.
DoorLockTypeOK == PasswordTypeOK /\ LockTypeOK /\ ArchiveTypeOK

=============================================================================
