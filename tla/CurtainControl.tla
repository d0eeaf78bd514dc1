----------------------------- MODULE CurtainControl -----------------------------
(***************************************************************************)
(* The dream curtain, whose blades must stand upright (90 degrees) before  *)
(* the curtain travels and may be tilted only while it is closed.  The     *)
(* executor enforces both from the stored state, which pushes, optimistic  *)
(* writes and other calls change while a call waits.  Type 506 has no LAN  *)
(* control: every command goes through the cloud, and its packet may       *)
(* arrive after the executor gave up on it, or never.                      *)
(***************************************************************************)
EXTENDS Integers

CONSTANTS
    CurtainTask,   \* service calls on the curtain that may be in progress
    Position,      \* positions a user picks, 0..100
    Tilt           \* tilt positions a user picks, 0..100

ASSUME CurtainAssumption ==
    /\ Position \subseteq 0..100
    /\ Tilt \subseteq 0..100

VARIABLES
    curtain,   \* the curtain itself (external): position, angle
    seen,      \* its stored state: position, angle
    moves      \* per service call: how far it got

curtainVars == <<curtain, seen, moves>>

Upright == 90

\* A field the store has no value for.
Unread == -1

\* round(tilt * 180 / 100)
Angle(tilt) == (tilt * 180 + 50) \div 100

\* excused (history): the stored value the call relied on was not the truth, or
\* somebody else moved the curtain since.
NoMove == [pc |-> "idle", to |-> 0, excused |-> FALSE]

CurtainInit ==
    /\ curtain \in [position : Position, angle : {Angle(x) : x \in Tilt}]
    /\ seen = [position |-> Unread, angle |-> Unread]
    /\ moves = [t \in CurtainTask |-> NoMove]

\* The curtain changes under the calls in progress other than t's.
CurtainBecomes(c, others) ==
    /\ curtain' = c
    /\ moves' = [u \in CurtainTask |->
          IF c # curtain /\ others[u].pc # "idle"
            THEN [others[u] EXCEPT !.excused = TRUE] ELSE others[u]]

\* set_cover_position: refused while the blades are tilted and the curtain is
\* not closed; centred first when it is closed.
SetPosition(t, p) ==
    /\ moves[t].pc = "idle"
    /\ seen.angle = Upright \/ seen.position = 0
    /\ moves' = [moves EXCEPT ![t] =
          IF seen.angle = Upright
            THEN [pc |-> "travel", to |-> p, excused |-> curtain.angle # Upright]
            ELSE [pc |-> "centring", to |-> p, excused |-> FALSE]]
    /\ UNCHANGED <<curtain, seen>>

\* The centring packet arrives.
Centres(t) ==
    /\ moves[t].pc = "centring"
    /\ curtain' = [curtain EXCEPT !.angle = Upright]
    /\ moves' = [u \in CurtainTask |->
          IF u = t THEN [moves[t] EXCEPT !.pc = "centred"]
          ELSE IF moves[u].pc # "idle" /\ curtain.angle # Upright
               THEN [moves[u] EXCEPT !.excused = TRUE] ELSE moves[u]]
    /\ UNCHANGED seen

\* parse_dream_curtain of a packet that carries some of the fields.
CurtainParsed(fields) ==
    [position |-> IF "position" \in fields THEN curtain.position ELSE seen.position,
     angle |-> IF "angle" \in fields THEN curtain.angle ELSE seen.angle]

CurtainFields == {"position", "angle"}

\* Mutant of ConfirmsCentre: any answer will do.
ConfirmsAnything(fields) == TRUE

ConfirmsCentre(fields) == "angle" \in fields /\ curtain.angle = Upright

\* A packet of the curtain resolves the wait for the centring: the call goes on
\* only if the packet says the blades are upright.
CentreAnswered(t, fields) ==
    /\ moves[t].pc \in {"centring", "centred"}
    /\ seen' = CurtainParsed(fields)
    /\ moves' = [moves EXCEPT ![t] =
          IF ConfirmsCentre(fields) THEN [pc |-> "travel", to |-> @.to, excused |-> FALSE]
          ELSE NoMove]
    /\ UNCHANGED curtain

\* No answer in time, or no way to send: the call is given up.
GivenUp(t) ==
    /\ moves[t].pc \in {"centring", "centred", "travel", "tilt"}
    /\ moves' = [moves EXCEPT ![t] = NoMove]
    /\ UNCHANGED <<curtain, seen>>

\* The call is over while its packet may still be on its way.
Leaves(t) ==
    moves' = [moves EXCEPT ![t] =
        IF @.pc = "travel" THEN [@ EXCEPT !.pc = "late_travel"] ELSE NoMove]

\* The curtain travels; the executor waits for the echo.
Travels(t) ==
    LET c == [curtain EXCEPT !.position = moves[t].to]
    IN  /\ moves[t].pc \in {"travel", "late_travel"}
        /\ CurtainBecomes(c, [moves EXCEPT ![t] =
              IF @.pc = "travel" THEN [@ EXCEPT !.pc = "travelled"] ELSE NoMove])
        /\ UNCHANGED seen

\* The position is written when no echo comes, or one without state.
TravelSettles(t) ==
    /\ moves[t].pc \in {"travel", "travelled"}
    /\ seen' = [seen EXCEPT !.position = moves[t].to]
    /\ Leaves(t)
    /\ UNCHANGED curtain

\* An echo with state (possibly none of these fields, only the action) was
\* dispatched; a value1 in it is taken for the position, though a property
\* packet fills it with 0.
TravelEchoed(t, fields, value1) ==
    /\ moves[t].pc \in {"travel", "travelled"}
    /\ seen' = IF value1 = Unread THEN CurtainParsed(fields)
               ELSE [CurtainParsed(fields) EXCEPT !.position = value1]
    /\ Leaves(t)
    /\ UNCHANGED curtain

\* set_dream_curtain_angle: only while the store says closed; the angle is
\* written as soon as the packet is out.
SetTilt(t, x) ==
    /\ moves[t].pc = "idle"
    /\ seen.position = 0
    /\ moves' = [moves EXCEPT ![t] =
          [pc |-> "tilt", to |-> Angle(x), excused |-> curtain.position # 0]]
    /\ UNCHANGED <<curtain, seen>>

TiltSent(t) ==
    /\ moves[t].pc = "tilt"
    /\ seen' = [seen EXCEPT !.angle = moves[t].to]
    /\ moves' = [moves EXCEPT ![t].pc = "late_tilt"]
    /\ UNCHANGED curtain

Tilts(t) ==
    /\ moves[t].pc = "late_tilt"
    /\ CurtainBecomes([curtain EXCEPT !.angle = moves[t].to], [moves EXCEPT ![t] = NoMove])
    /\ UNCHANGED seen

\* The cloud loses a packet.
PacketLost(t) ==
    /\ moves[t].pc \in {"late_travel", "late_tilt"}
    /\ moves' = [moves EXCEPT ![t] = NoMove]
    /\ UNCHANGED <<curtain, seen>>

CurtainPush(fields) ==
    /\ seen' = CurtainParsed(fields)
    /\ UNCHANGED <<curtain, moves>>

\* dream_curtain_action ("open", "close", "pause"), or a hand on the remote
\* control: the curtain sees to its blades by itself, and the store learns
\* nothing of its position.
MovedByItself(c) ==
    /\ CurtainBecomes(c, moves)
    /\ UNCHANGED seen

CurtainNext ==
    \/ \E t \in CurtainTask :
          \/ \E p \in Position : SetPosition(t, p)
          \/ \E x \in Tilt : SetTilt(t, x)
          \/ Centres(t) \/ GivenUp(t) \/ Travels(t) \/ TravelSettles(t)
          \/ TiltSent(t) \/ Tilts(t) \/ PacketLost(t)
          \/ \E fields \in SUBSET CurtainFields :
                \/ CentreAnswered(t, fields)
                \/ \E v \in {Unread, 0, curtain.position} : TravelEchoed(t, fields, v)
    \/ \E fields \in SUBSET CurtainFields \ {{}} : CurtainPush(fields)
    \/ \E c \in [position : Position, angle : {Angle(x) : x \in Tilt}] : MovedByItself(c)

CurtainSpec == CurtainInit /\ [][CurtainNext]_curtainVars

-----------------------------------------------------------------------------
(***************************************************************************)
(* The curtain travels only with its blades upright and the blades turn    *)
(* only while it is closed, as set_cover_position and                      *)
(* set_dream_curtain_angle intend, unless the stored value the call relied *)
(* on was already wrong or somebody moved the curtain after the call       *)
(* looked.                                                                 *)
(***************************************************************************)
CurtainInterlock ==
    [][\A t \in CurtainTask :
         ~moves[t].excused =>
            /\ Travels(t) => curtain.angle = Upright
            /\ Tilts(t) => curtain.position = 0]_curtainVars

(***************************************************************************)
(* The same with the store's own doing not excused, for a curtain nobody   *)
(* else moves: the warning in set_cover_position says that an unconfirmed  *)
(* centring cancels the travel, yet an angle that was only sent counts.    *)
(***************************************************************************)
CentringConfirmed ==
    [][\A t \in CurtainTask : Travels(t) => curtain.angle = Upright]_curtainVars

=============================================================================
