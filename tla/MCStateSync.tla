------------------------------ MODULE MCStateSync ------------------------------
(***************************************************************************)
(* Instances of StateSync and of the three families of commands that fill  *)
(* their packets from the stored state: lights, air conditioner, dream     *)
(* curtain.  The guard lasts 2 ticks and a snapshot travels at most 1, so  *)
(* a snapshot can be merged inside the guard window, exactly at its end    *)
(* and after it.                                                           *)
(*                                                                         *)
(* The four parts share no variable: one moves, from any of its initial    *)
(* states, while the others rest in one of theirs.  A run explores the sum *)
(* of their state spaces and every property of a part sees every step.     *)
(***************************************************************************)
EXTENDS StateSync, LightControl, ClimateControl, CurtainControl

commandVars == <<vars, lightVars, climateVars, curtainVars>>

One(S) == CHOOSE x \in S : TRUE

SyncRests == Init /\ devices = {}

LightRests ==
    /\ LightInit
    /\ family = One(LightKind)
    /\ lamp = One([on : {FALSE}, level : LampLevels(family), colour : LampColours(family)])

ClimateRests ==
    /\ ClimateInit
    /\ unit = One([on : {FALSE}, mode : AcMode, fan : AcFan, target : AcTarget])

CurtainRests ==
    /\ CurtainInit
    /\ curtain = One([position : Position, angle : {Angle(x) : x \in Tilt}])

CommandInit ==
    \/ Init /\ LightRests /\ ClimateRests /\ CurtainRests
    \/ SyncRests /\ LightInit /\ ClimateRests /\ CurtainRests
    \/ SyncRests /\ LightRests /\ ClimateInit /\ CurtainRests
    \/ SyncRests /\ LightRests /\ ClimateRests /\ CurtainInit

CommandNext ==
    \/ /\ LightRests /\ ClimateRests /\ CurtainRests
       /\ Next
       /\ UNCHANGED <<lightVars, climateVars, curtainVars>>
    \/ /\ SyncRests /\ ClimateRests /\ CurtainRests
       /\ LightNext
       /\ UNCHANGED <<vars, climateVars, curtainVars>>
    \/ /\ SyncRests /\ LightRests /\ CurtainRests
       /\ ClimateNext
       /\ UNCHANGED <<vars, lightVars, curtainVars>>
    \/ /\ SyncRests /\ LightRests /\ ClimateRests
       /\ CurtainNext
       /\ UNCHANGED <<vars, lightVars, climateVars>>

CommandSpec == CommandInit /\ [][CommandNext]_commandVars

\* The families of commands alone, for the runs that show a disagreement.
LightAlone ==
    /\ LightInit /\ SyncRests /\ ClimateRests /\ CurtainRests
    /\ [][LightNext /\ UNCHANGED <<vars, climateVars, curtainVars>>]_commandVars

ClimateAlone ==
    /\ ClimateInit /\ SyncRests /\ LightRests /\ CurtainRests
    /\ [][ClimateNext /\ UNCHANGED <<vars, lightVars, curtainVars>>]_commandVars

CurtainAlone ==
    /\ CurtainInit /\ SyncRests /\ LightRests /\ ClimateRests
    /\ [][CurtainNext /\ UNCHANGED <<vars, lightVars, climateVars>>]_commandVars

=============================================================================
