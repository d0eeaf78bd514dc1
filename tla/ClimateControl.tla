----------------------------- MODULE ClimateControl -----------------------------
(***************************************************************************)
(* The fan-coil air conditioner: every packet carries power, mode, fan and *)
(* temperature at once, so a command fills in what the user did not name   *)
(* from the stored state.  The coordinator has its own path for it         *)
(* (_async_ac_control_raw), with its own optimistic write.  The unit packs *)
(* the target and the measured temperature into one number, value4.        *)
(***************************************************************************)
EXTENDS Integers

CONSTANTS
    AcMode,      \* value2 of the modes explored: 2, 3, 4 or 7
    AcFan,       \* value3 of the fan speeds explored: 1, 2 or 3
    AcTarget,    \* target temperatures, in hundredths of a degree
    AcRoom       \* the measured temperature, in hundredths of a degree

ASSUME ClimateAssumption ==
    /\ AcMode \subseteq {2, 3, 4, 7} /\ AcFan \subseteq {1, 2, 3}
    /\ AcTarget \subseteq 1600..3200
    /\ AcRoom \in 1..65535

VARIABLES
    unit,        \* the air conditioner itself (external)
    kept,        \* its stored state: state, ac_mode_raw, fan_speed_raw, value4, temperature
    ac,          \* the command in progress
    told         \* history: the settings the store was told of and still holds true

climateVars == <<unit, kept, ac, told>>

Setting == {"mode", "fan", "target"}

\* A field that was never written.
NotGiven == 0

\* value << 16 and value >> 16
Packed(target) == target * 65536
Target(value4) == value4 \div 65536

OrElse(x, default) == IF x = NotGiven THEN default ELSE x
DefaultValue4 == Packed(2500)

-----------------------------------------------------------------------------
(* The packets: a value that was not given goes out as 0 *)

AcPacket(on, mode, fan, value4) ==
    [on |-> on, mode |-> mode, fan |-> fan, value4 |-> value4]

\* Mutant of ModePacket: the mode goes out without the temperature in force.
ModePacketAlone(mode) == AcPacket(TRUE, mode, NotGiven, DefaultValue4)

\* async_set_ac_mode
ModePacket(mode) == AcPacket(TRUE, mode, NotGiven, OrElse(kept.value4, DefaultValue4))

\* async_set_ac_fan_speed
FanPacket(fan) == AcPacket(TRUE, OrElse(kept.mode, 3), fan, OrElse(kept.value4, DefaultValue4))

\* async_set_ac_temperature
TemperaturePacket(target) ==
    AcPacket(TRUE, OrElse(kept.mode, 3), OrElse(kept.fan, 1), Packed(target))

\* power_route of the category FAN_COIL_AC
AcPowerPacket(on) ==
    AcPacket(on, OrElse(kept.mode, 3), OrElse(kept.fan, 1), OrElse(kept.value4, DefaultValue4))

\* The unit takes what a packet carries.
UnitObeys(p, u) ==
    [on |-> p.on, mode |-> OrElse(p.mode, u.mode), fan |-> OrElse(p.fan, u.fan),
     target |-> OrElse(Target(p.value4), u.target)]

AcMoved(u, w) == {x \in Setting : u[x] # w[x]}

NoAc == [pc |-> "idle", named |-> {}, packet |-> AcPacket(FALSE, NotGiven, NotGiven, NotGiven),
         power |-> FALSE, next |-> NotGiven, knew |-> {}]

ClimateInit ==
    /\ unit \in [on : BOOLEAN, mode : AcMode, fan : AcFan, target : AcTarget]
    /\ kept = [state |-> FALSE, mode |-> NotGiven, fan |-> NotGiven, value4 |-> NotGiven,
               temperature |-> NotGiven]
    /\ ac = NoAc
    /\ told = {}

\* A command starts: its packet is made from the state stored now.  power says
\* that it came through turn_on or turn_off, next a mode still to be set.
Sends(named, packet, power, next) ==
    ac' = [pc |-> "sending", named |-> named, packet |-> packet, power |-> power,
           next |-> next, knew |-> told]

\* async_set_hvac_mode turns the unit on first when the store says it is off.
SetHvacMode(mode) ==
    /\ ac.pc = "idle"
    /\ IF kept.state THEN Sends({"mode"}, ModePacket(mode), FALSE, NotGiven)
       ELSE Sends({}, AcPowerPacket(TRUE), TRUE, mode)
    /\ UNCHANGED <<unit, kept, told>>

SetFanMode(fan) ==
    /\ ac.pc = "idle"
    /\ Sends({"fan"}, FanPacket(fan), FALSE, NotGiven)
    /\ UNCHANGED <<unit, kept, told>>

SetTemperature(target) ==
    /\ ac.pc = "idle"
    /\ Sends({"target"}, TemperaturePacket(target), FALSE, NotGiven)
    /\ UNCHANGED <<unit, kept, told>>

SwitchAc(on) ==
    /\ ac.pc = "idle"
    /\ Sends({}, AcPowerPacket(on), TRUE, NotGiven)
    /\ UNCHANGED <<unit, kept, told>>

\* The packet reaches the unit, through the gateway or the cloud.
AcDelivered(pc) ==
    LET w == UnitObeys(ac.packet, unit)
    IN  /\ unit' = w
        /\ told' = told \ AcMoved(unit, w)
        /\ ac' = [ac EXCEPT !.pc = pc, !.knew = @ \ AcMoved(unit, w)]
        /\ UNCHANGED kept

AcLanDelivers == ac.pc = "sending" /\ AcDelivered("acking")
AcCloudDelivers == ac.pc = "waiting" /\ AcDelivered("obeyed")

\* Not sent over the LAN, or not confirmed: SSL, and its result is not looked at.
AcFallBack ==
    /\ ac.pc \in {"sending", "acking"}
    /\ ac' = [ac EXCEPT !.pc = "waiting"]
    /\ UNCHANGED <<unit, kept, told>>

\* The call is over, or async_set_hvac_mode goes on to the mode; the packet of
\* that second command is made from the state as it is then.
AcEnds == ac' = IF ac.next = NotGiven THEN NoAc ELSE [ac EXCEPT !.pc = "turned_on"]

SetModeNext ==
    /\ ac.pc = "turned_on"
    /\ Sends({"mode"}, ModePacket(ac.next), FALSE, NotGiven)
    /\ UNCHANGED <<unit, kept, told>>

\* No channel and no session key.
AcFails ==
    /\ ac.pc \in {"sending", "acking"}
    /\ AcEnds
    /\ UNCHANGED <<unit, kept, told>>

\* turn_on and turn_off write the power once more, whatever came back.
WithPower(state) == IF ac.power THEN [state EXCEPT !.state = ac.packet.on] ELSE state

\* _apply_ac_optimistic: value4 and the target the entity shows are not written,
\* only "temperature" is.
AcWritten ==
    [kept EXCEPT !.state = ac.packet.on, !.mode = ac.packet.mode,
                 !.fan = OrElse(ac.packet.fan, @),
                 !.temperature = Target(ac.packet.value4)]

ToldAfter(state) ==
    (told \ {"mode", "fan"}) \cup {x \in {"mode", "fan"} : state[x] = unit[x]}

\* The gateway confirmed, or no echo came: the optimistic write, which is lost
\* when get_device_state handed out a copy.
AcSettles ==
    /\ ac.pc \in {"acking", "waiting", "obeyed"}
    /\ \E state \in {AcWritten, kept} :
          /\ kept' = WithPower(state)
          /\ told' = ToldAfter(state)
    /\ AcEnds
    /\ UNCHANGED unit

\* parse_fan_coil_ac, of a push that carries some of the values.
AcParsed(fields) ==
    [state |-> IF "power" \in fields THEN unit.on ELSE kept.state,
     mode |-> IF "mode" \in fields THEN unit.mode ELSE kept.mode,
     fan |-> IF "fan" \in fields THEN unit.fan ELSE kept.fan,
     value4 |-> IF "target" \in fields THEN Packed(unit.target) + AcRoom ELSE kept.value4,
     temperature |-> IF "target" \in fields THEN unit.target ELSE kept.temperature]

AcFields == Setting \cup {"power"}

AcPush(fields) ==
    /\ kept' = AcParsed(fields)
    /\ told' = told \cup (fields \cap Setting)
    /\ UNCHANGED <<unit, ac>>

\* An answer came: what it carries was dispatched before, and nothing is written.
AcEchoed(fields) ==
    /\ ac.pc \in {"waiting", "obeyed"}
    /\ kept' = WithPower(AcParsed(fields))
    /\ told' = told \cup (fields \cap Setting)
    /\ AcEnds
    /\ UNCHANGED unit

\* Somebody uses the panel on the wall.
Panel(w) ==
    /\ unit' = w
    /\ told' = told \ AcMoved(unit, w)
    /\ ac' = [ac EXCEPT !.knew = @ \ AcMoved(unit, w)]
    /\ UNCHANGED kept

ClimateNext ==
    \/ \E m \in AcMode : SetHvacMode(m)
    \/ \E s \in AcFan : SetFanMode(s)
    \/ \E g \in AcTarget : SetTemperature(g)
    \/ \E on \in BOOLEAN : SwitchAc(on)
    \/ AcLanDelivers \/ AcCloudDelivers \/ AcFallBack \/ AcFails \/ SetModeNext
    \/ AcSettles
    \/ \E fields \in SUBSET AcFields : AcEchoed(fields)
    \/ \E fields \in SUBSET AcFields \ {{}} : AcPush(fields)
    \/ \E w \in [on : BOOLEAN, mode : AcMode, fan : AcFan, target : AcTarget] : Panel(w)

ClimateSpec == ClimateInit /\ [][ClimateNext]_climateVars

-----------------------------------------------------------------------------
(***************************************************************************)
(* A delivered command moves no setting the user did not name, if the      *)
(* store had been told of that setting when the command was made and       *)
(* nobody has moved it since.  It is about the values coordinator.py fills *)
(* in from ac_mode_raw, fan_speed_raw and value4, which come back from     *)
(* parse_fan_coil_ac in another form.                                      *)
(***************************************************************************)
SettingsSurvive ==
    [][AcLanDelivers \/ AcCloudDelivers
         => ac.knew \cap (AcMoved(unit, unit') \ ac.named) = {}]_climateVars

(***************************************************************************)
(* What the comments of async_set_ac_mode and async_set_ac_fan_speed say:  *)
(* the temperature in force is inherited.  It is not when the last word    *)
(* the store has of it is its own command: the optimistic write sets       *)
(* temperature, the next command reads value4.                             *)
(***************************************************************************)
TemperatureInherited ==
    [][ac'.pc = "sending" /\ ac.pc # "sending" /\ "target" \notin ac'.named
         /\ kept.temperature = unit.target
         => Target(ac'.packet.value4) = unit.target]_climateVars

=============================================================================
