------------------------------ MODULE LightControl ------------------------------
(***************************************************************************)
(* What a command to a light carries besides what the user asked for.      *)
(*                                                                         *)
(* The light entity offers power, brightness and colour temperature one at *)
(* a time, but most packets set several of them at once: the router fills  *)
(* in the rest from the stored state, in the unit of the lamp's family     *)
(* (0..255 or per cent, Kelvin or mired).  The stored state comes from     *)
(* pushes, which the parsers convert the other way, from optimistic writes *)
(* and from cloud snapshots.  This module follows one lamp of each family  *)
(* through its commands, which may overlap, be retried over the cloud,     *)
(* arrive late or not at all.  How the store arbitrates between sources is *)
(* StateSync's subject: here a push either lands or does not happen.       *)
(***************************************************************************)
EXTENDS Integers

CONSTANTS
    LightKind,   \* families of lamps explored
    LightTask,   \* service calls on the lamp that may be in progress
    HaLevel,     \* brightness values a user picks (0..255)
    Kelvin,      \* colour temperatures a user picks
    LampLevel,   \* brightness values the wall control gives the lamp, in per cent
    LampMired    \* colours the wall control gives the lamp, in mired

Power == {"legacy", "mono"}
Dimming == {"dimmable", "zigbee"}
Tunable == {"dim_color", "fast_move", "cct"}

\* OrviboLight._brightness_is_percent: types 502 and 503.
Percent == {"dimmable", "cct"}

\* Families whose packets carry properties, each on its own.
PropertyBased == {"mono", "dimmable", "cct"}

ASSUME LightAssumption ==
    /\ LightKind \subseteq Power \cup Dimming \cup Tunable
    /\ HaLevel \subseteq 0..255
    /\ Kelvin \subseteq 2700..6500
    /\ LampLevel \subseteq 1..100
    /\ LampMired \subseteq 167..370

VARIABLES
    family,      \* the lamp's family
    lamp,        \* the lamp itself (external)
    shown,       \* its stored state: state, brightness, color_temp
    calls,       \* per service call: how far it got
    agreed       \* history: what the store was told of the lamp and still holds true

lightVars == <<family, lamp, shown, calls, agreed>>

\* No value: None in Python, a property the packet does not carry.
Unset == -1

OrDefault(x, default) == IF x \in {Unset, 0} THEN default ELSE x      \* Python's "or"
Least(a, b) == IF a < b THEN a ELSE b
Most(a, b) == IF a > b THEN a ELSE b
Clamp(x, low, high) == Most(low, Least(x, high))

\* 1_000_000 // x, both ways between Kelvin and mired.
Mired(x) == IF x > 0 THEN 1000000 \div x ELSE 0

Aspect == {"level", "colour"}

-----------------------------------------------------------------------------
(* What a call asks for *)

\* The actions the colour modes of the entity allow.
Actions(kind) ==
    {"on", "off"} \cup (IF kind \in Power THEN {} ELSE {"level"})
                  \cup (IF kind \in Tunable THEN {"colour", "both"} ELSE {})

\* OrviboLight.async_turn_on: the brightness in the lamp's unit, never zero.
DeviceLevel(kind, b) ==
    IF kind \in Percent THEN Most(1, (Most(b, 1) * 100) \div 255) ELSE Most(b, 1)

\* A fast-move lamp offers 2700..6000 K.
KelvinOffered(kind) == {k \in Kelvin : kind = "fast_move" => k <= 6000}

Requests(kind) ==
    [action : {"on", "off"}, level : {Unset}, colour : {Unset}]
    \cup [action : {"level"}, level : {DeviceLevel(kind, b) : b \in HaLevel}, colour : {Unset}]
    \cup [action : {"colour"}, level : {Unset}, colour : KelvinOffered(kind)]
    \cup [action : {"both"}, level : {DeviceLevel(kind, b) : b \in HaLevel},
          colour : KelvinOffered(kind)]

-----------------------------------------------------------------------------
(***************************************************************************)
(* The packets.  power is the order "on"/"off" (a level order also lights  *)
(* the lamp); a field a property packet leaves out is Unset; a value       *)
(* packet always carries all of them, zero when it has nothing to say.     *)
(* order tells apart the two senders that treat their values specially.    *)
(***************************************************************************)
Packet(order, power, level, colour) ==
    [order |-> order, power |-> power, level |-> level, colour |-> colour]

Switched(on) == IF on THEN "on" ELSE "off"

\* ssl_control_switch, ssl_control_cct_light_onoff
OnOffProperty(on) == Packet("property", Switched(on), Unset, Unset)

\* ssl_control_dimmable_light_brightness, ssl_control_cct_light_brightness
LevelProperty(level) == Packet("property", "on", Clamp(level, 0, 100), Unset)

\* ssl_control_cct_light_colortemp
ColourProperty(k) == Packet("property", "keep", Unset, Clamp(k, 2700, 6500))

\* ssl_control_light, of which the router gives neither level nor colour
LightPacket(on) == Packet("light", Switched(on), 0, 0)

\* ssl_control_light_colortemp, colour given in Kelvin
LightColourPacket(level, k) == Packet("value", "on", Least(level, 255), Mired(k))

\* ssl_control_zigbee_dimmable_light_onoff and _brightness
ZigbeeOnOff(on, level) == Packet("value", Switched(on), Clamp(level, 0, 255), 0)
ZigbeeLevel(level) == Packet("value", "on", Clamp(level, 1, 255), 0)

\* ssl_control_fast_move_dim_color_light_onoff; _brightness and _colortemp
FastMoveOnOff(on, level, mired) == Packet("value", Switched(on), level, mired)
FastMoveTo(level, mired) == Packet("value", "on", Clamp(level, 0, 255), mired)

\* ssl_control_light_full, colour in Kelvin
FullPacket(level, k) == Packet("full", "on", level, k)

-----------------------------------------------------------------------------
(* The routes *)

\* power_route
PowerPacket(kind, on, state) ==
    LET level == OrDefault(state.brightness, IF on THEN 255 ELSE 0)
        k     == OrDefault(state.color_temp, 2700)
    IN
    CASE kind \in PropertyBased -> OnOffProperty(on)
      [] kind = "dim_color" /\ on -> LightColourPacket(level, k)
      [] kind = "zigbee" -> ZigbeeOnOff(on, level)
      [] kind = "fast_move" -> FastMoveOnOff(on, level, Mired(k))
      [] OTHER -> LightPacket(on)

\* Mutant of BrightnessPacket: the colour is sent as it is stored, in Kelvin.
BrightnessPacketUnconverted(kind, level, state) ==
    CASE kind \in PropertyBased -> LevelProperty(level)
      [] kind = "zigbee" -> ZigbeeLevel(level)
      [] OTHER -> FastMoveTo(level, OrDefault(state.color_temp, 2700))

\* brightness_route
BrightnessPacket(kind, level, state) ==
    LET k == OrDefault(state.color_temp, 2700)
    IN
    CASE kind \in PropertyBased -> LevelProperty(level)
      [] kind = "zigbee" -> ZigbeeLevel(level)
      [] kind = "fast_move" -> FastMoveTo(Clamp(level, 1, 255), Mired(k))
      [] OTHER -> LightColourPacket(level, k)

\* color_temp_route: a fast-move lamp falls back to full brightness, the
\* older one sends what is stored, be it nothing.
ColourPacket(kind, k, state) ==
    CASE kind \in PropertyBased -> ColourProperty(k)
      [] kind = "fast_move" -> FastMoveTo(OrDefault(state.brightness, 255), Mired(k))
      [] OTHER -> LightColourPacket(OrDefault(state.brightness, 0), k)

\* set_light_param: one packet with the colour in Kelvin, except for the
\* property-based family, whose two commands follow one another.
Splits(kind, request) == kind = "cct" /\ request.action = "both"

Route(kind, request, state) ==
    CASE request.action = "on" -> PowerPacket(kind, TRUE, state)
      [] request.action = "off" -> PowerPacket(kind, FALSE, state)
      [] request.action = "level" \/ Splits(kind, request) ->
            BrightnessPacket(kind, request.level, state)
      [] request.action = "colour" -> ColourPacket(kind, request.colour, state)
      [] OTHER -> FullPacket(request.level, request.colour)

\* What is stored when the command went out and no usable echo came.
OptimisticState(kind, request, state) ==
    CASE request.action \in {"on", "off"} -> [state EXCEPT !.state = (request.action = "on")]
      [] request.action = "level" \/ Splits(kind, request) ->
            [state EXCEPT !.state = TRUE, !.brightness = request.level]
      [] request.action = "colour" -> [state EXCEPT !.color_temp = request.colour]
      [] OTHER -> state

-----------------------------------------------------------------------------
(* The lamp *)

\* LanControlAdapter.send_control_light: an "on" carries full brightness.
Filled(p) ==
    IF p.order = "light" /\ p.power = "on" /\ p.level = 0
      THEN [p EXCEPT !.level = 255] ELSE p

\* A colour in the unit the lamp holds and reports, and the lamp's range.
OwnColour(kind, k) == IF kind = "cct" THEN k ELSE Mired(k)
WithinRange(kind, x) ==
    CASE kind = "cct" -> Clamp(x, 2700, 6500)
      [] kind = "fast_move" -> Clamp(x, 166, 370)
      [] OTHER -> Clamp(x, 153, 370)

\* The combined order carries Kelvin, the others the lamp's own unit.
\* A level of zero darkens the lamp when a gateway forwards it and says
\* nothing when the cloud does; an "off" changes nothing but the power.
Obey(kind, p, via, l) ==
    IF p.power = "off" THEN [l EXCEPT !.on = FALSE]
    ELSE [on |-> IF p.power = "keep" THEN l.on ELSE TRUE,
          level |-> IF p.level = Unset \/ (p.level = 0 /\ via = "ssl") THEN l.level
                    ELSE p.level,
          colour |-> IF p.colour \in {Unset, 0} THEN l.colour
                     ELSE WithinRange(kind, IF p.order = "full" THEN OwnColour(kind, p.colour)
                                            ELSE p.colour)]

Lit(l) == l.on /\ l.level > 0

LampLevels(kind) ==
    IF kind \in Percent THEN LampLevel ELSE {(p * 255) \div 100 : p \in LampLevel}
LampColours(kind) ==
    IF kind = "cct" THEN {Mired(m) : m \in LampMired} ELSE LampMired

-----------------------------------------------------------------------------
(* What the parsers make of a push that carries some of its fields *)

\* The property-based parsers read the word "on"; the value-based ones read
\* value1, 0 for "on" only when the push itself says subDeviceType -2 (none of
\* them is given the type), and the fast-move one always.
ReadPower(kind, l, sub) ==
    IF kind \in {"legacy", "zigbee", "dim_color"} /\ ~sub THEN ~l.on ELSE l.on

ReadColour(kind, x) ==
    CASE kind = "cct" -> Clamp(x, 2000, 6500)
      [] kind = "fast_move" -> Clamp(Mired(x), 2700, 6000)
      [] OTHER -> Clamp(Mired(x), 2700, 6500)

\* A level of zero means off for the parsers that look at it.
DarkIsOff(kind) == kind \in {"dimmable", "cct", "zigbee", "fast_move"}

\* Without value1 the older parser takes the power from the brightness; what a
\* push does not carry it erases, the others leave it alone.
Parsed(kind, l, fields, sub, state) ==
    LET missing(old) == IF kind = "dim_color" THEN Unset ELSE old
        dark == "level" \in fields /\ l.level = 0
    IN
    [state |->
        IF DarkIsOff(kind) /\ dark THEN FALSE
        ELSE IF "power" \in fields THEN ReadPower(kind, l, sub)
        ELSE IF kind = "dim_color" /\ "level" \in fields THEN ~dark
        ELSE state.state,
     brightness |->
        IF kind \in Power THEN state.brightness
        ELSE IF "level" \in fields THEN l.level ELSE missing(state.brightness),
     color_temp |->
        IF kind \notin Tunable THEN state.color_temp
        ELSE IF "colour" \in fields THEN ReadColour(kind, l.colour)
        ELSE missing(state.color_temp)]

-----------------------------------------------------------------------------
NoRequest == [action |-> "none", level |-> Unset, colour |-> Unset]
NoCall ==
    [pc |-> "idle", request |-> NoRequest, packet |-> Packet("none", "keep", Unset, Unset),
     knew |-> {}]

LightInit ==
    /\ family \in LightKind
    /\ lamp \in [on : BOOLEAN, level : LampLevels(family), colour : LampColours(family)]
    /\ shown = [state |-> FALSE, brightness |-> Unset, color_temp |-> Unset]
    /\ calls = [t \in LightTask |-> NoCall]
    /\ agreed = {}

\* The aspects a command names, and those its optimistic write stores.
Named(request) ==
    CASE request.action = "level" \/ Splits(family, request) -> {"level"}
      [] request.action = "colour" -> {"colour"}
      [] request.action = "both" /\ ~Splits(family, request) -> Aspect
      [] OTHER -> {}

\* A combined packet waits for nothing and writes nothing.
Awaited(request) == request.action # "both" \/ Splits(family, request)

\* The aspects the store keeps of a family.
Stored(kind) ==
    (IF kind \in Power THEN {} ELSE {"level"}) \cup (IF kind \in Tunable THEN {"colour"} ELSE {})

\* The aspects of the lamp two of its states differ in.
Moved(a, b) ==
    {x \in Aspect : a[x] # b[x]}

\* The lamp changes: what the store and the calls knew of it is out of date.
LampBecomes(l) ==
    /\ lamp' = l
    /\ agreed' = agreed \ Moved(lamp, l)

Outdated(c, l) == [c EXCEPT !.knew = @ \ Moved(lamp, l)]

\* The entity's service call: the route is made from the state stored now.
LightCall(t, request) ==
    /\ calls[t].pc = "idle"
    /\ calls' = [calls EXCEPT ![t] =
          [pc |-> "sending", request |-> request, packet |-> Route(family, request, shown),
           knew |-> agreed]]
    /\ UNCHANGED <<family, lamp, shown, agreed>>

\* The packet reaches the lamp; over the LAN as the adapter completed it.
Delivered(t, via, pc) ==
    LET p == IF via = "lan" THEN Filled(calls[t].packet) ELSE calls[t].packet
        l == Obey(family, p, via, lamp)
    IN  /\ LampBecomes(l)
        /\ calls' = [u \in LightTask |->
              IF u # t THEN Outdated(calls[u], l)
              ELSE IF pc = "idle" THEN NoCall ELSE [Outdated(calls[t], l) EXCEPT !.pc = pc]]
        /\ UNCHANGED <<family, shown>>

\* The gateway takes the command; its answer is still to come.
LanDelivers(t) == calls[t].pc = "sending" /\ Delivered(t, "lan", "acking")

\* No connection, an error or no answer: the command goes out once more over
\* the cloud, and its echo is waited for.
FallBack(t) ==
    /\ calls[t].pc \in {"sending", "acking"}
    /\ calls' = [calls EXCEPT ![t].pc = "waiting"]
    /\ UNCHANGED <<family, lamp, shown, agreed>>

\* The cloud brings the packet to the lamp, in time or late, or never.
CloudDelivers(t) ==
    \/ calls[t].pc = "waiting" /\ Delivered(t, "ssl", "obeyed")
    \/ calls[t].pc = "late" /\ Delivered(t, "ssl", "idle")

CloudLoses(t) ==
    /\ calls[t].pc = "late"
    /\ calls' = [calls EXCEPT ![t] = NoCall]
    /\ UNCHANGED <<family, lamp, shown, agreed>>

\* The second half of a combined command on the property-based family.
Second(request) == [request EXCEPT !.action = "colour", !.level = Unset]

\* The call is over, or its second command starts, whatever became of the
\* first.  A packet still on its way keeps the slot until it arrives or is lost
\* (the first packet of two arrives in time or never).
CallEnds(t, state) ==
    IF Splits(family, calls[t].request)
      THEN LET r == Second(calls[t].request)
           IN  [calls EXCEPT ![t] = [pc |-> "sending", request |-> r,
                                     packet |-> Route(family, r, state), knew |-> agreed']]
      ELSE [calls EXCEPT ![t] = IF @.pc = "waiting" THEN [@ EXCEPT !.pc = "late"] ELSE NoCall]

\* No transport takes the command.
CallFails(t) ==
    /\ calls[t].pc \in {"sending", "acking"}
    /\ agreed' = agreed
    /\ calls' = CallEnds(t, shown)
    /\ UNCHANGED <<family, lamp, shown>>

\* The optimistic write tells the store the truth of an aspect when the lamp
\* holds just what was asked for.
AgreedAfter(request) ==
    IF ~Awaited(request) THEN agreed
    ELSE (agreed \ Named(request)) \cup
         {x \in Named(request) :
             IF x = "level" THEN lamp.level = request.level
             ELSE lamp.colour = OwnColour(family, request.colour)}

\* The gateway answered, or no usable echo came from the cloud in time: the
\* optimistic write.
CallSettles(t) ==
    LET state == OptimisticState(family, calls[t].request, shown)
    IN  /\ calls[t].pc \in {"acking", "waiting", "obeyed"}
        /\ shown' = state
        /\ agreed' = AgreedAfter(calls[t].request)
        /\ calls' = CallEnds(t, state)
        /\ UNCHANGED <<family, lamp>>

\* A bare receipt: enough for every command but power to skip the write.
CallReceipt(t) ==
    /\ calls[t].pc \in {"waiting", "obeyed"}
    /\ Named(calls[t].request) # {} /\ Awaited(calls[t].request)
    /\ agreed' = agreed
    /\ calls' = CallEnds(t, shown)
    /\ UNCHANGED <<family, lamp, shown>>

\* A push of the lamp, over either channel, is parsed into the store.
LightFields == {"power", "level", "colour"}

Heard(fields) ==
    Stored(family) \cap (fields \cup (IF family = "dim_color" THEN {} ELSE agreed))

LightPush(fields, sub) ==
    /\ shown' = Parsed(family, lamp, fields, sub, shown)
    /\ agreed' = Heard(fields)
    /\ UNCHANGED <<family, lamp, calls>>

\* The echo of a command carries the lamp's state; it is dispatched before the
\* waiter runs, and then nothing is written.
CallEchoed(t, sub) ==
    LET state == Parsed(family, lamp, LightFields, sub, shown)
    IN  /\ calls[t].pc \in {"waiting", "obeyed"}
        /\ Awaited(calls[t].request)
        /\ shown' = state
        /\ agreed' = Heard(LightFields)
        /\ calls' = CallEnds(t, state)
        /\ UNCHANGED <<family, lamp>>

\* merge_cloud with a fresh record of a value-based lamp: the values of the row
\* as they are in the table, past the parsers, the power inferred by protocol.
LightSnapshot ==
    /\ family \in {"zigbee", "dim_color", "fast_move"}
    /\ shown' = [state |-> lamp.on, brightness |-> lamp.level,
                 color_temp |-> IF family = "zigbee" THEN Unset ELSE lamp.colour]
    /\ agreed' = {"level"}
    /\ UNCHANGED <<family, lamp, calls>>

\* Somebody turns the wall control.
Dial(l) ==
    /\ LampBecomes(l)
    /\ calls' = [u \in LightTask |-> Outdated(calls[u], l)]
    /\ UNCHANGED <<family, shown>>

LightNext ==
    \/ \E t \in LightTask :
          \/ \E r \in {q \in Requests(family) : q.action \in Actions(family)} : LightCall(t, r)
          \/ LanDelivers(t) \/ FallBack(t) \/ CallFails(t)
          \/ CloudDelivers(t) \/ CloudLoses(t)
          \/ CallSettles(t) \/ CallReceipt(t)
          \/ \E sub \in BOOLEAN : CallEchoed(t, sub)
    \/ \E fields \in SUBSET LightFields \ {{}}, sub \in BOOLEAN : LightPush(fields, sub)
    \/ LightSnapshot
    \/ \E l \in [on : BOOLEAN, level : LampLevels(family), colour : LampColours(family)] : Dial(l)

LightSpec == LightInit /\ [][LightNext]_lightVars

-----------------------------------------------------------------------------
\* The delivery of call t did what its request asked, and nothing else.
Obeyed(t) ==
    LET r == calls[t].request
    IN
    /\ r.action = "off" => ~lamp'.on
    /\ r.action \in {"on", "level", "both"} => Lit(lamp')
    /\ "level" \in Named(r) => lamp'.level = r.level
    /\ "colour" \in Named(r) =>
          lamp'.colour = (IF family = "cct" THEN r.colour ELSE 1000000 \div r.colour)
    /\ \A x \in calls[t].knew \ Named(r) :
          x \in Moved(lamp, lamp') => x = "level" /\ lamp.level = 0

(***************************************************************************)
(* A delivered command does to the lamp what was asked and nothing else:   *)
(* it is lit after "on", a brightness or a combined command, it holds the  *)
(* brightness and the colour the user named, and what the user did not     *)
(* name stays as it was, provided the store had been told of it when the   *)
(* command was made and nobody has moved it since.  The router's defaults, *)
(* the conversions in light.py, packet.py and the parsers, and the filling *)
(* in of lan/control_adapter.py all take part.                             *)
(***************************************************************************)
LampFollowsCommands ==
    [][\A t \in LightTask : LanDelivers(t) \/ CloudDelivers(t) => Obeyed(t)]_lightVars

(***************************************************************************)
(* What the comment in light.py promises of the stored colour, that it is  *)
(* in Kelvin.  A cloud snapshot breaks it: device_to_dict copies value3,   *)
(* which is in mired for these lamps.                                      *)
(***************************************************************************)
StoredColourIsKelvin == shown.color_temp # Unset => shown.color_temp >= 2000

(***************************************************************************)
(* What light_values.py says of value1, that 0 is "on" for the legacy      *)
(* types.  A push is read the other way round unless it names its own      *)
(* subDeviceType: no caller hands the parsers the type of the device.      *)
(***************************************************************************)
PushedPowerShown ==
    [][\A fields \in SUBSET LightFields, sub \in BOOLEAN :
         LightPush(fields, sub) /\ "power" \in fields /\ lamp.level > 0
            => shown'.state = lamp.on]_lightVars

=============================================================================
