SPECIFICATION CommandSpec
CONSTANTS
    Device = {d1}
    Field = {f1}
    Value = {on, off}
    NoValue = NoValue
    DefaultValue = off
    MessageField = {f1}
    RowField = {f1}
    Poller = {poll, resync}
    TransportMode = "auto"
    ControlKind = {"power", "cover", "confirmed", "ventilation", "ac", "direct", "clothes_horse", "send_only", "ac_power", "ventilation_power"}
    PriorityGuardSeconds = 2
    ReadTimeout = 1
    MissingDeviceTolerance = 2
    MaxTime = 3
    LightKind = {"legacy", "mono", "dimmable", "zigbee", "dim_color", "fast_move", "cct"}
    LightTask = {l1}
    HaLevel = {0, 128}
    Kelvin = {5000}
    LampLevel = {40}
    LampMired = {167}
    AcMode = {4}
    AcFan = {2}
    AcTarget = {2000}
    AcRoom = 2600
    CurtainTask = {u1, u2}
    Position = {0, 60}
    Tilt = {0, 50}
INVARIANTS RevisionsOwned 
PROPERTIES ControlLeavesNoStaleState PushedValueNotRolledBack RemovedOnlyAfterTolerance LampFollowsCommands SettingsSurvive 
