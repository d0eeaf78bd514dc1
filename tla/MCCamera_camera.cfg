SPECIFICATION Spec
CONSTANTS
    Pipe = {p1, p2, p3}
    Caller = {c1, c2}
    NoPipe = NoPipe
    RecoveryAttempts = 2
    SlowReap = FALSE
    Candidates = 3
    MaxRecords = 3
    Op = {o1, o2, o3}
    Recording = {r1, r2}
    NoRecording = NoRecording
    NoOp = NoOp
    MaxBridges = 3
    Vendor = {v1, v2}
    Selected = {v1}
    Serial = {s1, s2}
    Channel = {0, 1}
    MaxRows = 3
    MaxNvrs = 1
INVARIANTS
    EveryPipelineOwned
    DecoderFedOneStream
    StreamShowsSelection
    CameraKeepsIdentity
PROPERTIES ClosedGoesDark
CHECK_DEADLOCK FALSE
