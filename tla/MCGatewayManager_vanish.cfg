SPECIFICATION Spec
CHECK_DEADLOCK FALSE
CONSTANTS
    Host = {h1, h2}
    Caller = {t1}
    ConnId = {c1, c2, c3}
    RecordId = {r1, r2}
    None = None
    MissTolerance = 2
    SnapshotMayOmit = TRUE
SYMMETRY Symmetry
INVARIANTS PushesOnlyTrusted
