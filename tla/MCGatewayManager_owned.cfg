SPECIFICATION FairSpec
CHECK_DEADLOCK FALSE
CONSTANTS
    Host = {h1, h2}
    Caller = {t1, t2}
    ConnId = {c1, c2, c3}
    RecordId = {r1}
    None = None
    MissTolerance = 2
    SnapshotMayOmit = FALSE
INVARIANTS EveryConnectionOwned OnePushingConnection CloseIsFinal
PROPERTIES CloseTerminates
