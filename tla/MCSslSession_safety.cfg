SPECIFICATION Spec
CONSTANTS
    Driver = {"watchdog", "unload"}
    Listener = {l1, l2, l3}
    Beat = {b1, b2}
    Stream = {s1, s2}
    None = None
    MaxAttempts = 2
    MaxFailures = 2
    SlowServer = FALSE
    DrainMayFail = FALSE
SYMMETRY Symmetry
INVARIANTS FlagPromisesStream FlagSupervised
