SPECIFICATION FairSpec
CONSTANTS
    Driver = {"command"}
    Listener = {l1, l2, l3}
    Beat = {b1}
    Stream = {s1, s2}
    None = None
    MaxAttempts = 2
    MaxFailures = 1
    SlowServer = TRUE
    DrainMayFail = TRUE
PROPERTIES CallsReturn
