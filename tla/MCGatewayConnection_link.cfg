SPECIFICATION FairSpec
CONSTANTS
    Caller = {t1, t2}
    MaxGeneration = 4
    AllowMissingUid = TRUE
    SameMillisecond = TRUE
INVARIANTS ConnectedIsSupervised WaitersReachable NoSocketLost ConfirmedIsGenuine
PROPERTIES SilenceNoticed ImplementsLink
