SPECIFICATION Spec
CONSTANTS
    Device <- MCDevice
    Field <- MCField
    Value <- MCValue
    NoValue = NoValue
    PriorityGuardSeconds = 2
    Kind <- MCKind
    Channel <- MCChannel
    ResetDelay <- MCResetDelay
    OfflineTimeout = 2
    CloudStaleSeconds = 3
    MaxStarting = 2
    MaxTime = 5
INVARIANTS
    DetectionWillEnd
    OfflineOnlyOnCloudsWord
