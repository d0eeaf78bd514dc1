SPECIFICATION Spec
CONSTANTS
    Task = {t1, t2}
    MaxActive = 1
    MaxIssued = 3
    MaxAnswers = 2
    User = {u1, u2}
    EventTime = {1, 2}
    DoorOpenWindow = 2
    Nobody = Nobody
    Worker = {w1, w2}
    Chunk = {1, 2}
    Inode = {1, 2, 3, 4, 5}
SYMMETRY Symmetry
INVARIANTS
    LimitOverrunBounded
    RevokedIsGone
    OpenedByRecentUser
    
