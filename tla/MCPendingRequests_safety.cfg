SPECIFICATION Spec
CONSTANTS
    Task = {t1, t2}
    Device = {d1}
    Future = {f1, f2, f3, f4, f5}
    None = None
SYMMETRY Symmetry
INVARIANTS PendingIsRegistered ExclusiveKeysReleased
