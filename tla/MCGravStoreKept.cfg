\* A guarded writer and a reader, who need not wait for Writing.
CONSTANTS
    w = w
    v = v
    r = r
    Procs = {w, r}
    Writers = {w}
    Guarded = {w}
    DBMaxSnapshot = 2
    MaxOps = 4
    MaxCrashes = 0
SPECIFICATION Spec
INVARIANTS NothingLost
CHECK_DEADLOCK FALSE
