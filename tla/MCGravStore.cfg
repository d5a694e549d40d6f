\* A guarded writer and a reader, a migration at every version, with a crash.
CONSTANTS
    w = w
    v = v
    r = r
    Procs = {w, r}
    Writers = {w}
    Guarded = {w}
    DBMaxSnapshot = 1
    MaxOps = 4
    MaxCrashes = 1
SPECIFICATION Spec
INVARIANTS TypeOK NothingLostAlone Recoverable
PROPERTIES OperationsEnd
CHECK_DEADLOCK FALSE
