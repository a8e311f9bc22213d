SPECIFICATION FairSpec
CONSTANTS
    Events = {e1, e2}
    N = 2
    Cap = 1
    MayHang = {1}
    Flushers = {f1}
    Closers = {c1}
    Timed = {f1, c1}
    None = none
INVARIANTS FlushCovers ClosedLast
PROPERTIES Isolation
CHECK_DEADLOCK FALSE
