SPECIFICATION StuckSpec
CONSTANTS
    Emitters = {e1, e2}
    Flushers = {f1}
    Closers = {c1, c2}
    Patient = {}
    Nobody = nobody
    NLines = 3
    Size = 2
INVARIANTS LinesKept
PROPERTIES FlushCovers WriteReturns
CHECK_DEADLOCK FALSE
