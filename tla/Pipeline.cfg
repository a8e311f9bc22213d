SPECIFICATION Spec
CONSTANTS
    Senders = {s1, s2}
    Flushers = {f1}
    Closers = {c1}
    Worker = worker
    Nobody = nobody
    e1 = e1
    e2 = e2
    e3 = e3
    e4 = e4
    Events = {e1, e2, e3}
    Level <- Alike
    NoLevel = NoLevel
    Audit = {}
    MinLevel = 0
    BatchSize = 2
    MaxBuffer = 2
    MaxAttempts = 2
SYMMETRY Symmetry
INVARIANTS TypeOK Custody OneInFlight CloseDrains NoLostWakeup
PROPERTIES FlushSettles Delivers
