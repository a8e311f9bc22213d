SPECIFICATION FairSpec
CONSTANTS
    Senders = {s1}
    Flushers = {f1}
    Closers = {c1}
    Worker = worker
    Nobody = nobody
    e1 = e1
    e2 = e2
    e3 = e3
    e4 = e4
    Events = {e1, e3, e4}
    Level <- MCLevel
    NoLevel = NoLevel
    Audit <- MCAudit
    MinLevel = 1
    BatchSize = 2
    MaxBuffer = 2
    MaxAttempts = 2
PROPERTIES EventuallySettled FlushReturns CloseEndsWorker
