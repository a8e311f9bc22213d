SPECIFICATION Spec
CONSTANTS
    Keys = {audit, k1, k2}
    Audit = audit
    Leaves = {leaf}
    Maps = {map}
    Plain = plain
    Atoms = {a1, a2}
    Errors = {"e1", "e2"}
    Levels = {"info", "warn", "error"}
    Uses = {"merges"}
    MaxKeys = 2
    MaxGroupFields = 1
    MaxArray = 1
    MaxAudit = 1
    MaxMemory = 3
    MaxLogs = 1
    MaxCalls = 1
    MaxErrors = 1
    MaxSteps = 5
SYMMETRY Symmetry
INVARIANTS MemoryBounded
CHECK_DEADLOCK FALSE
