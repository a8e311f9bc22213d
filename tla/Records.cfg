SPECIFICATION SceneSpec
CONSTANTS
  Scenes = {"event", "fields", "redact", "startup", "lines", "shape"}
  None = none
  NUnits = 3
  Threads = {t1, t2}
  NWrites = 2
  MaxFields = 1
  Keys = {audit, k1, k2}
  Audit = audit
  Leaves = {leaf}
  Maps = {map}
  Plain = plain
  Atoms = {a1, a2}
  Errors = {"e1", "e2"}
  Levels = {"info", "warn", "error"}
  Uses = {"groups", "records"}
  MaxKeys = 2
  MaxGroupFields = 1
  MaxArray = 1
  MaxAudit = 1
  MaxMemory = 3
  MaxLogs = 1
  MaxCalls = 1
  MaxErrors = 1
  MaxSteps = 5
  MaxDepth = 1
  MaxChains = 3
  Variables = {"TOKEN", "API_KEY", "DATASET", "MINE"}
  Reporters = {"p", "q"}
  MaxReports = 3
  MaxMinutes = 1
  Adapters = {"slog", "logr", "hclog", "zap", "logrus", "zerolog", "hook", "std"}
  Writers = {w1, w2}
  LineUnits = {1, 2}
  LineLevels = {"debug", "fatal"}
  LineKeys = {"k", "level"}
  Groups = {"g"}
  MaxLineCalls = 2
  MaxLines = 1
  MaxMade = 2
INVARIANTS WritesKept FieldsTell RedactedByRule StartTells LinesTell
CHECK_DEADLOCK FALSE
