SPECIFICATION SceneSpec
CONSTANTS
  Works = {w1}
  Lines = {l1}
  Recorders = {r1, r2}
  w1 = w1
  l1 = l1
  r1 = r1
  r2 = r2
  NDrains = 2
  Closable = {1, 2}
  MayStick = {1}
  HeadSampler = TRUE
  Keepers = TRUE
  NoWork = nowork
  Casts <- MCCasts
  Scenes = {"senders"}
  Backends = {"elastic"}
  NEvents = 3
  Sizes = {1}
  MaxBytes = 2
  MaxItems = 2
  Tags = {0, 1}
  Span = 1
  MaxAttempts = 2
  MaxBackups = 2
  MaxSize = 2
  MaxAged = 1
  MaxFaults = 2
  None = none
  Stale = stale
  MemorySenders = {s1, s2}
  Streams = {t1}
  Size = 2
  Buffer = 1
  MaxSends = 4
  MaxClears = 1
  Networks = {"stream", "udp"}
  MaxConns = 3
  MaxSyslogFaults = 2
  Units = {1, 2, 3}
  Tracers = {x1}
  MaxOperations = 1
  Journals = {j1}
  Records = {e1}
  Every = 2
  MaxTrouble = 0
INVARIANTS AllAccounted
CHECK_DEADLOCK FALSE
