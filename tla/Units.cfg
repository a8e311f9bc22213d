SPECIFICATION FairSpec
CONSTANTS
  Scenes = {"exchange", "calls", "units", "consumers", "sessions"}
  Requests = {r1, r2}
  HttpAdapters = {"nethttp", "gin", "fasthttp", "hertz"}
  Informational = {}
  MaxBody = 1
  MaxSteps = 3
  CrowdSteps = 0
  Buffers = {b1, b2, b3, b4}
  CallAdapters = {"gorm", "redis", "http", "exec", "rows", "mongo", "kafkago", "franz", "connectstream"}
  MaxOps = 2
  MaxMessages = 2
  Wrappers = {"grpc", "connect", "cobra", "urfave", "kong", "gcf", "cron", "ticker"}
  MaxTicks = 3
  QueueAdapters = {"amqp", "sqs", "watermill", "cloudevents", "kafkago", "sarama", "lambdasqs", "lambdastream", "asynq", "river"}
  Workers = {w1, w2}
  NMessages = 2
  MaxBatch = 2
  MaxAttempts = 2
  MaxFailures = 2
  MaxFaults = 1
  Clients = {q1, q2, q3}
  Sessions = {s1}
  Ids = {i1, i2}
  ServerKinds = {"hooks", "middleware"}
  Capacity = 2
  Cutoff = cutoff
  None = none
INVARIANTS TrafficTells UnitsTell LeavesHandled SessionsTell
PROPERTIES Drained
CHECK_DEADLOCK FALSE
