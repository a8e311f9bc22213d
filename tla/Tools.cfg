SPECIFICATION Spec
CONSTANTS
  Scenes = {"models", "map", "release", "gates", "query", "scaffold", "capture", "driver"}
  Callers = {c1, c2}
  Adapters = {"anthropic", "openai", "goopenai", "responses", "genai", "eino", "chainanthropic", "chainopenai", "chainother"}
  MaxCalls = 1
  Million = 4
  h1 = h1
  h2 = h2
  h3 = h3
  Rounds = 1
  MinScores = {0, 60}
  MaxRuns = 2
  Versions = {v1, v2}
  Old = v0
  MaxMoves = 3
  MaxCommits = 2
  Gated = {"tidy", "vuln", "floor", "floor -libs", "fuzz", "bench", "cover", "api", "verify", "snippets", "schema", "docs", "pkgstate", "audit"}
  Items = 2
  Tasks = {t1, t2}
  Bad = bad
  MaxLines = 2
  Limit = 2
  RemoteLimit = 2
  MaxFiles = 3
  Flags = {"auto", "chi", "gorilla"}
  Links = {"env"}
  MaxEdits = 1
  MaxFails = 2
  HttpServers = {"nethttp", "gin", "fasthttp", "hertz"}
  MaxBody = 1
  MaxNames = 2
  Arguments = {"value", "named", "special"}
  MaxUses = 3
  MaxRows = 1
  None = none
INVARIANTS ModelsTell MapTells ReposTell CommandsTell WrappersTell
PROPERTIES NeverFalls
CHECK_DEADLOCK FALSE
