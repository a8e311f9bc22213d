------------------------------- MODULE MCTools -------------------------------
(***************************************************************************)
(* The AI adapters, the commands, the tools of the repository, what an      *)
(* exchange records and what a wrapped driver does, under one run: a        *)
(* behaviour picks one of them (scene); the variables of the others stay    *)
(* idle.                                                                    *)
(***************************************************************************)
EXTENDS Naturals, Sequences, SequencesExt

CONSTANTS Scenes,
          Callers, Adapters, MaxCalls, Million,                          \* Models
          h1, h2, h3, Rounds, MinScores, MaxRuns,                        \* ScoreMap
          Versions, Old, MaxMoves, MaxCommits,                           \* Release
          Gated, Items, Tasks,                                           \* Gates
          Bad, MaxLines, Limit, RemoteLimit, MaxFiles,                   \* Query
          Flags, Links, MaxEdits, MaxFails,                              \* Scaffold
          HttpServers, MaxBody, MaxNames,                                \* Capture
          Arguments, MaxUses, MaxRows,                                   \* SqlDriver
          None

(* What providers count: a cache read and written with its two kinds told apart, a  *)
(* stream that never tells its usage, a total with a paid price and tool calls, and *)
(* a model that is in no table.                                                     *)
Plain == [fresh |-> 3, read |-> 0, w5 |-> 0, w1h |-> 0, tooling |-> 0, out |-> 5, thought |-> 2,
          tools |-> 0, finish |-> "stop", model |-> "a", own |-> None, split |-> TRUE,
          final |-> FALSE, tells |-> TRUE]
MCAnswers == {[Plain EXCEPT !.read = 4, !.w5 = 2, !.w1h = 9],
              [Plain EXCEPT !.w1h = 9, !.final = TRUE, !.tells = FALSE, !.model = "b"],
              [Plain EXCEPT !.w5 = 6, !.split = FALSE, !.final = TRUE, !.tools = 2, !.own = 7,
                            !.tooling = 1],
              [Plain EXCEPT !.model = "c", !.tools = 1, !.read = 1]}
MCPrices == [a |-> [input |-> 10, read |-> 1, w5 |-> 13, w1h |-> 20, output |-> 50],
             b |-> [input |-> 7, read |-> 0, w5 |-> 0, w1h |-> 0, output |-> 0]]

(* A sensitive route, a read and a write, all of one name; the last is in a package *)
(* that no round of loading reaches.                                                *)
MCHandlers == {h1, h2, h3}
MCBodies == {{"sets", "audits"}, {"fails", "prints", "near", "unexplained"},
             {"fails", "reports", "guided", "prints", "excused", "swallows"}}
MCRoute == [h \in MCHandlers |-> CASE h = h1 -> "sensitive" [] h = h2 -> "read" [] h = h3 -> "write"]
MCName  == [h \in MCHandlers |-> "handler"]
MCDepth == [h \in MCHandlers |-> IF h = h3 THEN Rounds + 1 ELSE 0]

(* A root module, and two that require each other's releases or the root's. *)
MCMods  == << <<>>, <<"lib">>, <<"lib", "sub">> >>
MCNeeds == [m \in ToSet(MCMods) |-> CASE m = <<>> -> {} [] m = <<"lib">> -> {<<"lib", "sub">>}
                                     [] OTHER -> {<<>>}]

(* Events with a status of HTTP, of RPC and of both, and one whose time does not parse;  *)
(* filters that ask nothing, each thing once, and conditions on a field.                 *)
Amount(n) == <<"number", n>>
Nothing   == <<"absent">>
Line(level, stamp, op, http, rpc, code, value, says) ==
    [level |-> level, kind |-> "request", stamp |-> stamp, op |-> op, http |-> http, rpc |-> rpc,
     cli |-> Nothing, code |-> code, value |-> value, says |-> says]
MCEvents == {Line("error", 1, <<"a", "/", "b">>, Amount(500), Nothing, 1, Nothing, {"declined"}),
             Line("info", None, <<"a">>, Nothing, Amount(2), 1, Amount(7), {}),
             Line("error", 2, <<"a", "/", "b">>, Amount(200), Amount(5), 2, Amount(3), {"declined"})}
MCAppended == {e \in MCEvents : e.stamp # 1}
AskAll == [levels |-> {}, kinds |-> {}, since |-> None, until |-> None, op |-> None,
           status |-> None, code |-> None, where |-> {}, text |-> None]
MCFilters ==
    {AskAll,
     [AskAll EXCEPT !.levels = {"error"}, !.kinds = {"request"}, !.until = 1, !.text = "declined",
                    !.op = <<"a", "**">>, !.status = [op |-> ">=", value |-> Amount(200)]],
     [AskAll EXCEPT !.op = <<"?", "*">>,
                    !.where = {[op |-> "?", value |-> None], [op |-> "!=", value |-> Amount(3)],
                               [op |-> "<", value |-> Amount(9)]}]}

(* No file, a router with or without a middleware the rules see, wrapped handlers, a name *)
(* that is taken, and code that another check faults; AGENTS.md with any three lines.     *)
Router(kind, covers, seen) == [kind |-> kind, covers |-> covers, seen |-> seen]
Code(imports, declares, sites) ==
    [saved |-> 0, imports |-> imports, declares |-> declares, sites |-> sites, compiles |-> TRUE,
     faults |-> {}]
MCLayouts ==
    {None, Code({"chi"}, {}, <<Router("chi", {}, FALSE)>>),
     Code({"chi"}, {}, <<Router("chi", {"user"}, TRUE), Router("chi", {}, FALSE)>>),
     Code({"nethttp"}, {}, <<Router("nethttp", {}, FALSE), Router("nethttp", {}, FALSE)>>),
     Code({}, {"NewLogger"}, <<Router("huma", {}, FALSE)>>), Code({}, {}, <<Router("huma", {}, FALSE)>>),
     [Code({"nethttp"}, {}, <<Router("chi", {"user"}, FALSE)>>) EXCEPT !.faults = {"score"}]}
MCDocuments == UNION {[1..n -> {"text", "start", "end"}] : n \in 0..3}

(* Capture: lists of one and two options; requests that differ in the hops they came   *)
(* over, the names and the body they carry, their path and their route; and two        *)
(* requests on one Core that differ in the route.                                      *)
Option(name, arg) == [name |-> name, arg |-> arg]
Keep   == Option("CaptureResponseHeaders", {"x-debug"})
Logins == Option("ForRoute", [pattern |-> <<"POST ", "login">>, options |-> <<Keep, Option("CaptureBody", FALSE)>>])
AnyPut == Option("ForRoute", [pattern |-> <<"*", "**">>, options |-> <<Option("CaptureAll", None)>>])
OneOption == {Option("CaptureAll", None), Option("CaptureBody", TRUE), Option("CaptureBody", FALSE),
    Option("BodyTypes", {"json"}), Option("CaptureHeaders", {"auth"}), Keep,
    Option("CookieValues", {1}), Option("TrustedProxies", "proxy"), Option("TrustedProxies", "net"),
    Option("TrustedProxies", "typo"), Option("TrustRequestID", FALSE), Option("EchoRequestID", FALSE),
    Option("SkipPaths", <<"health", "**">>), Option("SkipPaths", <<"**", "*", "live">>), Logins}
SamplePrograms == {<<>>} \cup {<<o>> : o \in OneOption}
    \cup {<<Logins, AnyPut>>, <<AnyPut, Logins>>, <<Keep, Logins>>}
    \cup {<<Option("CaptureBody", FALSE), Option("CaptureAll", None)>>,
          <<Option("CaptureAll", None), Option("CaptureBody", FALSE)>>,
          <<Option("CaptureAll", None), Option("CookieValues", {1})>>,
          <<Option("CaptureBody", TRUE), Option("BodyTypes", {"json"})>>,
          <<Option("TrustedProxies", "typo"), Option("TrustedProxies", "net")>>}
SampleSetups ==
    {<<"production", p>> : p \in SamplePrograms}
    \cup {<<"local", p>> : p \in {<<>>, <<Option("CaptureBody", FALSE)>>, <<Option("CookieValues", {1})>>}}

Body(type, size, parses, encoded) == [type |-> type, size |-> size, parses |-> parses, encoded |-> encoded]
Empty == Body("other", 0, FALSE, FALSE)
Ask == [method |-> "POST ", path |-> <<"a">>, route |-> <<"a">>, hops |-> <<"client">>, claim |-> <<>>,
        ownLines |-> FALSE, proto |-> None, scheme |-> "http", headers |-> <<>>, query |-> <<>>,
        cookies |-> <<>>, body |-> Empty, declares |-> TRUE, id |-> None]
Travels ==
    {[Ask EXCEPT !.hops = h, !.claim = c, !.proto = "https"] :
        h \in {<<"client">>, <<"client", "proxy">>, <<"client", "edge", "proxy">>, <<"client", "proxy", "edge">>},
        c \in {<<>>, <<"liar">>, <<"liar", "proxy">>, <<"unknown">>}}
    \cup {[Ask EXCEPT !.hops = <<"client", "proxy">>, !.claim = <<"liar">>, !.ownLines = TRUE]}
Names == {[Ask EXCEPT !.headers = << <<"accept", 1>>, <<"auth", 1>>, <<"auth", 2>> >>,
                      !.query = << <<1, "a">>, <<2, "b">>, <<1, "c">>, <<3, "d">> >>,
                      !.cookies = << <<1, "a">>, <<2, "b">>, <<1, "c">> >>, !.id = i] :
              i \in {None, "invalid", "given"}}
Posts == {[Ask EXCEPT !.body = b, !.method = m, !.declares = (b.size # 1), !.route = <<"login">>] :
              b \in {Body("json", 1, p, e) : p \in BOOLEAN, e \in BOOLEAN}
                    \cup {Body(t, 2, TRUE, FALSE) : t \in {"json", "form", "text", "other"}},
              m \in {"POST ", "HEAD "}}
Paths == {[Ask EXCEPT !.path = p] : p \in {<<"health">>, <<"health", "live">>, <<"x", "health", "live">>}}
Login == [Ask EXCEPT !.route = <<"login">>]
Group == [Ask EXCEPT !.route = <<"v1", "*">>]
SampleCrowds == {<<a>> : a \in Travels \cup Names \cup Posts \cup Paths \cup {Group}} \cup {<<Login, Ask>>, <<Group, Login>>}

Answer(status, body) ==
    [kind |-> "answer", id |-> None, status |-> status, body |-> body,
     headers |-> << <<"location", 1>>, <<"x-debug", 1>>, <<"x-debug", 2>> >>]
SampleAnswers == {Answer(200, Body("json", 1, TRUE, FALSE)), Answer(200, Body("json", 2, TRUE, FALSE)),
    Answer(200, Body("text", 2, FALSE, FALSE)), Answer(204, Body("text", 1, FALSE, FALSE)),
    Answer(404, Empty)}
SampleErrors == {[status |-> 0, code |-> "a", message |-> "m", link |-> None],
                 [status |-> 404, code |-> "b", message |-> "n", link |-> "l"]}
(* SqlDriver: drivers that lack some of the interfaces of a full one, or have one more.  *)
FullDriver == {"ExecContext", "QueryContext", "PrepareContext", "BeginTx", "Ping", "Stmt.ExecContext",
               "Stmt.QueryContext", "ScanType", "ResetSession", "IsValid", "Stmt.CheckNamedValue"}
SampleDrivers ==
    {FullDriver, {}}
    \cup {(FullDriver \ s) \cup t : s \in SUBSET {"ExecContext", "PrepareContext", "Stmt.ExecContext"},
                                     t \in SUBSET {"CheckNamedValue", "ColumnConverter"}}
    \cup {(FullDriver \ {"Stmt.CheckNamedValue"}) \cup t : t \in SUBSET {"CheckNamedValue", "ColumnConverter"}}
    \cup {FullDriver \ s : s \in {{"ResetSession"}, {"IsValid"}, {"ResetSession", "IsValid"}, {"BeginTx", "Ping"}}}
    \cup {FullDriver \cup {i} : i \in {"ScanColumn", "NextResultSet", "Connector.Close"}}
    \cup {FullDriver \ {"QueryContext", "Stmt.QueryContext"}, FullDriver \ {"ScanType"}, (FullDriver \ {"QueryContext"}) \cup {"Query"},
          (FullDriver \ {"ExecContext"}) \cup {"Exec"}}
OddAnswers == {<<m, "fail">> : m \in {"Prepare", "Stmt.QueryContext", "IsValid", "Begin", "Rows.Close", "Next"}}
              \cup {<<m, "skip">> : m \in {"ExecContext", "QueryContext", "CheckNamedValue", "Stmt.CheckNamedValue"}}

VARIABLES scene
VARIABLES pc, adapter, answer, left, rec, raw, saw, group, refused, calls, dropped, first,
          added, broken
VARIABLES code, config, baseline, files, head, runs, run
VARIABLES tree, index, rhead, tags, changed, moves, rpc, version, plan, todo
VARIABLES gate, items, next, bad, touched, verdict
VARIABLES use, filter, oldest, qpc, sources, pos, line, remote, kept, skipped, exit, qfiles,
          partial, away, fd, at, carry, printed, ends
VARIABLES wfiles, agentsMD, skill, wpc, wplan, wtodo, saved, edits, fails, wcode, torn, before,
          stepped, unrestored
VARIABLES server, program, env, core, request, stage, recorded, listed, reply
VARIABLES has, odd, arg, cancelled, used, open, read, did, got, alive, xcalls, xran

M == INSTANCE Models WITH Answers <- MCAnswers, Prices <- MCPrices
C == INSTANCE ScoreMap WITH Handlers <- MCHandlers, Bodies <- MCBodies, RouteOf <- MCRoute,
         NameOf <- MCName, Depth <- MCDepth
R == INSTANCE Release WITH Mods <- MCMods, Needs <- MCNeeds, head <- rhead, pc <- rpc
G == INSTANCE Gates WITH Kinds <- Gated
Q == INSTANCE Query WITH Events <- MCEvents, Appended <- MCAppended, Filters <- MCFilters,
         pc <- qpc, files <- qfiles
W == INSTANCE Scaffold WITH Layouts <- MCLayouts, Documents <- MCDocuments, files <- wfiles,
         pc <- wpc, plan <- wplan, todo <- wtodo, code <- wcode
K == INSTANCE Capture WITH Servers <- HttpServers, Setups <- SampleSetups,
         Crowds <- SampleCrowds, Answers <- SampleAnswers, Errors <- SampleErrors
D == INSTANCE SqlDriver WITH Drivers <- SampleDrivers, Odd <- OddAnswers, Args <- Arguments,
         calls <- xcalls, ran <- xran

ASSUME M!ModelsAssumption /\ C!ScoreMapAssumption
ASSUME R!ReleaseAssumption /\ G!GatesAssumption /\ Q!QueryAssumption
ASSUME W!ScaffoldAssumption

models   == <<pc, adapter, answer, left, rec, raw, saw, group, refused, calls, dropped, first,
              added, broken>>
score    == <<code, config, baseline, files, head, runs, run>>
release  == <<tree, index, rhead, tags, changed, moves, rpc, version, plan, todo>>
gates    == <<gate, items, next, bad, touched, verdict>>
query    == <<use, filter, oldest, qpc, sources, pos, line, remote, kept, skipped, exit, qfiles,
              partial, away, fd, at, carry, printed, ends>>
scaffold == <<wfiles, agentsMD, skill, wpc, wplan, wtodo, saved, edits, fails, wcode, torn,
              before, stepped, unrestored>>
capture  == <<server, program, env, core, request, stage, recorded, listed, reply>>
driver   == <<has, odd, arg, cancelled, used, open, read, did, got, alive, xcalls, xran>>
vars     == <<scene, models, score, release, gates, query, scaffold, capture, driver>>

(* The variables of a scene that is not played. *)
Idle == 0
NoModels ==
    /\ pc = Idle /\ adapter = Idle /\ answer = Idle /\ left = Idle /\ rec = Idle /\ raw = Idle
    /\ saw = Idle /\ group = Idle /\ refused = Idle /\ calls = Idle /\ dropped = Idle
    /\ first = Idle /\ added = Idle /\ broken = Idle
NoScoreMap ==
    /\ code = Idle /\ config = Idle /\ baseline = Idle /\ files = Idle /\ head = Idle
    /\ runs = Idle /\ run = Idle
NoRelease ==
    /\ tree = Idle /\ index = Idle /\ rhead = Idle /\ tags = Idle /\ changed = Idle
    /\ moves = Idle /\ rpc = Idle /\ version = Idle /\ plan = Idle /\ todo = Idle
NoGates ==
    /\ gate = Idle /\ items = Idle /\ next = Idle /\ bad = Idle /\ touched = Idle
    /\ verdict = Idle
NoQuery ==
    /\ use = Idle /\ filter = Idle /\ oldest = Idle /\ qpc = Idle /\ sources = Idle
    /\ pos = Idle /\ line = Idle /\ remote = Idle /\ kept = Idle /\ skipped = Idle
    /\ exit = Idle /\ qfiles = Idle /\ partial = Idle /\ away = Idle /\ fd = Idle /\ at = Idle
    /\ carry = Idle /\ printed = Idle /\ ends = Idle
NoScaffold ==
    /\ wfiles = Idle /\ agentsMD = Idle /\ skill = Idle /\ wpc = Idle /\ wplan = Idle
    /\ wtodo = Idle /\ saved = Idle /\ edits = Idle /\ fails = Idle /\ wcode = Idle
    /\ torn = Idle /\ before = Idle /\ stepped = Idle /\ unrestored = Idle
NoCapture ==
    /\ server = Idle /\ program = Idle /\ env = Idle /\ core = Idle /\ request = Idle
    /\ stage = Idle /\ recorded = Idle /\ listed = Idle /\ reply = Idle
NoDriver ==
    /\ has = Idle /\ odd = Idle /\ arg = Idle /\ cancelled = Idle /\ used = Idle /\ open = Idle
    /\ read = Idle /\ did = Idle /\ got = Idle /\ alive = Idle /\ xcalls = Idle /\ xran = Idle

Plays(name, init, idle) == IF scene = name THEN init ELSE idle
Init ==
    /\ scene \in Scenes
    /\ Plays("models", M!Init, NoModels)
    /\ Plays("map", C!Init, NoScoreMap)
    /\ Plays("release", R!Init, NoRelease)
    /\ Plays("gates", G!Init, NoGates)
    /\ Plays("query", Q!Init, NoQuery)
    /\ Plays("scaffold", W!Init, NoScaffold)
    /\ Plays("capture", K!Init, NoCapture)
    /\ Plays("driver", D!Init, NoDriver)

Next ==
    \/ scene = "models"   /\ M!Next
       /\ UNCHANGED <<scene, score, release, gates, query, scaffold, capture, driver>>
    \/ scene = "map"      /\ C!Next
       /\ UNCHANGED <<scene, models, release, gates, query, scaffold, capture, driver>>
    \/ scene = "release"  /\ R!Next
       /\ UNCHANGED <<scene, models, score, gates, query, scaffold, capture, driver>>
    \/ scene = "gates"    /\ G!Next
       /\ UNCHANGED <<scene, models, score, release, query, scaffold, capture, driver>>
    \/ scene = "query"    /\ Q!Next
       /\ UNCHANGED <<scene, models, score, release, gates, scaffold, capture, driver>>
    \/ scene = "scaffold" /\ W!Next
       /\ UNCHANGED <<scene, models, score, release, gates, query, capture, driver>>
    \/ scene = "capture"  /\ K!Next
       /\ UNCHANGED <<scene, models, score, release, gates, query, scaffold, driver>>
    \/ scene = "driver"   /\ D!Next
       /\ UNCHANGED <<scene, models, score, release, gates, query, scaffold, capture>>

Spec == Init /\ [][Next]_vars

----------------------------------------------------------------------------
(* The properties of each module, in its scene.                                 *)

(* ai and llm: a record says what its provider counted, whichever SDK told it,   *)
(* and the totals and the cost of an event are the sums of its calls.            *)
ModelsTell == scene = "models" => M!OneShape /\ M!AddsUp /\ M!MoneyAddsUp
(* wlog map: the score, the gate and the analyzer agree with the rules.          *)
MapTells == scene = "map" => C!MapTells
(* wlog map -baseline: the score of the baseline never falls.                    *)
NeverFalls == [][scene = "map" => C!FallsNot]_vars

(* tools/release, tools/affected and the gates of tools: modules are tagged in the order *)
(* of their requires at the version they carry, and a gate passes when its items do.     *)
ReposTell == /\ scene = "release" => R!ReleasesTell
             /\ scene = "gates" => G!GatesTell
(* wlog query, init, doctor and agents: the events asked for are printed once each, in   *)
(* order; a failed init leaves the application as it was, and what a tool writes keeps   *)
(* what its owner wrote.                                                                  *)
CommandsTell == /\ scene = "query" => Q!QueriesTell
                /\ scene = "scaffold" => W!ScaffoldTells
(* httpcore: what the event keeps of a request and its answer is what the options  *)
(* of its Core allow; and store/sql shows database/sql the driver it wraps.        *)
WrappersTell ==
    /\ scene = "capture" => K!CaptureTells
    /\ scene = "driver" => D!DriverTells

(* What the documents say, and the code does not do.                             *)

(* docs/customization.md: -suggest of the analyzer reports suggestions.          *)
SuggestionsShown == scene = "map" => C!SuggestionsShown
=============================================================================
