----------------------------- MODULE MCRecords ------------------------------
(***************************************************************************)
(* What an event carries, under one run: its life and its writes (Event),   *)
(* the fields and caps of one event (Fields), its redaction (Redact), the   *)
(* Logger's start and reports (Startup), the lines of other loggers that    *)
(* fold into an event (LogLines), and the shape a statement is recorded by  *)
(* (Shape).                                                                *)
(* A behaviour plays one of them (scene); the variables of the others keep  *)
(* their first values, and while Event is not played no event is opened.    *)
(***************************************************************************)
EXTENDS Event, Sequences, SequencesExt

CONSTANTS Scenes,
          Keys, Audit, Leaves, Maps, Plain, Atoms, Errors, Levels, Uses, MaxKeys, MaxGroupFields,
          MaxArray, MaxAudit, MaxMemory, MaxLogs, MaxCalls, MaxErrors, MaxSteps,
          MaxDepth, MaxChains,
          Variables, Reporters, MaxReports, MaxMinutes,
          Adapters, Writers, LineUnits, LineLevels, LineKeys, Groups, MaxLineCalls, MaxLines, MaxMade

----------------------------------------------------------------------------
(* Redact: keys of one, two and three words, with two words glued together; entries of *)
(* each kind; and events up to three levels deep.                                       *)
Card == <<"card">>
Number == <<"number">>
User == <<"user">>
Pin  == <<"pin">>
CardKey == <<Card>>
UserKey == <<User>>
UserPin == <<User, Pin>>
CardGlued      == <<Card \o Number>>
UserCardNumber == <<User, Card, Number>>
Ip             == <<<<"ip">>>>

CardLeaf == [kind |-> "leaf", tokens |-> <<Card, Number>>]
PinLeaf  == [kind |-> "leaf", tokens |-> <<Pin>>]
PinGlob  == [kind |-> "glob", last |-> Pin]
UserPath == [kind |-> "path", segs |-> <<UserKey, CardKey>>]

Option(op, of) == [op |-> op, arg |-> of]
Add(e)  == Option("add", e)
Take(e) == Option("remove", e)
MCDefaults == <<CardLeaf>>
MCChains ==
    {<<>>, <<Add(PinGlob)>>, <<Add(UserPath)>>, <<Add(PinLeaf), Option("enable", "nik")>>,
     <<Take(CardLeaf)>>, <<Take(PinGlob), Add(PinLeaf)>>, <<Add(PinLeaf), Take(PinLeaf)>>,
     <<Add(PinLeaf), Option("replace", "none"), Add(UserPath)>>, <<Option("without", "ipv4")>>,
     <<Option("maskip", "none")>>, <<Option("nobuiltin", "none"), Option("pattern", "mine")>>}

Text(hits, big) == [kind |-> "text", hits |-> hits, big |-> big]
Bottom == {Text({}, FALSE), Text({"ipv4", "mine"}, FALSE), Text({"nik"}, TRUE),
           [kind |-> "int", hits |-> {"nik"}], [kind |-> "other"]}
Of(kind, content) == [kind |-> kind, of |-> content]
Boxes(v) == {Of("map", k :> v) : k \in {CardKey, UserPin, CardGlued}} \cup {Of("list", <<v>>)}
            \cup (IF v.kind # "text" THEN {}
                  ELSE {Of("smap", CardKey :> v), Of("strings", <<v>>)})
Lower == UNION {Boxes(v) : v \in Bottom}
Upper == UNION {{Of("map", CardKey :> v), Of("map", Ip :> v), Of("list", <<v>>)} :
                    v \in {x \in Lower : x.kind = "map"}}
MCSamples == {k :> v : k \in {UserCardNumber, UserKey, UserPin}, v \in Bottom \cup Lower \cup Upper}

(* Startup: a built-in with two required variables, one with an alias, the file drain, *)
(* and a factory of the caller's by the same name.                                      *)
Var(names, required) == [names |-> names, required |-> required]
MCBuiltins == <<[name |-> "axiom", mayFail |-> FALSE,
                 vars |-> {Var(<<"TOKEN", "API_KEY">>, TRUE), Var(<<"DATASET">>, TRUE)}],
                [name |-> "file", mayFail |-> TRUE, vars |-> {Var(<<"PATH">>, FALSE)}]>>
MCExtras   == <<[name |-> "file", mayFail |-> FALSE, vars |-> {Var(<<"MINE">>, TRUE)}]>>
MCWishes   == {<<"axiom", "file">>, <<"file", "axiom", "nosuch">>, <<"file", "file">>}
MCOptions  == {<<>>, <<"fromenv">>, <<"onproblem", "fromenv">>, <<"fromenv", "onproblem">>}

----------------------------------------------------------------------------
(* Shape: statements put together from the fragments that each construct is made of. *)
Texts(fragments, n) == {FlattenSeq(f) : f \in UNION {[1..m -> fragments] : m \in 0..n}}
Each(set) == {<<c>> : c \in set}
OpenBlock == <<"/", "*">>
Quoted    == Texts(Each({"sq", "dq", "bs", "E", "a"}), 5)
Dashed    == Texts(Each({"sq", "nl", "a"}) \cup {<<"-", "-">>}, 6)
BlockText == {OpenBlock \o t : t \in Texts(Each({"sq", "a"}) \cup {OpenBlock, <<"*", "/">>}, 5)}
Nested    == {OpenBlock \o t : t \in {OpenBlock \o u : u \in Texts(Each({"sq", "a"}) \cup {<<"*", "/">>}, 6)}}
Hashed    == Texts(Each({"sq", "nl", "#", "a"}), 5)
Tagged    == Texts(Each({"sq", "$"}) \cup {<<"$", "a", "$">>, <<"a", "$">>}, 5)
Bracketed == Texts(Each({"sq", "[", "]", "bq", "a"}), 4)
Counted   == Texts(Each({"1", "a", "E", ".", "-"}), 4)
MCStatements ==
    [Unknown   |-> Quoted \cup BlockText \cup Hashed \cup Counted \cup Bracketed,
     Postgres  |-> Quoted \cup Dashed \cup Nested \cup Tagged \cup Counted,
     MySQL     |-> Quoted \cup Dashed \cup Hashed \cup Counted,
     SQLite    |-> Quoted \cup Dashed \cup Bracketed,
     SQLServer |-> Quoted \cup Dashed \cup Bracketed \cup Nested]

----------------------------------------------------------------------------
VARIABLES scene
VARIABLES kind, cells, size, fdropped, droppedLogs, droppedCalls, logs, calls, stats, failures,
          level, levelSet, errInfo, errList, use, steps, kept, ended, failed, logged, errors, named
VARIABLES raw, builtins, custom, maskIP, before, after, held, active, derived
VARIABLES env, wish, next, built, problems, options, queue, handler, pending, counts, hand, recent,
          made, handled, printed, minutes
VARIABLES luse, adapter, minimum, lunit, under, llogs, ldroppedLogs, llateWrites, lreported,
          lpc, lline, lcalls, base, skipped, lost, exited, lheld, lmade, lout
VARIABLES dialect, query, sqlat, sqlkept, state

F == INSTANCE Fields WITH dropped <- fdropped
R == INSTANCE Redact WITH Defaults <- MCDefaults, Chains <- MCChains, Samples <- MCSamples,
         Builtins <- {"ipv4", "nik"}, OnByDefault <- {"ipv4"}, IPv4 <- "ipv4",
         Kept <- {<<UserPin>>, <<UserKey, UserPin>>}, Identity <- {<<UserKey, CardGlued>>},
         ClientIP <- <<UserKey, CardKey>>
S == INSTANCE Startup WITH Builtins <- MCBuiltins, Extras <- MCExtras, WishLists <- MCWishes,
         OptionLists <- MCOptions
A == INSTANCE LogLines WITH Units <- LineUnits, Levels <- LineLevels, Keys <- LineKeys,
         MaxCalls <- MaxLineCalls, use <- luse, unit <- lunit, logs <- llogs,
         droppedLogs <- ldroppedLogs, lateWrites <- llateWrites, reported <- lreported,
         pc <- lpc, line <- lline, calls <- lcalls, held <- lheld, made <- lmade, out <- lout
Q == INSTANCE Shape WITH Dialects <- DOMAIN MCStatements, Statements <- MCStatements,
         at <- sqlat, kept <- sqlkept

fieldVars   == <<kind, cells, size, fdropped, droppedLogs, droppedCalls, logs, calls, stats,
                 failures, level, levelSet, errInfo, errList, use, steps, kept, ended, failed,
                 logged, errors, named>>
redactVars  == <<raw, builtins, custom, maskIP, before, after, held, active, derived>>
startVars   == <<env, wish, next, built, problems, options, queue, handler, pending, counts, hand,
                 recent, made, handled, printed, minutes>>
lineVars    == <<luse, adapter, minimum, lunit, under, llogs, ldroppedLogs, llateWrites,
                lreported, lpc, lline, lcalls, base, skipped, lost, exited, lheld, lmade, lout>>
shapeVars == <<dialect, query, sqlat, sqlkept, state>>
sceneVars == <<scene, vars, fieldVars, redactVars, startVars, lineVars, shapeVars>>

ASSUME RecordsAssumption ==
    F!FieldsAssumption /\ A!LogLinesAssumption

(* The variables of a scene that is not played. *)
Idle == 0
NoFields ==
    /\ kind = Idle /\ cells = Idle /\ size = Idle /\ fdropped = Idle /\ droppedLogs = Idle
    /\ droppedCalls = Idle /\ logs = Idle /\ calls = Idle /\ stats = Idle /\ failures = Idle
    /\ level = Idle /\ levelSet = Idle /\ errInfo = Idle /\ errList = Idle /\ use = Idle
    /\ steps = Idle /\ kept = Idle /\ ended = Idle /\ failed = Idle /\ logged = Idle
    /\ errors = Idle /\ named = Idle
NoRedactor ==
    /\ raw = Idle /\ builtins = Idle /\ custom = Idle /\ maskIP = Idle /\ before = Idle
    /\ after = Idle /\ held = Idle /\ active = Idle /\ derived = Idle
NoStart ==
    /\ env = Idle /\ wish = Idle /\ next = Idle /\ built = Idle /\ problems = Idle
    /\ options = Idle /\ queue = Idle /\ handler = Idle /\ pending = Idle /\ counts = Idle
    /\ hand = Idle /\ recent = Idle /\ made = Idle /\ handled = Idle /\ printed = Idle
    /\ minutes = Idle
NoLines ==
    /\ luse = Idle /\ adapter = Idle /\ minimum = Idle /\ lunit = Idle /\ under = Idle
    /\ llogs = Idle /\ ldroppedLogs = Idle /\ llateWrites = Idle /\ lreported = Idle
    /\ lpc = Idle /\ lline = Idle /\ lcalls = Idle /\ base = Idle /\ skipped = Idle
    /\ lost = Idle /\ exited = Idle /\ lheld = Idle /\ lmade = Idle /\ lout = Idle
NoShape ==
    /\ dialect = Idle /\ query = Idle /\ sqlat = Idle /\ sqlkept = Idle /\ state = Idle

Plays(name, init, idle) == IF scene = name THEN init ELSE idle
SceneInit ==
    /\ scene \in Scenes
    /\ Init
    /\ Plays("fields", F!Init, NoFields)
    /\ Plays("redact", R!Init, NoRedactor)
    /\ Plays("startup", S!Init, NoStart)
    /\ Plays("lines", A!Init, NoLines)
    /\ Plays("shape", Q!Init, NoShape)

SceneNext ==
    \/ /\ scene = "event" /\ Next
       /\ UNCHANGED <<scene, fieldVars, redactVars, startVars, lineVars, shapeVars>>
    \/ /\ scene = "fields" /\ F!Next
       /\ UNCHANGED <<scene, vars, redactVars, startVars, lineVars, shapeVars>>
    \/ /\ scene = "redact" /\ R!Next
       /\ UNCHANGED <<scene, vars, fieldVars, startVars, lineVars, shapeVars>>
    \/ /\ scene = "startup" /\ S!Next
       /\ UNCHANGED <<scene, vars, fieldVars, redactVars, lineVars, shapeVars>>
    \/ /\ scene = "lines" /\ A!Next
       /\ UNCHANGED <<scene, vars, fieldVars, redactVars, startVars, shapeVars>>
    \/ scene = "shape" /\ Q!Next /\ UNCHANGED <<scene, vars, fieldVars, redactVars, startVars, lineVars>>

SceneSpec == SceneInit /\ [][SceneNext]_sceneVars

----------------------------------------------------------------------------
(* The properties of each module, in its scene.                                      *)

(* event.go, calls.go, logs.go, errors.go: what a cap refused is counted; the size, the *)
(* records and the level tell what was written.                                         *)
FieldsTell == scene = "fields" =>
    F!TypeOK /\ F!DropsCounted /\ F!SizeExact /\ F!RecordsAddUp /\ F!ErrorsAndLevel
(* redact: Apply masks what the rules name and nothing else, and New and With keep them. *)
(* store/sqlshape: a statement's shape holds no part of a literal, whatever the settings *)
(* of the server.                                                                       *)
RedactedByRule ==
    /\ scene = "redact" => R!AppliedByRule /\ R!ConfigHeld /\ R!DeniesTrue
    /\ scene = "shape"  => Q!TypeOK /\ Q!NoLiteral
(* setup, problem.go: each drain asked for is built or reported, each report heard once. *)
StartTells == scene = "startup" => S!NamesAnswered /\ S!ReportedOnce /\ S!LimitedNotLost
(* log/*: a line of the program's own logger is at one place, on the event of its      *)
(* context while that is open, with the pairs and groups its logger was given.         *)
LinesTell == scene = "lines" => A!LinesTell
=============================================================================
