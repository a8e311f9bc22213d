------------------------------ MODULE MCDrains -------------------------------
(***************************************************************************)
(* The Logger, the drains, the audit journal, and the traces and metrics     *)
(* that leave beside them, under one run: a behaviour picks one of them      *)
(* (scene) and takes its steps; the variables of the others stay idle, and a *)
(* Logger that is not played has no events and no Close.                     *)
(***************************************************************************)
EXTENDS Logger, MCJournal, Sequences, TLC

CONSTANTS Scenes,
          w1, l1, r1, r2,                                            \* Logger
          Backends, NEvents, Sizes, MaxBytes, MaxItems, Tags, Span,    \* Senders
          MaxBackups, MaxSize, MaxAged, Stale,                       \* FileDrain
          MaxFaults,
          MemorySenders, Streams, Size, Buffer, MaxSends, MaxClears, \* Memory
          Networks, MaxConns, MaxSyslogFaults,                       \* Syslog
          MaxAttempts,
          Units, Tracers, MaxOperations                              \* Signals

FileBatches   == <<1, 2, 1, 2>>
SyslogBatches == <<2, 1, 2>>
(* A unit of work with an audit call or a plain line beside it, two audit calls, *)
(* or no event at all.                                                           *)
MCCasts == {{w1, r1}, {w1, l1}, {r1, r2}, {}}

(* A carrier with a request id alone and one with a trace; operations of one kind. *)
MCCarriers == {[trace |-> None, req |-> <<"given", 0>>],
               [trace |-> [trace |-> <<"remote", 0>>, span |-> <<"remote", 0>>], req |-> None]}
MCNamed == <<[kind |-> "job", op |-> "a"], [kind |-> "job", op |-> "b"],
             [kind |-> "job", op |-> "a"]>>

(* Preset: small events with each group of keys and of a user's own keys, printed by *)
(* the writer or encoded by a drain.  Datadog on a drain's event, and the keys that   *)
(* OTel, GCP and EMF lose, are left out.                                             *)
Key(d) == [i \in DOMAIN d |-> <<d[i]>>]
Keys(ds) == {Key(d) : d \in ds}
Request == Keys({<<"level">>, <<"kind">>, <<"summary">>, <<"outcome">>})
LogLine == Keys({<<"level">>, <<"kind">>, <<"summary">>, <<"message">>})
Groups ==
    {Keys({<<"http", "path">>, <<"http", "scheme">>, <<"http", "host">>}),
     Keys({<<"http", "path">>, <<"http", "scheme">>, <<"http", "method">>}),
     Keys({<<"http", "host">>, <<"http", "request_headers", "referer">>, <<"trace", "request_id">>}),
     Keys({<<"error", "code">>, <<"error", "type">>, <<"error", "stack">>}),
     Keys({<<"error", "type">>, <<"error", "kind">>, <<"duration_ms">>}),
     Keys({<<"error", "why">>, <<"service", "name">>}),
     Keys({<<"trace", "trace_id">>, <<"service", "name">>, <<"service", "env">>, <<"service", "team">>}),
     Keys({<<"rpc", "service">>, <<"rpc", "method">>}), Keys({<<"rpc", "service">>, <<"messaging", "offset">>}),
     Keys({<<"user", "id">>, <<"wlog", "sample_rate">>, <<"operation">>})}
DottedPath == <<<<"http", "path">>>>
OwnKeys ==
    {{}, {<<<<"stream">>>>, <<<<"status">>>>}, {<<<<"trace_id">>>>, <<<<"message">>>>},
     {<<<<"resource">>, <<"a">>>>, <<<<"order">>, <<"id">>>>}, {<<<<"time">>, <<"a">>>>, <<<<"time">>, <<"b">>>>},
     {DottedPath, Key(<<"http", "path">>)}}
Presets == {"default", "flat", "otel", "ecs", "gcp", "datadog", "emf"}
Setup(p, b, r, e, f) == [preset |-> p, by |-> b, renames |-> r, given |-> e, facts |-> f]
MCSetups ==
    LET owned == {e \cup own : e \in {Request, LogLine}, own \in OwnKeys}
        fact(e) == IF LogLine \subseteq e THEN {"log"} ELSE {}
        all == {Setup(p, "writer", <<>>, Request \cup g, f) : p \in Presets, g \in Groups, f \in {{"error"}, {"port", "kafka"}}}
               \cup {Setup(p, "writer", <<>>, e, fact(e)) : p \in Presets, e \in owned}
               \cup {Setup(p, "drain", <<>>, e, fact(e)) : p \in Presets \ {"datadog"}, e \in owned}
               \cup {Setup(p, "writer", <<"level">> :> <<"severity">> @@ <<"absent">> :> <<"b">>, Request \cup own, {}) :
                         p \in Presets, own \in OwnKeys}
    IN {s \in all : DottedPath \in s.given => s.preset \in {"ecs", "flat", "emf"}}

VARIABLES scene
VARIABLES drain, size, tag, phase, attempt, batch, chunks, chunk, runs, refused, retry,
          dropped, answer, sent, gone, landed, here, safe, blamed, skipped
VARIABLES lines, slot, fd, fpc, shifting, fbatch, fattempt, fclosed, facked, frefused, ffaults,
          aged, tpc, tfile, tread, log, seen, left
VARIABLES buf, mnext, subs, chan, mshut, missed, spc, sending, mpc, replay, mgot, stored,
          cleared, from, clears
VARIABLES network, conn, dialled, ypc, ybatch, yattempt, at, yfailed, wire, peer, yacked,
          yrefused, short, reported, yfaults
VARIABLES unit, trace, stage, span, wrote, ops, capped, reports, series, records
VARIABLES preset, by, renames, given, facts, event, out, pleft, step, printed

S == INSTANCE Senders WITH Drains <- Backends
F == INSTANCE FileDrain WITH Batches <- FileBatches, pc <- fpc, batch <- fbatch,
         attempt <- fattempt, acked <- facked, refused <- frefused, faults <- ffaults, closed <- fclosed
M == INSTANCE Memory WITH Senders <- MemorySenders, pc <- mpc, got <- mgot, next <- mnext, shut <- mshut
Y == INSTANCE Syslog WITH Batches <- SyslogBatches, MaxFaults <- MaxSyslogFaults, pc <- ypc,
         batch <- ybatch, attempt <- yattempt, acked <- yacked, refused <- yrefused,
         faults <- yfaults, failed <- yfailed
G == INSTANCE Signals WITH Named <- MCNamed, Carriers <- MCCarriers
P == INSTANCE Preset WITH Setups <- MCSetups, left <- pleft

senders == <<drain, size, tag, phase, attempt, batch, chunks, chunk, runs, refused, retry,
             dropped, answer, sent, gone, landed, here, safe, blamed, skipped>>
file    == <<lines, slot, fd, fpc, shifting, fbatch, fattempt, fclosed, facked, frefused, ffaults,
             aged, tpc, tfile, tread, log, seen, left>>
memory  == <<buf, mnext, subs, chan, mshut, missed, spc, sending, mpc, replay, mgot, stored,
             cleared, from, clears>>
syslog  == <<network, conn, dialled, ypc, ybatch, yattempt, at, yfailed, wire, peer, yacked,
             yrefused, short, reported, yfaults>>
signals == <<unit, trace, stage, span, wrote, ops, capped, reports, series, records>>
shaping == <<preset, by, renames, given, facts, event, out, pleft, step, printed>>
sceneVars == <<scene, vars, senders, file, memory, syslog, signals, shaping, journal>>

ASSUME G!SignalsAssumption
(* A ring holds an event at least; what a channel holds and how often the drain *)
(* dials are counts.                                                           *)
ASSUME MemoryAssumption == M!MemoryAssumption
ASSUME SyslogAssumption == Y!SyslogAssumption

(* The variables of a scene that is not played. *)
Idle == 0
NoLogger == Init /\ stuck = {} /\ ~silent /\ \A e \in Events : pc[e] = "absent"
NoSenders ==
    /\ drain = Idle /\ size = Idle /\ tag = Idle /\ phase = Idle /\ attempt = Idle
    /\ batch = Idle /\ chunks = Idle /\ chunk = Idle /\ runs = Idle /\ refused = Idle
    /\ retry = Idle /\ dropped = Idle /\ answer = Idle /\ sent = Idle /\ gone = Idle
    /\ landed = Idle /\ here = Idle /\ safe = Idle /\ blamed = Idle /\ skipped = Idle
NoFile ==
    /\ lines = Idle /\ slot = Idle /\ fd = Idle /\ fpc = Idle /\ shifting = Idle
    /\ fbatch = Idle /\ fattempt = Idle /\ fclosed = Idle /\ facked = Idle /\ frefused = Idle
    /\ ffaults = Idle /\ aged = Idle /\ tpc = Idle /\ tfile = Idle /\ tread = Idle /\ log = Idle
    /\ seen = Idle /\ left = Idle
NoMemory ==
    /\ buf = Idle /\ mnext = Idle /\ subs = Idle /\ chan = Idle /\ mshut = Idle /\ missed = Idle
    /\ spc = Idle /\ sending = Idle /\ mpc = Idle /\ replay = Idle /\ mgot = Idle
    /\ stored = Idle /\ cleared = Idle /\ from = Idle /\ clears = Idle
NoSyslog ==
    /\ network = Idle /\ conn = Idle /\ dialled = Idle /\ ypc = Idle /\ ybatch = Idle
    /\ yattempt = Idle /\ at = Idle /\ yfailed = Idle /\ wire = Idle /\ peer = Idle
    /\ yacked = Idle /\ yrefused = Idle /\ short = Idle /\ reported = Idle /\ yfaults = Idle
NoSignals ==
    /\ unit = Idle /\ trace = Idle /\ stage = Idle /\ span = Idle /\ wrote = Idle
    /\ ops = Idle /\ capped = Idle /\ reports = Idle /\ series = Idle /\ records = Idle
NoShaping ==
    /\ preset = Idle /\ by = Idle /\ renames = Idle /\ given = Idle /\ facts = Idle
    /\ event = Idle /\ out = Idle /\ pleft = Idle /\ step = Idle /\ printed = Idle
NoJournal ==
    /\ disk = Idle /\ jpartial = Idle /\ lock = Idle /\ open = Idle /\ jpc = Idle
    /\ call = Idle /\ jevent = Idle /\ jline = Idle /\ prev = Idle /\ jrecords = Idle
    /\ hook = Idle /\ hashes = Idle /\ fresh = Idle /\ acked = Idle /\ jreported = Idle
    /\ synced = Idle /\ trouble = Idle

Plays(name, init, idle) == IF scene = name THEN init ELSE idle
SceneInit ==
    /\ scene \in Scenes
    /\ Plays("logger", Init, NoLogger)
    /\ Plays("senders", S!Init, NoSenders)
    /\ Plays("file", F!Init, NoFile)
    /\ Plays("memory", M!Init, NoMemory)
    /\ Plays("syslog", Y!Init, NoSyslog)
    /\ Plays("signals", G!Init, NoSignals)
    /\ Plays("shapes", P!Init, NoShaping)
    /\ Plays("journal", J!Init, NoJournal)

SceneNext ==
    \/ scene = "logger"  /\ Next /\ UNCHANGED <<scene, senders, file, memory, syslog, signals, shaping, journal>>
    \/ scene = "senders" /\ S!Next /\ UNCHANGED <<scene, vars, file, memory, syslog, signals, shaping, journal>>
    \/ scene = "file"    /\ F!Next /\ UNCHANGED <<scene, vars, senders, memory, syslog, signals, shaping, journal>>
    \/ scene = "memory"  /\ M!Next /\ UNCHANGED <<scene, vars, senders, file, syslog, signals, shaping, journal>>
    \/ scene = "syslog"  /\ Y!Next /\ UNCHANGED <<scene, vars, senders, file, memory, signals, shaping, journal>>
    \/ scene = "signals" /\ G!Next /\ UNCHANGED <<scene, vars, senders, file, memory, syslog, shaping, journal>>
    \/ scene = "shapes" /\ P!Next /\ UNCHANGED <<scene, vars, senders, file, memory, syslog, signals, journal>>
    \/ scene = "journal" /\ J!Next /\ UNCHANGED <<scene, vars, senders, file, memory, syslog, signals, shaping>>

SceneSpec == SceneInit /\ [][SceneNext]_sceneVars

----------------------------------------------------------------------------
(* The properties of each module, in its scene.                                *)

(* pipeline.trySend and the senders: every event of a batch is counted once,    *)
(* as sent or as dropped, and what counts as sent reached the backend.  The     *)
(* chunks the backend took are not posted again with those that failed, and a    *)
(* sender that confines a failure drops only events of a refused chunk.         *)
(* preset: in each shape the values of the event that its tables keep are there, *)
(* whatever order the map is walked in, no key of the user's stands for a field  *)
(* of the preset's, and the event that the drains share is as it was.            *)
SendersTell ==
    /\ scene = "senders" => S!Accounted /\ S!LandedLeftAlone /\ S!RefusalsConfined
    /\ scene = "shapes" => P!TypeOK /\ P!ValuesKept /\ P!NoneReplaced /\ P!EventKept
(* drain/file rotate, SendBatch and Tail: only the oldest lines go, whatever    *)
(* step of it fails; a batch answered with nil is on disk in whole lines; a     *)
(* tail reads every line once and in order, across rotations.                   *)
FileKeeps == scene = "file" => F!KeepsTheNewest /\ F!AckedWritten /\ F!TailFollows
(* drain/memory: the ring is the newest events in order, nothing falls between  *)
(* the replay and the live view, and fanOut meets no closed channel.             *)
MemoryShows == scene = "memory" => M!HoldsNewest /\ M!LiveView
(* drain/syslog SendBatch: no frame follows a torn one on its connection, an    *)
(* answered batch was written, and a refused datagram fails nothing else.       *)
FramesWhole == scene = "syslog" => Y!FramesWhole

(* trace/otel, trace/otellog, metrics/prometheus and propagate: one span holds   *)
(* the event of the first unit under it, a trace is joined the whole way, and    *)
(* each event is measured once, within the cap.                                 *)
SignalsTell == scene = "signals" => G!SignalsTell

(* audit/journal.go: the file chains and holds every record whose Send returned. *)
JournalHolds == scene = "journal" =>
    J!TypeOK /\ J!AgreesWithDisk /\ J!ChainVerifies /\ J!AckedDurable /\ J!NoSilentHole
(* audit/verify.go: Verify notices a line that was edited, deleted, repeated or   *)
(* moved, and no instance opens a file whose lines do not chain.                  *)
DamageShows == [][scene = "journal" => J!DamageTold]_sceneVars

(* What the comments say, and the code does not keep.                           *)

(* pipeline.dropPartial: an event in neither list reached the backend.          *)
AllAccounted == scene = "senders" => S!AllAccounted
(* drain/file errClosed: refused only after Close.                              *)
RefusedOnlyAfterClose == scene = "file" => F!RefusedOnlyAfterClose
=============================================================================
