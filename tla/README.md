# wlog: a verification development

wlog is a Go library for wide-event logging: a program opens one event per unit of work,
adds fields to it from any goroutine, ends it, and the Logger filters it and hands it to
drains; adapters open and end those events around requests, calls, messages and commands; a command
line reads the events back, scores and scaffolds applications. This directory holds TLA+ models of
the parts where goroutines, queues, files, frameworks and failures meet, the TLC runs that check
them on small instances, and the proofs TLAPS checks for every instance.

Contents: [the system](#the-system), [modules](#modules-and-code), [runs](#runs),
[bounds](#bounds), [fairness](#fairness), [proofs](#proofs),
[differences between comments and code](#differences-between-comments-and-code),
[not modelled](#not-modelled), [plan](#plan).

## The system

Paths are relative to the repository. `PROJECT.json` lists every component with its files;
the ones below carry its logic.

| component | state | operations | what makes it correct |
|---|---|---|---|
| Event (`event.go`, `detach.go`) | fields, drop counts, late writes, sealed flag and parent of one event, under its mutex | `Start`, `Detach`, `Set`, `SetGroup`, `Append`, ..., the end func | a write is never lost in silence; nothing is added after the copy that is emitted; late writes go to the nearest open ancestor; parent and child share a trace; no deadlock along the parent chain |
| Event fields (`event.go`, `calls.go`, `logs.go`, `errors.go`, `level.go`) | keys, groups, arrays, memory charge, call statistics, errors, level | the writes | every cap holds (gate G4), every refusal is counted, the charge is exact, errors and level agree with the calls made |
| Logger (`event.go`, `plain.go`, `stages.go`, `drain.go`, `stats.go`) | enabled and closed flags, counters | the end func, plain lines, `Flush`, `Close` | each event in one counter; audit events pass every filter; a drain's panic or failure stops nobody else; `Close` ends |
| Event writer (`writer.go`) | a bounded channel of lines and markers, one goroutine | `write`, `flush`, `stop` | an emitting goroutine never waits (G3), lines leave in order, each lost line is counted, `Flush` covers what came before it |
| `pipeline.Wrap` (`pipeline/pipeline.go`) | buffer, wake channel, timer, `sendMu`, counters | `Send`, the worker, `Flush`, `Close` | one holder per event, one batch in flight, no lost wakeup, `Close` drains the buffer, only refused events are retried |
| `pipeline.FanOut` (`pipeline/fanout.go`) | a queue and a worker per drain, `pending`, an RWMutex | `Send`, the workers, `Flush`, `Close` | a hung drain delays nobody else, `Flush` covers, drains close after their last delivery |
| `audit.Journal` (`audit/journal.go`, `verify.go`) | a file of chained lines, a file lock, the head of the chain in memory | `Send`, `Close`, reopening after a crash, `Verify` | the chain continues over every crash, an acknowledged record stays, a failure is reported, damage shows |
| `audit.Do` (`audit/audit.go`) | none: it writes to the event of its context, or opens one | `Do` | a record is never filtered and never late |
| network drains (`pipeline/httpdrain`, `drain/*`) | none between batches | `SendBatch`, `Chunks`, `SendChunk` | each event of a batch is reported as taken, to be retried, or refused; one chunk's failure stays its own |
| `drain/file` | a file, its backups, a handle | `SendBatch`, rotation, `Close`, `Tail` | rotation drops only the oldest lines whatever step of it fails; a reader misses nothing |
| `drain/memory` | a ring, its subscribers | `Send`, `Clear`, `Subscribe`, the stream handlers | the ring is the newest events; nothing falls between a replay and the live view |
| `drain/syslog` | a connection | `SendBatch`, `Close` | no frame follows a torn one; one datagram that is too large fails no other |
| Problem reporter (`problem.go`), `setup` | handler, counts, pending reports; the environment | `Report`, `OnProblem`, `New`, `FromEnv` | each drain asked for is built or reported; a report is handled once, with its count |
| `redact` | denylist, patterns | `New`, `With`, `Apply` | what a rule names is masked, and nothing else; a derived redactor keeps every rule it was not told to drop |
| `middleware/httpcore` and its adapters | one exchange, a pool of body buffers | `Start`, the writer, `Panic`, `End` | one event per exchange, which says what the client got; no buffer has two users |
| `calls.go`, `store`, `client`, producers | open calls of one event | `StartCall`, each adapter's hooks | one operation is one call, failed exactly when the program was told so |
| `work`, `command`, `rpc`, `cron` | one unit | `Start`, `End`, `Handle`, `Ticker` | one event per unit, out before control leaves; level and exit code agree with the process |
| `queue`, `job`, `faas/lambda` consumers | message, offset, mark | `Run`, the consume loops | a message leaves its broker only after a run returned nil for it, and every one leaves in the end |
| `log` adapters | level, fields and context of a logger | one line, the drains that write an event back | a line is folded into the open event of its context or reaches the base logger, once, with its fields |
| `trace`, `metrics`, `propagate` | a span per event, ids, series | `Start`, `Inject`, the plugins' hooks | one span holds the event of the first unit under it; a trace is joined the whole way; each event is measured once |
| `preset` | none: a map is rewritten | `Apply` | each value of the event is in what is printed, and nothing else of it is lost |
| `store/sql`, `store/sqlshape` | a wrapped driver; one statement | every optional interface of `database/sql/driver`; the scanner | the wrapper shows what the driver has; no literal stays in a shape |
| `llm`, `ai` | the record of a model call, its totals on the event | `Set`, `Add`, the stream readers, pricing | one shape for every provider; totals and cost add up |
| `ai/mcpgo`, `ai/mcpsdk` | a bounded table of pending requests | before, after, expiry | each request has one event, ended once by its own answer or by expiry |
| `cmd/wlog map` | a baseline file | rules, gate, promotion | score, gate and analyzer agree with the rules; a gated score never falls |
| `query`, `wlog query`, `tail` | a window of matches, a followed file | filter, aggregate, follow | the events asked for are printed once, in order |
| `init`, `doctor`, `agents` | the files of somebody's project | plan, write, restore | a failed run leaves the project as it was; what its owner wrote stays |
| `tools`: release, requires, affected, gates | tags, go.mod files, one gate's list | the steps of a release, the items of a gate | modules are tagged in the order of their requires; a gate passes when its items do |

How they interact. A goroutine that ends an event runs `emit`: it seals the event under its
mutex, then, with no lock, runs the stages and calls `Send` of every drain in order and
`write` of the writer. Drains therefore run on the program's goroutines, which is why
`pipeline.Wrap` and `FanOut` put a queue and a goroutine behind `Send`. `Logger.Close` sets a
flag, stops the writer and closes every drain on a goroutine of its own; `Logger.Flush` goes
through the writer and the drains one after the other. A pipeline calls the backend's
`SendBatch` under `sendMu`; the backend answers with nothing, an error, or a `PartialError`
that names events to retry and events to drop: `Pipeline` takes any such answer, and `Senders` is
the drains' way to one. A unit of work, an exchange or a message's run opens an event, the calls and
log lines inside it write to that event, and its end goes through `emit`. `audit.Do` reads whether the event of its
context is open, and appends to it in a second critical section.

What is hard here: a flag that is read without the lock of the queue it guards
(`pipeline.go:95`, `event.go:464`); a batch between two locks (`pipeline.go:225`); one channel
for lines and for markers that carry promises (`writer.go:158`); locks taken along a parent
chain (`detach.go:68`); write locks held while waiting (`fanout.go:132`); a memory charge that is
a running difference (`event.go:337`); crashes between write, sync and truncate
(`journal.go:229`), between remove and rename (`rotate.go:40`) and between a handler, its event and
the broker's settle (`work.go:258`); a batch that is cut, halved and answered in part
(`split.go:105`); a buffer shared with a reader that outlives its owner (`body.go:65`); a map that is
rewritten while another drain holds it (`datadog.go:36`); programs that may stop half way through
somebody's files or tags (`init.go:199`, `release/main.go:402`); and frameworks that leave by a
panic, an exit or a second end (`calls.go:67`, `urfave.go:56`). `PROJECT.json` lists each with the
properties that cover it.

## Modules and code

Definitions keep the names of the code where they can; `PROJECT.json` maps each to its lines.
A definition marked "mutant" is a plausible bug of the definition after it. No specification
uses it: substituted for that definition it must break the property `PROJECT.json` names, which
shows that the property depends on the code.

| module | models | state and actions |
|---|---|---|
| `Pipeline` | `pipeline.Wrap` | `buf`, `aged`, `wake`, `timer`, `closed`, `closing`, `senderClosed`, `sendMu` are the fields of `wrapped`; `pc`, `hand`, `attempt` are the local state of the goroutines. A critical section of `mu` is one step, since nothing in one blocks; `sendMu` is held over backend calls and so is a variable. `SendCheck` reads the closed flag, `SendAppend` locks later. `Try*` are the backend's answers: taken, dropped for good, failed, partial with any two sets of events |
| `Delivery` | what a drain promises | one variable, the fate of each event: new, held, sent or dropped; a settled event stays settled |
| `FanOut` | `pipeline.FanOut` | the RWMutex with Go's rule that a waiting writer keeps readers out; `queue`, `busy`, `pending`, `worker` per drain; `hung` drains never return from `Send` |
| `Writer` | the async form of `writer.go` | the channel holds lines and markers; each channel operation is a step; a waiter whose context ends leaves its marker behind |
| `Event` | `Start`, `Detach`, writes, `recordLateWrite`, `emit` up to the trace it names | a mutex per event; a late write holds its own and climbs the ancestors', one step per lock; `emit` seals and copies in one step and touches the trace in a later one, outside the lock |
| `Logger` | `emit` after the seal, plain lines, stages, drains, `Flush`, `Close`; `audit.Do` | each event on its way through `EndCheck`, `EndSeal`, `Stages`, `Send`, `WriteEvent`; samplers, keepers and drains answer anything, panics included; the Logger may be silent, and a line may not encode |
| `Fields` | what one event stores and the caps | a value is a set of atoms of one unit of size; kinds of keys, groups with leaf and map fields, arrays, logs, calls and their statistics, errors and level. One call is one step: `Event` has the interleavings |
| `Journal` | `audit.Journal` and `Verify` | the file is a sequence of chunks (line, is it whole, has it its newline); a line's hash is its identity; a call is several steps because the machine may stop between them and instances share the file; an open may fail wherever it reads, sets aside, cuts or writes (`OpenFails`) |
| `Redact` | `redact` | the configuration a chain of options builds, matching, and `Apply` over an event as a tree; a key is its tokens, a text the patterns it matches |
| `Startup` | `setup.FromEnv`, `New`'s options, `problem.go` | names resolved to factories, reports that wait in a queue, a handler called outside the lock |
| `LogLines` | the `log` adapters | a line asks for its level, then whether its event is open, then writes: three steps, between which the event may end; seven libraries as records of what they bind, name and group |
| `Shape` | `store/sqlshape` | one pass of the scanner over a short statement, beside what a server of that dialect reads as a literal under each of its settings |
| `Senders` | `pipeline/httpdrain` and every network drain | one `SendBatch`, whose `Policy` has one record for each drain: how it cuts, what it halves, what one chunk's error does to the others. `runs` is the stack of the recursion; the pipeline's `trySend` goes round it |
| `FileDrain` | `drain/file` | files as sequences of lines, the directory as slots; each call to the file system is a step, may fail, or be the last before a restart; `Tail` follows in a process of its own |
| `Memory` | `drain/memory` | the ring under one lock, the subscribers under another, and the two stream handlers: register, snapshot, replay, live |
| `Syslog` | `drain/syslog` | one connection, stream or datagrams; the peer is a process that may leave at any step |
| `Signals` | `trace/otel`, `trace/otellog`, `metrics/prometheus`, `propagate` | units of work on contexts that a span, a header or another unit gave them; spans that end at any time; the series under their cap |
| `Preset` | `preset` and the writer's use of one | places of an event mapped to places of the output, each with the places its value was made from; a Go map is walked in any order; a drain with a preset shares the event, the writer has a copy |
| `Exchange` | `middleware/httpcore` and the HTTP adapters | requests with their writer, body buffers from one pool, level, error and event; a record per adapter says where it hooks in |
| `Capture` | what `httpcore` records of a request and its answer | options and route rules, forwarded addresses, headers, query, cookies, bodies, request ids, problems |
| `Calls` | `calls.go` and every adapter that records a call: `store`, `client`, `rpc` clients, producers | operations that nest, overlap, end twice or after the seal; a record per adapter |
| `SqlDriver` | `store/sql` | `database/sql` on a driver and on the wrapped driver side by side, for every set of optional interfaces |
| `Units` | `work`, `command`, `rpc` servers, `cron`, the ticker | one unit inside a wrapper that returns, panics or exits |
| `Consumers` | `queue`, `job` and `faas/lambda` | brokers, offsets and marks; loops that stop or go on; crashes, lost settles, redelivery |
| `Models` | `llm` and the `ai` adapters | answers and streams of each provider, the record each adapter makes, `Set` and `Add` from two goroutines, the price of the sum |
| `Sessions` | `ai/mcpgo`, `ai/mcpsdk` | requests on goroutines of their own and the bounded table between their two hooks |
| `ScoreMap` | `cmd/wlog map` and the analyzer | handlers as the facts the rules look for; edits, runs, baselines, promotions |
| `Release`, `Gates` | `tools/cmd`: release, requires, affected; the gates | one step of a release at a time, any of which may be the last; one item of a gate at a time |
| `Query` | `query`, `wlog query`, `wlog tail` | sources, a window, aggregates, and the loop that follows a file over rotation |
| `Scaffold` | `wlog init`, `doctor`, `agents` | the files of a project, written one by one, with failures and kills between; its owner edits it meanwhile |
| `MCDrains`, `MCRecords`, `MCUnits`, `MCTools` | several modules under one run | a behaviour plays one of them (`scene`); the variables of the others do not change |
| `MCJournal` | the journal's scene of `MCDrains` | its variables under names that the Logger and the other drains leave free; the proofs about the journal need no more |
| `MCPipeline`, `MCFields` | instances for TLC | model values and symmetry sets; `FanOut`, `Writer` and `Journal` need none |
| `PipelineProofs`, `FanOutProofs`, `WriterProofs`, `EventProofs` | theorems about the module they extend | see [proofs](#proofs) |
| `LoggerProofs` | theorems about `Logger`, and the lemmas about `Journal` | see [proofs](#proofs) |
| `DrainsProofs`, `UnitsProofs`, `TrafficProofs` | theorems about scenes of `MCDrains` (`Memory`, `Syslog`, `Journal`) and of `MCUnits` (`Consumers`, `Units`; `Exchange`, `Calls`, `Sessions`), with the constants of those modules unbounded | see [proofs](#proofs) |

`MCDrains` extends `Logger` and `MCRecords` extends `Event`, since the proofs are about those two
modules as they stand: in the scene of another module the Logger and the events keep their first
values, so `EventsTold` and `WritesKept` need no scene to be named.

What the modules assume of each other is narrow: `Event` takes
any writes and `Fields` decides which are refused; `Logger` starts from a sealed event, and lets a
drain do anything with it; a drain's promise is `Delivery`, which `Pipeline` is shown to
implement (`Delivers`, a refinement with `fate` computed from the counters); `Pipeline` takes any
answer of a backend, and `Senders` shows which answers its drains give and that they are true;
`Exchange`, `Calls`, `Units` and `Consumers` use an event only by its end and its calls.

## Runs

Every run but the four marked "violation" finishes without error.

| run | question | properties |
|---|---|---|
| `pipeline` | Do two senders, a Flush, the worker and Close, with every answer a backend can give, agree on who holds each event? | `TypeOK` (with the bound on the buffer), `Custody`, `OneInFlight`, `CloseDrains`, `NoLostWakeup`, `FlushSettles`, `Delivers` |
| `pipeline_progress` | Does every buffered event settle, every Flush return, and Close end the worker? Levels, audit records and the level filter included | `EventuallySettled`, `FlushReturns`, `CloseEndsWorker` |
| `pipeline_flush_race` (violation) | Does Flush wait for a batch the worker already took? | `FlushLeavesNoneInFlight` |
| `fanout` | Does a hung drain stay alone with its trouble? | `FlushCovers`, `ClosedLast`, `Isolation` |
| `writer` | Is a line lost only with its count, in order, and without ever blocking the goroutine that emits? | `LinesKept` (`LinesAccounted` and `OldestFirst`), `FlushCovers`, `WriteReturns` |
| `records` | What an event carries: its writes and their races, its caps, its redaction, the lines of other loggers; a Logger's start; a statement's shape | `WritesKept` (Event), `FieldsTell` (Fields), `RedactedByRule` (Redact, Shape), `StartTells` (Startup), `LinesTell` (LogLines) |
| `drains` | Is each event counted once and shown to every drain, and does each drain answer truly for its batch, its file, its ring, its connection, its spans, its shape? Does the audit journal chain over crashes, failures and edits? | `EventsTold` (Logger), `SendersTell` (Senders, Preset), `FileKeeps` (FileDrain), `MemoryShows` (Memory), `FramesWhole` (Syslog), `SignalsTell` (Signals), `JournalHolds`, `DamageShows` (Journal) |
| `units` | Does each adapter end its event once, truly, before control leaves, and does each message leave its broker rightly and at last? | `TrafficTells` (Exchange, Calls), `UnitsTell` (Units), `LeavesHandled`, `Drained` (Consumers), `SessionsTell` (Sessions) |
| `tools` | Do the AI adapters, the commands, the repository's tools, an exchange's record and a wrapped driver say what is so, and leave what they write whole? | `ModelsTell` (Models), `MapTells`, `NeverFalls` (ScoreMap), `ReposTell` (Release, Gates), `CommandsTell` (Query, Scaffold), `WrappersTell` (Capture, SqlDriver) |
| `fields_memory` (violation) | Does the memory ceiling bound an event into whose groups `SetGroup` merges maps? | `MemoryBounded` |
| `journal_newline` (violation) | Does a kept last line, which lost only its newline, still chain? | `KeptLineChains` |
| `split_forgets` (violation) | Is every event of a chunk that was halved posted or reported? | `AllAccounted` |

A property of a run of several modules is the conjunction of the module's own: `WritesKept`, for
example, is `TypeOK`, `WritesAccounted`, `LateGoesNearest`, `TracesJoin` and `NoDeadlock` of `Event`,
and `EventsTold` is `CountedOnce`, `AuditKept`, `ReachesAll` and `ClosesAll` of `Logger`. The mutants in
`PROJECT.json` break the parts one by one.

`CHECK_DEADLOCK FALSE` stands where calls are finite and everything may be over: in all runs but
those of the pipeline, whose worker goes round for ever and whose Close can be called again. In
`Event`, where a deadlock of the code would be a stop like any other, `NoDeadlock` states it
directly.

## Bounds

- `pipeline`: 3 events, 2 senders, one Flush goroutine that calls again and again, one Close,
  batches of 2, a buffer of 2, 2 attempts. Three events overflow the buffer; two make a batch that
  a partial answer can split into taken, retried and dropped; two senders race each other and
  Close. `pipeline_progress` has 3 events of different levels, one of which the filter refuses and
  one of which is an audit event below it, and one sender: liveness needs no second one.
- `fanout`: 2 events, 2 drains of which the first may hang, queues of 1 so that one event is
  dropped, a Flush and a Close whose contexts may end.
- `writer`: 3 lines through a queue of 2 with 2 emitters, a Flush and 2 Closes, so that eviction can
  meet a line, a flush marker and a stop marker.
- `records`. Event: 3 events, so that a child has an ancestor beyond its parent; 2 writes, 2 threads,
  room for one write per event so that the second is refused. Fields: 5 calls (`MaxSteps`) over the keys
  `audit`, `k1`, `k2`, with room for 2 keys, 1 field per
  group, 1 element per array and 3 units of memory: each cap is reached and passed within 5
  calls. `use` keeps groups and records in separate behaviours, since their caps do not interact
  but through the key count, which both reach. Redact: 3
  redactors derived from one another by any of 11 chains that reach each option and its undoing; events of up to three levels with
  each kind of value, depth limit 1 so that it is passed. Startup: every set of 4 variables, 3 lists of
  drains, 4 orders of options, 2 reporting goroutines and 3 reports: one that waits, one told, one limited.
  LogLines: 8 adapters, 2 units of work, loggers derived twice (`MaxMade`), 2 goroutines, 2 lines and an
  event that keeps 1. Shape: the statements `MCStatements` gives each dialect, which open, close, double and nest
  every form of literal and comment.
- `drains`. Logger: a unit of work beside an audit call, a unit beside a plain line, two audit calls, or
  no event and only Flush and Close (`MCCasts`); 2 drains, of which the Close of the first may never
  return. Events share the flags, the counters, and a unit with its audit call, and nothing else, so
  pairs are enough. Senders: a batch of 3 with sizes 1 and 3 under a cap of 2, so that a chunk may hold one, two or
  no event more; 2 attempts. Ten senders stand for the sixteen: the others have the policy of one of these.
  FileDrain: 4 batches of 1 or 2 lines in files of 2, 2 backups, 2 faults, so that a fault can hit the
  recovery from another. Memory: a ring of 2, 2 senders, 4 events, one Clear, one stream with a channel
  of 1. Syslog: 3 batches, 3 connections, 2 faults. Signals: 3 units, so that a trace is handed on
  twice, one tracer, series capped at one operation. Preset: events with the canonical places a preset
  moves, and one user's place that collides with them; datadog is played by the writer alone, since
  in a drain it changes the event it shares (see the [differences](#differences-between-comments-and-code)).
  Journal: 3 records, 2 instances, a marker after every 2
  records, at most 2 troubles (`MaxTrouble`: crash, lost newline, failed write or sync, damage); a
  trouble and one more during the recovery from it is the deepest case the code treats.
- `units`. Exchange: 2 requests, 4 of the 13 adapters (one per kind of writer), 3 steps of a handler when it
  is alone. Calls: 2 operations, 9 adapters that differ in how they end; one may be inside the other.
  Units: 8 wrappers, 3 ticks. Consumers: 2 messages, 2 workers, 10 loops, 2 failures and one fault;
  two messages are what it takes for a later offset to cover an earlier one.
  Sessions: 3 requests of 2 ids in a table of 2: one too many, and one id twice.
- `tools`. Models: 2 goroutines with a call each, a "million" tokens of 4 so that a price has a fraction.
  ScoreMap: 3 handlers, one round of edits, 2 runs. Release: 3 edits or releases by the maintainer and 2 commits. Gates: 2 items, so that one may hide the
  other's failure. Query: 2 rotations, 2 lines
  written while `tail` follows, windows of 2. Scaffold: one edit of the owner and 2
  failures, the second of which can hit the restore from the first. Capture: the same 4 kinds of server as
  `Exchange`, the lists of options and the requests of `SampleSetups` and `SampleCrowds`. SqlDriver: the full
  driver, the empty one, and the full one less or plus each interface that changes what `database/sql` does;
  3 uses of a connection, one row, every kind of argument.

Symmetry is used in `pipeline` (events and senders, alike there) and `fields_memory` (atoms, and keys other
than `audit`), none of which a definition names. The other runs use none.

## Fairness

- `Pipeline`: goroutines run, the backend answers every call, time passes (weak fairness).
  `Lock` and `FlushEmpty` are strongly fair, since `sync.Mutex` hands the lock to a waiter it has
  starved for a millisecond, and so is the closing case of the worker's select, since select
  chooses at random among ready cases. No caller has to call, and no deadline has to pass.
- `FanOut`: the workers of drains that are not hung run, and Close's context has a deadline that
  passes. Send and Flush get no fairness.
- `Writer`: only the emitting goroutine is fair. The writer goroutine may block on its output for
  good: that is the case `WriteReturns` is about.
- `Consumers`: a loop that has a message goes on, a caller starts a loop that ended again, a process
  that died is started again, a broker delivers again what was not settled, and the sarama session
  commits what is marked (weak fairness each): the contracts of the brokers the adapters are written for.
  Failures and faults are bounded, since a handler that fails for ever keeps its message for ever.
- The others are checked for safety only. `ClosesAll` of `Logger` says of every state that each drain not stuck
  in its Close has ended or has a step it can take: that no drain waits for another needs no fairness.

## Proofs

Eight of the modules hold theorems. Each is about the component's own specification, for every value of the
constants that its assumption admits; `LoggerProofs` is about `Logger`'s; `DrainsProofs`, `UnitsProofs` and `TrafficProofs` are about `MCDrains` and `MCUnits`,
whose behaviours in the scene of a module are those of that module:

| assumption | says |
|---|---|
| `ThreadsAssumption`, `OptionsAssumption`, `LevelsAssumption` (Pipeline) | goroutines are distinct; the options are positive, which their setters enforce; levels are numbers or absent |
| `FanOutAssumption` | at least one drain, queues of at least one, an event is no call, a call flushes or closes |
| `WriterAssumption` | a queue of at least one; emitters are not the goroutines that flush or close |
| `LoggerAssumption` | a unit of work, a plain line and an audit call's own event are different events |
| `EventAssumption` | events, writes and goroutines have different names |
| `MemoryAssumption`, `SyslogAssumption` | a ring of at least one, which `New` enforces; a channel's room and the number of connections are counts |
| `JournalAssumption` | a marker follows at least one record; the bound on troubles is a count; nobody is neither an instance nor a record |
| `ConsumersAssumption` | the adapters are some of those with a policy; there are finitely many workers; a batch holds at least one message; the other bounds are counts |
| `UnitsAssumption` | "no outcome yet" is not the outcome "returned nil" |
| `ExchangeAssumption` | the adapters are some of those with a policy; a request, a buffer or a number is not `None` |
| `CallsAssumption` | the adapters are some of those with a policy; the bounds are counts; an operation is not `None` |
| `SessionsAssumption` | a table of at least one; the servers are some of the two kinds; a request is not `None` |

| module | theorem | statement |
|---|---|---|
| `PipelineProofs` | `TypeCorrect` | `Spec => []TypeOK`: types, and the buffer never holds more than `MaxBuffer` |
| | `SingleFlight` | `Spec => []OneInFlight`: who sends or backs off holds `sendMu`, and only that goroutine |
| | `Answered` | `Spec => []Custody`: the buffer, one goroutine or one counter answers for each event let in |
| | `Implements` | `Spec => Delivers`: `Pipeline` refines `Delivery`, so an event settles once and for good |
| | `Drains` | `Spec => []CloseDrains`: what was accepted before `Close` is settled or about to be when the worker has ended |
| | `Flushes` | `Spec => FlushSettles`, an action property: a `Flush` returns when what it owes is settled |
| | `Wakes` | `Spec => []NoLostWakeup`: one token and one timer are enough for the worker never to sleep over a due buffer |
| `FanOutProofs` | `Flushes` | `Spec => []FlushCovers`: `pending` is what is queued or in delivery, and a `Flush` goes on to the drains only when each got, or dropped, all that was sent before it |
| | `Closes` | `Spec => []ClosedLast`: workers end with nothing in hand, and no drain is closed before its last delivery unless a `Close` ran out of time |
| `WriterProofs` | `KeepsLines` | `Spec => []LinesKept`: a queued line is queued, in hand, written once, or evicted and counted; in order; the oldest goes first |
| | `Covers` | `Spec => FlushCovers`, an action property: a marker is answered when no line ahead of it is queued or in hand |
| `EventProofs` | `Accounts`, `GoesNearest`, `JoinsTraces`, `GoesOn`, `Keeps` | `Spec => []WritesAccounted`, `[]LateGoesNearest`, `[]TracesJoin`, `[]NoDeadlock`, and all of `[]WritesKept` |
| `LoggerProofs` | `Counts`, `KeepsAudit`, `Reaches`, `Tells` | of Logger: `Spec => []CountedOnce`, `[]AuditKept`, `[]ReachesAll`, and all of `[]EventsTold` |
| `DrainsProofs` | `Shows` | `SceneSpec => []MemoryShows`: the ring is the newest events, no event falls between replay and live view, no send meets a closed channel |
| | `Frames` | `SceneSpec => []FramesWhole`: nothing follows a torn frame, an answered batch was written, a refused datagram fails nothing else |
| | `JournalChains` | `SceneSpec => []JournalHolds`: one instance writes at a time and remembers what the file says; the lines chain after every crash; a record whose `Send` returned without a report is in the file once from then on; while nothing stops, none is lost in silence |
| | `EditsShow` | `SceneSpec => DamageShows`, an action property: `Verify` refuses any one edit that is not a cut at the end, and no instance opens a file that does not chain |
| `UnitsProofs` | `Leaves` | `Spec => []LeavesHandled`: a message leaves its broker only when a run returned nil for it or gave it up; every run has its event; a job's result is what becomes of it; an answer follows its flush |
| | `UnitsTold` | `Spec => []UnitsTell`: one event per unit, out before control leaves, whose level and exit code agree with the outcome; ticks add up |
| `TrafficProofs` | `TrafficTold` | if no handler writes a 1xx code, `Spec => []TrafficTells`: the event of a request says what its client got, no buffer has two users, one operation is one call |
| | `BuffersHeld`, `CallsTold` | the buffers' part and the calls' part of it, with no such hypothesis |
| | `SessionsAnswer` | `Spec => []SessionsTell`: the event of an MCP request ends once, by its own answer or its expiry, unless the cap refused it or its key was given away; the table is bounded |

Each inductive invariant was an invariant of a TLC run before it was proved. The arguments:

**Pipeline.** `TypeOK` is not inductive: `WaitDone` increments the attempt counter, which stays in
`1..MaxAttempts` only because a batch backs off only with an attempt left; `TypeInv` adds that
(`AttemptsLeft`). `OneInFlight` is inductive with `TypeInv`. `Custody` needs to know that a
goroutine about to take events holds none, and that a sender about to append holds exactly one:
`EmptyHanded`. The inductive invariant is `CustodyInv == TypeInv /\ EmptyHanded /\ Custody`. An action does one of
three things to custody, and a lemma covers each: it moves no event (`CustodyKept`), it takes
events out of the buffer (`CustodyTakes`), or it settles events in the counters (`CustodySettles`);
what a queue loses to `Tail` and gains from `Append` is stated first (`TailElems`, `AppendElems`). Each step of the invariant's proof is one action of `Next`
(`StepCases`).

The others build on it. For `Implements` each step of `Next` is of one of three kinds
(`StepKinds`): an event is taken in, one goroutine settles events it holds, or the counters stay;
custody says that what a goroutine holds is neither new nor settled, so `fate` maps the kinds to
`Accept`, `Settle` and a stutter. `CloseDrains` needs `DrainInv`: the worker ends only after the
`flushAll` of its closing case, and what enters the buffer from then on comes late. `FlushSettles`
needs `OwedInv`: what a `Flush` owes is settled, in its hands, or in the batch that holds `sendMu`,
which must end before the `Flush` can lock. `NoLostWakeup` is inductive with `TypeInv`.

**FanOut** (`FanInv`). That `pending` is zero says nothing yet of one event: `Reached` says that an event a `Send` has
handed to a drain is queued there, in delivery, delivered or dropped, and `OneCopy` that it is there once, so the
number of copies (`Held`) is `pending` and zero means every copy left. A `Flush` waits with the write lock, so
`before` cannot grow under it (`Past`, `Covered`). For `ClosedLast`: `closed` is set under the write lock, with no
`Send` between its check and its queues (`Sealed`), so a worker that then finds its queue empty finds it so
for good (`Spent`), and drains are closed after all workers ended or after the context did (`Ended`).

**Writer** (`WriterInv`). Two takers empty one channel, the writer goroutine and an emitter that found it full. What
makes `LinesAccounted` inductive is the order: `Ordered` says that lines written or evicted, then the line in hand, then the
channel, stand in the order in which they were queued. What is strictly ordered does not repeat, so most of
the accounting follows, and so does `OldestFirst`. For `FlushCovers`, `Waited` says of each
marker in the channel that the lines ahead of it when it was queued are still before it, or are past the channel.

**Logger** (`LoggerInv`). Its parts speak of one event at a time (`EventInv(e)`): it is sealed only past the closed check, has no counter before
`send` and one from then on, and its drains have their turns in order. A step belongs to one event or to none, so one lemma keeps
`EventInv` of all the others. `FlushedSoFar` makes `ReachesAll` inductive; `ClosesAll` follows from types alone, since
`Close` starts each drain without a look at the others, which is what the code promises.

**Event** (`EventInv`). The difficult parts concern the chain of parents. `UpTo(x)`, the ancestors of `x`, is
the least set that holds `x` and is closed under `parent`; the lemmas about it (`UpStep`, `UpAbove`,
`UpWithout`) need no induction. `Locked` says which goroutine holds which mutex. `Fated`: a write
under way has no fate and belongs to one goroutine, one that returned has exactly one. `Walked` and
`Nearest`: every ancestor below where a late write stands, or was counted, is sealed. Sealing is for good and an open event's
parent never changes, so these survive each other's steps. `Traced`: the trace of an event with no bare ancestor
is its parent's, and the one it was emitted with. `NoDeadlock` follows from `Locked` and `Opened` (a parent is older than its child): of the
mutexes that goroutines wait for, the oldest is held by one that would wait for a still older one, and so waits for none.

**Memory** (`MemoryInv`). Events are numbered as the ring takes them in, so `Ring` can say what each slot holds: up to
`next` the numbers of this round, behind it those of the round before (`Slot`); `Snapshots` turns the two halves round.
`Follows` is about each event from where a replay begins: the stream has it somewhere (`Has`), or a sender holds it between its
two locks (`Coming`). It survives `Forward` because a stream is registered before it reads its snapshot and until its client is gone (`Registered`).

**Syslog** (`SyslogInv`). A connection that is kept carries no torn frame (`KeptClean`), one not yet dialled
carries nothing (`Fresh`), and the frames before the one being written are on some wire or refused (`Written`), so the batch is when the last one is.

**Journal** (`JournalInv`). None of the five parts of `JournalHolds` is inductive, since each speaks of the file between calls. Who has the file
is `Holder`: a path has one lock, and only its owner is past `ensureOpen`. `Calling` says whose record a call carries, and that no
other has it; `Writes` what the line in hand is made of, and that a line waiting for its sync is the last one of the file. The chain is
`Continues`: as long as only crashes happened, head and count in memory are those of the file, or, between write and sync, of the
file without its last line (`Behind`), and an unsynced chunk is the last one, so a crash cuts only what nobody was told of (`Tailed`).
It needs what `splitTail`, `checkLine` and the count do to a file that grows by a line, loses its last one or keeps half of one; `Ended`,
`TornOff` and the lemmas beside them say so. `Durable` follows a record's lines through every failure, short writes included: none before its write, one from
its sync on, in front of the last newline or synced (`Lasts`), so neither a crash nor a truncate takes it. That a newline lost in a crash breaks the chain but loses
no record is why `Durable` asks only that nobody changed the file. An open that fails may leave a second copy of a line that has no newline
(`ShortCopy`), which is never the line of a record that lasts (`OpenFailsKept`). `Traced` is `NoSilentHole` for a record still in its call.
`EditsShow` rests on one fact about sequences (`EditShows`): in a file that verifies, hashes grow from line to line, so a line that is repeated, moved or
missing leaves a line that does not name the one before it, unless nothing follows.

**Consumers** (`ConsumersInv`). Every adapter runs in one loop, so each part says of which it speaks. `Held` and `Takes`
say what a worker has at each of its steps, `Ran`, `Ended` and `Counted` what it did to its message so far, and `Settles`, the
property's first half, follows a message to its end. A log has one reader (`Alone`); what is committed there is a
prefix (`Prefix`), and the reason that a commit covers no failed message is `ReadTo`: all before the read
position is through, failed, or still with the reader, and `MarkTo`: all up to a mark is through. What a Lambda leaves unnamed in
its answer is `TookTo` without `FirstFailed`. A job has one holder (`JobHeld`), so its last event is still the one its
settle obeys (`JobTold`, `JobEnds`). `FlushedFirst` holds because only a fault leaves an event unflushed at the answer.

**Units** (`UnitInv`). The invariant walks with the unit: `Concluded` when the handler has ended, `Judged` and `Coded` when its event
is out, `Flushed` before control leaves. `Emissions` counts: one event from the end on, and of a ticker as many as runs
that ended, which with `Unasked` makes `TicksAccounted` inductive.

**Exchange** (`ExchangeInv`). `Answering` relates what the writer kept to what went out at each step of a request, and `Reported`
what the event says to what the writer kept, so the event says what went out. `Holds` says that a buffer a request has is filled by it
and is not in the pool; a request takes buffers from the pool only and returns each once (`Owes`), which is all
`BuffersOwned` needs. A 1xx status counts as the answer in the code (see the
[differences](#differences-between-comments-and-code)), so `TrafficTold` supposes that a handler writes none; `BuffersHeld` does not.

**Calls** (`CallInv`). Five parts follow one operation: what has begun, opened, finished (by its adapter's way to end), what a batch has
told. `Entered` and `Summed` relate them to the event: a call is there for each ended operation, once, and
each counter of `call_stats` is the number of its calls. One lemma (`Enters`) is `recordCall`, the only way into them.

**Sessions** (`SessionsInv`). The event of a request is in the table under its own key, in one goroutine's hand, or in neither
(`StoredOwn`, `Apart`), and as long as it is in one of them it is open (`Life`): so the sweep and the after hook, which can
meet, never end it twice. `Known` says that a context in `byCtx` is one of the table's or its key was given away,
which is what bounds it; `EndedBy` and `Finds` carry who ended an event, and why a hook found none.

What only TLC checks. Liveness under fairness (`EventuallySettled`, `FlushReturns`, `CloseEndsWorker`,
`Isolation`, `WriteReturns`, `Drained`), since the provers cannot treat ENABLED. What `Redact`, `Query`, `Preset`, `Shape`,
`Capture`, `Models`, `Scaffold` and `Release` compute from a tree, a glob, a text, a stream or a list, since that is recursive or a fold, and
induction over data is out of reach; for the same reason `SendersTell`, whose recursion is a stack of sequences of sequences, and `FileKeeps`,
whose files are concatenated line by line. The invariants of `Fields`, `Startup`,
`ScoreMap`, `Gates`, `Signals`, `LogLines` and `SqlDriver`, which no theorem states yet; the [plan](#plan) names the ones worth it.

## Differences between comments and code

Four are checked as runs, each with its counterexample:

- `pipeline_flush_race`: the worker takes a batch under `mu` and locks `sendMu` later; a Flush in
  between finds both free, and returns with that batch in flight (`pipeline.go:225`, comment at 509).
- `fields_memory`: `SetGroup` charges a nested map as a replacement and then merges it, so a second map of the
  same size is charged nothing while the event holds both: its memory ceiling does not hold (`event.go:234`,
  comment at 62). The run uses `SetGroup` alone; `UpdateGroup` charges nothing either (`event.go:252`), which
  its model has too and `SizeExact` leaves out.
- `journal_newline`: the file is open for append, so a last line that lost its newline is written
  after itself, and the next open refuses the file (`journal.go:368`, comment at 366).
- `split_forgets`: `halve` returns at the first error, so a per-item answer to the left half leaves the
  right half unposted and counted as sent (`split.go:105`, `pipeline.go:329`).

The others are stated as definitions at the end of their modules where they can be, and have no run:

| module: definition | the code | the text |
|---|---|---|
| Pipeline: `ClosedHoldsNothing` | a Send that read the closed flag before Close appends behind the last flush (`pipeline.go:95`) | the comment at 96: reported "rather than buffered where nothing will read it" |
| Pipeline: `SenderClosedLast` | Close releases the Sender while a Flush still holds a batch (`pipeline.go:565`) | "after the last batch" (536) |
| Pipeline: `RetriesCountTowardMaxBuffer` | the bound counts the buffer only (`pipeline.go:107`) | SPEC-pipeline.md:67 counts a batch that awaits its retry too |
| Pipeline: `FinalBatchIsRetried` | closeSig ends every backoff, the final batch's too (`pipeline.go:485`) | "The retry policy applies" (SPEC-pipeline.md:74) |
| FanOut: `CloseBounded` | Close locks `mu` before it looks at its context (`fanout.go:149`), and Flush holds `mu` while it waits (132), so Send waits as well | "bounded by ctx" (147); Send does not wait (74) |
| Writer: `StopMarkerLast` | an emitter may queue a line behind the stop marker (`writer.go:151`) | the goroutine reaches the marker "only once the queue is empty" (213) |
| Writer: `DroppedCountsLines` | an evicted marker is counted as a line (`writer.go:159`); a Flush without a deadline then waits for good (179) | "counts one line" (166) |
| Event: see `Bare` in `TracesJoin` | an event detached from no event is emitted before `emit` names its trace (`event.go:514`), and that write happens outside the mutex | every event joins its children's trace (503) |
| Fields: see `RecordsAddUp` | a call is missing from `call_stats` when that key has no slot (`calls.go:165`) | statistics cover every call (122) |
| Logger: `AuditNeverLate` | `audit.Do` tests the event and appends in two critical sections (`audit.go:88`) | never "a late write into a sealed event" (80) |
| Logger: `SilentAfterClose` | plain lines have no closed test (`plain.go:43`) | "sends nothing" after Close (`drain.go:102`) |
| Logger: `NoWorkToClosedDrain` | the closed test and the send are far apart (`event.go:464`) | a closed drain would drop silently (463) |
| Journal: `DiskInChainOrder` | a failed sync or short write leaves `j.prev` behind the disk (`journal.go:232`) | "always in chain order" (68) |
| Journal: `HookOutsideLock` | `closeFile` calls the hook under `j.mu` (`journal.go:143`) | "outside the journal lock" (56) |
| FileDrain: `RefusedOnlyAfterClose` | a rotation that fails leaves the drain with no file, and the branch that would reopen it is never reached (`rotate.go:15-19, 40`) | `errClosed` "is what a write after Close returns" |
| Exchange: `StatusMatchesWire` | a 1xx status counts as the answer (`writer.go:43`) | "the same as net/http" |
| Exchange: `ExplicitLevelWins`, Units: `NamedLevelWins` | the status of an answer, a Lambda's answer or a usage fault of a command overrides an explicit level (`exchange.go:198`, `cobra.go:44`) | "an explicit SetLevel always wins" (`level.go:65`) |
| Units: `PanicEmits` | the connect server has no recover, so a panic's event is never emitted (`rpc/connect/connect.go:73`) | emit, then panic again (docs/SPEC-track-a.md:25) |
| Calls: `ReadErrorsTell` | an error in the middle of reading rows is not kept (`store/sql/sql.go:484`) | a failed query is a failed call |
| Redact: `DeniesPathTold` | no to a value under a parent that a glob or a dotted entry denies (`redact.go:577`) | "would mask a value at a path" (572) |
| Startup: `WithWins` | the later factory of a name wins, and built-ins come later (`setup.go:97, 113`) | "A name here wins over a built-in" (58) |
| Preset: `EventKept` | datadog's `Apply` writes into the map it is given (`preset/datadog.go:36`): in a drain that is the event the other drains hold, and a retry applies it twice | "a new map, and never a change to event" (`preset.go:13`) |
| Capture: `RouteRulesApply` | the rules of `ForRoute` reach the answer only | `ForRoute("POST /login", CaptureBody(false))` (docs/SPEC-http-core.md:122) |
| Capture: `OnlyBodyTypes` | the body of an answer is kept whatever its type | captured only for `BodyTypes` (136) |
| Capture: `EchoTurnsOff` | gin, fasthttp, fiber and fiber3 echo the id always | `EchoRequestID(false)` turns it off (130) |
| Capture: `ClaimsIgnored` | only the first `X-Forwarded-For` line is read | a client cannot prepend a claim (`options.go:246`) |
| SqlDriver: `BehavesAsWithout` | `Execer` and `Queryer` are not used, the connector's `Close`, `NextResultSet` and scan types are lost, and a statement's checker that skips asks the connection's | "behaves exactly" as without wlog (docs/SPEC-track-b.md:14) |
| LogLines: `ReachBase`, `ErrorsShow` | zerolog lines bound to no event do not reach the writer of `base`; a key `level` replaces the level | `log/zerolog/input.go` |
| LogLines: `FoldsWhatItWrites`, `FourLevels`, `BaseFilters` | some bridges fold lines their logger would not write, keep a fifth level, or hand the base lines it filters | docs/SPEC-track-c.md, rules 2 and 3 |
| LogLines: `PlainStandsAlone`, `NewestShows`, `FatalTold` | a plain line in the context of a request folds through a bridge; of two equal keys logr keeps the older; the event that a fatal line folded into is lost with the process | `plain.go`, `log/logr`, docs/SPEC-track-c.md |
| Models: `SameRecord`, `UnknownTold` | a stream that is observed makes a record that differs from the one read whole; a stream with no usage is not always marked | `anthropic.go:4`, `record.go:33` |
| Sessions: `ContextsBounded` | an entry of `byCtx` whose key was given away is never deleted (`mcpgo.go:121`) | "costs bounded memory" (102) |
| ScoreMap: `SuggestionsShown` | the analyzer never reports the suggestions (`analyzer.go:58`, `forms.go:116`) | docs/customization.md:252 |
| Release: `VersionIsNew` | nobody looks whether the root tag of the version exists: `git tag` refuses it when the commit is made (`tools/cmd/release/main.go:93`) | "a mistake in an argument never leaves a half-finished release behind" |
| Gates: `FloorStillTested` | `-libs` skips what a known-broken entry names (`floor/main.go:220`) | it "also tests" |
| Query: `SameFromMemory`, `OneBucket` | the memory endpoint has a limit of its own; a group whose first values are no numbers is listed again (`query/aggregate.go:52`) | docs/SPEC-track-f.md:150, "one bucket per value" (`aggregate.go:47`) |
| Scaffold: `NeverHalf`, `LastSaveKept`, `EveryOneCovered` | files are written in place; a restore undoes what the owner saved meanwhile; one covered entry point counts for all | `init.go`, `doctor.go:218` |
| Signals: `ClaimedOnce`, `UsesTheSpan` | a claim is seen only along one context, so two units started beside each other under one span both write to it (`trace/otel/otel.go:216`); ids read from a header replace those of a recording span | docs/SPEC-track-e.md:102 |
| Signals: `OwnSpan`, `RecordLinks`, `RequestIdKept` | under a live span a detached event has the span of its parent (`detach.go:41`); a log record links to the span of its context, whose trace may not be the event's; a request id without a trace does not go out | the comments of `Detach`, `otellog` and `propagate` |

Others, without a definition. A batch that fails in transport after it landed is posted again by
splunk (`splunk.go:245`), cloudwatch (192) and every sender of one body. `queue/kafkago/drain.go:45`
and the drain of nats hide the Flush and Stats of the pipeline they wrap. A torn write and its retry
glue two lines in `drain/file`; two rotations within one poll of `Tail` skip a file. A memory stream whose
`since` was evicted replays nothing. RPC adapters inside an open event start one of their own
(`work.go:113`, docs/SPEC-track-a.md:108). gin and hertz recover `http.ErrAbortHandler`. The sarama
handler's comment on panics (`consume.go:22`) and the AMQP comment on `RequeueOn` (34) are not
what the code does. `RemovePatterns` of a built-in name that is off is refused (`custom.go:70`), and
`With(NoBuiltinPatterns())` changes nothing. `Problem.Count` is a total since the Logger was built, not
the number since the last line (`problem.go:92`, docs/problems.md:13).

Presets: a user's key that equals a name of the otel table loses or wins by map order; gcp keeps one of `order` and
`order.id` and leaves a user's `message` in the payload; emf's `error_count` and `_aws` replace a user's key
(SPEC-core-v2.md:418); `Rename` over the default preset, and a preset without a `Lead`, are never applied; renames
that swap or chain depend on map order; empty objects vanish; `Lead` runs outside the recover. `ValuesKept` is
checked over the places that none of these touch (`LeftOut`).

Shapes: an unknown dialect reads `--/*` and `#/*` in a way that lets a quoted text through, MySQL's `/*! ... */` and Postgres'
`123abc` and `$1$x$` likewise; `NoLiteral` is checked over the statements of `MCStatements`, which have none of these.

Adapters: an inner `Core` on the same event overwrites its client address and headers, and the outer End its
route; gin, fasthttp, fiber and hertz never hand over a response body. The removal of `context` from a zap line
stops at the first; drains of log libraries lose an event's `message` when it has an operation; the zap core
filters debug lines inside an event too. A record that was Set stays unpriced once Add follows (`llm/price.go`).

Commands: only SARIF looks at an ignore comment, and nothing prints the count of suppressed checks (`ignore.go:90`); the analyzer sees one package at
a time; the map follows local calls for five rounds. `tail` follows only its first source, loses the lines between
its last read and a rotation, and does not notice a truncation; `-limit` applies before `-count`. A release that
failed past its commit cannot be run again; `affected` misses untracked files; a `floor` that fails leaves its
temporary copy; `cover` passes over packages without tests. `init` exits with 1 where its text says 2; `agents`
replaces an edited skill file, and a kill may cut `AGENTS.md` short. A plugin that is also a drain is set up twice.

## Not modelled

- Stages that rewrite one event on one goroutine: starters, finishers, enrichers, summary; encoders, options,
  keys, UUIDs; catalogs and error conversion; schemas; the audit helpers around `Do` (`diff`, `patch`, `Wrap`). They keep no
  state between calls.
- `sample`: a draw and thresholds; `Logger` takes every answer. `flag/openfeature`, `middleware/huma`, `rpc/gqlgen`:
  each adds fields to an event another adapter has open.
- `cmd/wlog`: `mcp`, `explain`, `wlogvet` and the golangci plugin, which wrap the analyzer; the tools
  that check the repository's own text; test support (`wlogtest`, `internal`).
- Inside modelled components: the sync writer; callbacks (`OnDropped`, `OnProblem`) that call back into the component they
  were called by, which would deadlock (see the hazards); signatures in the journal; slow-drain reports; the batch and
  retry counters; durations and backoff arithmetic, whose overflow (`pipeline.go:455`) is a hazard without a property;
  the fields the adapters copy from their frameworks; the text of everything. `PROJECT.json` says of each
  component what was left out.

## Plan

Done so far: every component with state is modelled; `Pipeline`, `FanOut`, `Writer`, `Logger`, `Event`, `Memory`, `Syslog`,
`Journal`,
`Consumers`, `Units`, `Exchange`, `Calls` and `Sessions` are proved.

1. Proofs: `SpanTells` of `Signals`; the counters of `Fields` apart from its folds.
2. Composition: `Logger` over drains that are `FanOut`s of pipelines, with `Delivery` standing for each;
   `Senders` as the backend of `Pipeline`.
3. `Backoff`: the retry delays with the width of a duration.
