------------------------------- MODULE MCUnits -------------------------------
(***************************************************************************)
(* The adapters under one run: HTTP exchanges, outgoing calls, units of     *)
(* work, consumers of messages and jobs, and requests of an MCP server.  A  *)
(* behaviour picks one of them (scene); the variables of the others stay    *)
(* idle.                                                                   *)
(***************************************************************************)
EXTENDS Naturals, Sequences

CONSTANTS Scenes,
          Requests, HttpAdapters, Informational, MaxBody, MaxSteps, CrowdSteps, Buffers, Cutoff,
          CallAdapters, MaxOps, MaxMessages,
          Wrappers, MaxTicks,
          QueueAdapters, Workers, NMessages, MaxBatch, MaxAttempts, MaxFailures, MaxFaults,
          Clients, Sessions, Ids, ServerKinds, Capacity,
          None

----------------------------------------------------------------------------
VARIABLES scene
VARIABLES adapter, captures, length, owned, pc, steps, wrote, status, wire, written, error, again,
          level, reqBody, respBody, rest, pool, filler, event, named, emitted
VARIABLES client, cpc, outer, live, ended, pending, err, done, calls, stats, sealed, clate, broke,
          gaveUp
VARIABLES wrapper, upc, uoutcome, code, ulevel, uevent, uemitted, queued, ulate, left, exit, tick,
          skipped, unamed, fired, runs, lost, told, after
VARIABLES loop, at, attempts, up, next, mark, qpc, todo, outcome, took, failed, failures, faults,
          handled, givenUp, ran, events, unflushed
VARIABLES skind, key, spc, entries, byCtx, old, hand, sresult, sevent, seen, reports, replaced,
          srefused, missed

X == INSTANCE Exchange WITH Adapters <- HttpAdapters
C == INSTANCE Calls WITH Adapters <- CallAdapters, adapter <- client, pc <- cpc, late <- clate
U == INSTANCE Units WITH pc <- upc, outcome <- uoutcome, level <- ulevel, event <- uevent,
         emitted <- uemitted, late <- ulate, named <- unamed
Q == INSTANCE Consumers WITH Adapters <- QueueAdapters, adapter <- loop, pc <- qpc
M == INSTANCE Sessions WITH Requests <- Clients, Kinds <- ServerKinds, kind <- skind, pc <- spc,
         result <- sresult, event <- sevent, refused <- srefused

ASSUME ConsumersAssumption == Q!ConsumersAssumption
ASSUME CallsAssumption == C!CallsAssumption
ASSUME ExchangeAssumption == X!ExchangeAssumption
ASSUME UnitsAssumption == U!UnitsAssumption
ASSUME SessionsAssumption == M!SessionsAssumption

exchange  == <<adapter, captures, length, owned, pc, steps, wrote, status, wire, written, error,
               again, level, reqBody, respBody, rest, pool, filler, event, named, emitted>>
outgoing  == <<client, cpc, outer, live, ended, pending, err, done, calls, stats, sealed, clate,
               broke, gaveUp>>
unit      == <<wrapper, upc, uoutcome, code, ulevel, uevent, uemitted, queued, ulate, left, exit,
               tick, skipped, unamed, fired, runs, lost, told, after>>
consumers == <<loop, at, attempts, up, next, mark, qpc, todo, outcome, took, failed, failures,
               faults, handled, givenUp, ran, events, unflushed>>
sessions  == <<skind, key, spc, entries, byCtx, old, hand, sresult, sevent, seen, reports, replaced,
               srefused, missed>>
vars == <<scene, exchange, outgoing, unit, consumers, sessions>>

(* The variables of a scene that is not played. *)
Idle == 0
NoExchange ==
    /\ adapter = Idle /\ captures = Idle /\ length = Idle /\ owned = Idle /\ pc = Idle
    /\ steps = Idle /\ wrote = Idle /\ status = Idle /\ wire = Idle /\ written = Idle
    /\ error = Idle /\ again = Idle /\ level = Idle /\ reqBody = Idle /\ respBody = Idle
    /\ rest = Idle /\ pool = Idle /\ filler = Idle /\ event = Idle /\ named = Idle
    /\ emitted = Idle
NoCalls ==
    /\ client = Idle /\ cpc = Idle /\ outer = Idle /\ live = Idle /\ ended = Idle
    /\ pending = Idle /\ err = Idle /\ done = Idle /\ calls = Idle /\ stats = Idle
    /\ sealed = Idle /\ clate = Idle /\ broke = Idle /\ gaveUp = Idle
NoUnit ==
    /\ wrapper = Idle /\ upc = Idle /\ uoutcome = Idle /\ code = Idle /\ ulevel = Idle
    /\ uevent = Idle /\ uemitted = Idle /\ queued = Idle /\ ulate = Idle /\ left = Idle
    /\ exit = Idle /\ tick = Idle /\ skipped = Idle /\ unamed = Idle /\ fired = Idle
    /\ runs = Idle /\ lost = Idle /\ told = Idle /\ after = Idle
NoConsumers ==
    /\ loop = Idle /\ at = Idle /\ attempts = Idle /\ up = Idle /\ next = Idle /\ mark = Idle
    /\ qpc = Idle /\ todo = Idle /\ outcome = Idle /\ took = Idle /\ failed = Idle
    /\ failures = Idle /\ faults = Idle /\ handled = Idle /\ givenUp = Idle /\ ran = Idle
    /\ events = Idle /\ unflushed = Idle
NoSessions ==
    /\ skind = Idle /\ key = Idle /\ spc = Idle /\ entries = Idle /\ byCtx = Idle /\ old = Idle
    /\ hand = Idle /\ sresult = Idle /\ sevent = Idle /\ seen = Idle /\ reports = Idle
    /\ replaced = Idle /\ srefused = Idle /\ missed = Idle

Plays(name, init, idle) == IF scene = name THEN init ELSE idle
Init ==
    /\ scene \in Scenes
    /\ Plays("exchange", X!Init, NoExchange)
    /\ Plays("calls", C!Init, NoCalls)
    /\ Plays("units", U!Init, NoUnit)
    /\ Plays("consumers", Q!Init, NoConsumers)
    /\ Plays("sessions", M!Init, NoSessions)

Consuming(step) == scene = "consumers" /\ step

Next ==
    \/ scene = "exchange" /\ X!Next /\ UNCHANGED <<scene, outgoing, unit, consumers, sessions>>
    \/ scene = "calls"    /\ C!Next /\ UNCHANGED <<scene, exchange, unit, consumers, sessions>>
    \/ scene = "units"    /\ U!Next /\ UNCHANGED <<scene, exchange, outgoing, consumers, sessions>>
    \/ Consuming(Q!Next) /\ UNCHANGED <<scene, exchange, outgoing, unit, sessions>>
    \/ scene = "sessions" /\ M!Next /\ UNCHANGED <<scene, exchange, outgoing, unit, consumers>>

(* The fairness of Consumers, in its scene. *)
Fair ==
    /\ \A w \in Workers : WF_consumers(Consuming(Q!Work(w)))
    /\ WF_consumers(Consuming(Q!Crash)) /\ WF_consumers(Consuming(Q!Restart))
    /\ WF_consumers(Consuming(Q!SessionCommits))
    /\ \A m \in Q!Messages : WF_consumers(Consuming(Q!Redeliver(m)))

Spec     == Init /\ [][Next]_vars
FairSpec == Spec /\ Fair

----------------------------------------------------------------------------
(* The properties of each module, in its scene.                                  *)

(* middleware/httpcore Exchange.End and its body pool: the event says what the     *)
(* client got, and no handler reads another request's body.                        *)
RequestsTell == scene = "exchange" => X!EventMatchesWire /\ X!BuffersOwned
(* calls.go StartCall, and the store, client, queue and rpc wrappers: an operation *)
(* is one call however many layers it has, and it failed exactly when the program  *)
(* was told so.                                                                    *)
CallsTell == scene = "calls" => C!CallsCounted /\ C!ResultTells
(* The event tells of what came in, and of what went out under it.                 *)
TrafficTells == RequestsTell /\ CallsTell
(* work, command, rpc: one event per unit, out and flushed before control leaves,  *)
(* whose level and exit code agree with the process; a firing of the Ticker is a   *)
(* run, a skip that is told, or it met a full channel.                             *)
UnitsTell == scene = "units" => U!EventPerUnit /\ U!ExitTells /\ U!TicksAccounted
(* queue, job, lambda: a message leaves the broker only after it was handled;      *)
(* every run has its event, and what the caller is told agrees with it and comes   *)
(* after the flush.                                                                *)
LeavesHandled == scene = "consumers" =>
    Q!LeavesHandled /\ Q!EventPerRun /\ Q!ResultAgrees /\ Q!FlushedBeforeAnswer
(* ai/mcpgo, ai/mcpsdk: each request has one event, ended once by its own answer   *)
(* or by expiry, and what waits for its answer is bounded.                         *)
SessionsTell == scene = "sessions" => M!SessionsTell
(* queue, job, lambda: the broker is drained in the end.                           *)
Drained == <>(scene = "consumers" => Q!AllSettled)

(* What the documents say, and the code does not keep.                             *)

(* docs/SPEC-track-a.md: RPC adapters always emit, then panic again.               *)
PanicEmits == scene = "units" => U!PanicEmits
=============================================================================
