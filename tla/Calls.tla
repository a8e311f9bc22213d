-------------------------------- MODULE Calls --------------------------------
(***************************************************************************)
(* Outgoing calls on one event: StartCall, the end function it returns, and *)
(* the adapters that open and end a call around a database, a cache, a      *)
(* broker or another service, of store, client, queue and rpc.             *)
(***************************************************************************)
EXTENDS Naturals, FiniteSets, Sequences

CONSTANTS Adapters,
          MaxOps,       \* operations of the program while the event is open
          MaxMessages,  \* messages of one batch
          None

Ops   == 1..MaxOps
Kinds == {"db", "cache", "queue", "rpc", "http"}

(* What tells the adapters apart.                                               *)
(* kind:   of the call                                                          *)
(* ends:   what ends it: the "result" of the library, a "report" from another   *)
(*         goroutine, the last of a "batch" of reports, the close of "rows", a  *)
(*         "command" that finished (which opens it too), a "stream" that is     *)
(*         told of its end more than once                                       *)
(* misses: nothing to be found is an answer, not a failure                      *)
(* nests:  the context of the call goes on to the library                       *)
(* alone:  it opens no call inside any other                                    *)
(* skips:  the driver may refuse, and a prepared statement follows              *)
Call == [kind |-> "db", ends |-> "result", misses |-> FALSE, nests |-> FALSE,
         alone |-> FALSE, skips |-> FALSE]
Gorm        == [Call EXCEPT !.misses = TRUE, !.nests = TRUE]
Bun         == [Call EXCEPT !.misses = TRUE, !.nests = TRUE]
Pgx         == [Call EXCEPT !.nests = TRUE]
Exec        == [Call EXCEPT !.nests = TRUE, !.skips = TRUE]
Rows        == [Call EXCEPT !.ends = "rows"]
Mongo       == [Call EXCEPT !.ends = "command"]
Redis       == [Call EXCEPT !.kind = "cache", !.misses = TRUE, !.nests = TRUE]
HTTP        == [Call EXCEPT !.kind = "http", !.nests = TRUE]
AWS         == [Call EXCEPT !.kind = "rpc", !.nests = TRUE]
Grpc        == [Call EXCEPT !.kind = "rpc", !.nests = TRUE]
Twirp       == [Call EXCEPT !.kind = "rpc", !.nests = TRUE]
Connect     == [Call EXCEPT !.kind = "rpc", !.nests = TRUE]
GrpcStream  == [Call EXCEPT !.kind = "rpc", !.ends = "stream"]
ConnectStream == [Call EXCEPT !.kind = "rpc", !.ends = "stream"]
Queued      == [Call EXCEPT !.kind = "queue"]
SaramaSync  == Queued
Confluent   == Queued
Amqp        == Queued
Sqs         == Queued
Nats        == Queued
Watermill   == Queued
Asynq       == Queued
River       == [Queued EXCEPT !.nests = TRUE]
CloudEvents == [Queued EXCEPT !.nests = TRUE]
SaramaAsync == [Queued EXCEPT !.ends = "report"]
Pubsub      == [Queued EXCEPT !.ends = "report"]
Franz       == [Queued EXCEPT !.ends = "report", !.alone = TRUE]
Kafkago     == [Queued EXCEPT !.ends = "batch"]

Policy == [gorm |-> Gorm, bun |-> Bun, pgx |-> Pgx, exec |-> Exec, rows |-> Rows, mongo |-> Mongo,
           redis |-> Redis, http |-> HTTP, aws |-> AWS, grpc |-> Grpc, twirp |-> Twirp,
           connect |-> Connect, grpcstream |-> GrpcStream, connectstream |-> ConnectStream,
           saramasync |-> SaramaSync, saramaasync |-> SaramaAsync, confluent |-> Confluent,
           amqp |-> Amqp, sqs |-> Sqs, nats |-> Nats, watermill |-> Watermill, asynq |-> Asynq,
           river |-> River, cloudevents |-> CloudEvents, pubsub |-> Pubsub,
           franz |-> Franz, kafkago |-> Kafkago]

VARIABLES
    adapter, pc,    \* of each operation; pc is "idle", "open" or "over"
    outer,          \* the operation whose call its context holds, or None
    live,           \* StartCall gave it an end function that records
    ended,          \* sync.Once of the end function
    pending, err,   \* callEnd: messages without a report, and the first error
    done,           \* callEnd.done, rows.done, the once of a stream
    calls, stats,   \* calls[] and call_stats of the event
    sealed, late    \* the event; the ends that came after the seal

(* History: the library told the program of a failure; the callee panicked, or was
   never called. *)
VARIABLES broke, gaveUp

running == <<adapter, pc, gaveUp>>
handle  == <<outer, live, ended>>
report  == <<pending, err, done>>
event   == <<calls, stats, late>>
vars    == <<running, handle, report, event, sealed, broke>>

CallsAssumption ==
    Adapters \subseteq DOMAIN Policy /\ MaxOps \in Nat /\ MaxMessages \in Nat /\ None \notin Nat

P(o)       == Policy[adapter[o]]
Awaits(o, what) == pc[o] = "open" /\ P(o).ends = what

Init ==
    /\ adapter = [o \in Ops |-> None] /\ pc = [o \in Ops |-> "idle"]
    /\ outer = [o \in Ops |-> None]
    /\ live = [o \in Ops |-> FALSE] /\ ended = [o \in Ops |-> FALSE]
    /\ pending = [o \in Ops |-> 0] /\ err = [o \in Ops |-> FALSE] /\ done = [o \in Ops |-> FALSE]
    /\ calls = <<>> /\ stats = [k \in Kinds |-> [count |-> 0, errors |-> 0]]
    /\ sealed = FALSE /\ late = 0
    /\ broke = [o \in Ops |-> FALSE] /\ gaveUp = [o \in Ops |-> FALSE]

----------------------------------------------------------------------------
(* StartCall: no call inside a call of the same kind.  franz opens none inside  *)
(* any call.                                                                    *)
OpensAny(a, in) == in = None \/ ~Policy[a].alone                  \* mutant: any kind
Opens(a, in) == \/ in = None
                \/ ~Policy[a].alone /\ P(in).kind # Policy[a].kind

(* The call in the context an operation hands on: its own, or the one around it. *)
Held(o) == IF live[o] THEN o ELSE outer[o]

(* recordCall, behind the once of the end function.                             *)
Records(o) == live[o] /\ ~ended[o]
One(b) == IF b THEN 1 ELSE 0

Ends(o, bad) ==
    /\ ended' = [ended EXCEPT ![o] = @ \/ live[o]]
    /\ IF Records(o) /\ ~sealed
       THEN /\ calls' = Append(calls, [op |-> o, bad |-> bad])
            /\ stats' = [stats EXCEPT ![P(o).kind] =
                             [count |-> @.count + 1, errors |-> @.errors + One(bad)]]
       ELSE UNCHANGED <<calls, stats>>
    /\ late' = late + One(Records(o) /\ sealed)

Returns(o) == pc' = [pc EXCEPT ![o] = "over"]

----------------------------------------------------------------------------
(* An operation begins, on its own or inside another, which it may outlive. *)
Begin(o) ==
    /\ pc[o] = "idle" /\ \A p \in 1..(o - 1) : pc[p] # "idle"
    /\ \E a \in Adapters, p \in {None} \cup {q \in Ops : pc[q] = "open" /\ P(q).nests} :
           LET in == IF p = None THEN None ELSE Held(p)
           IN  /\ adapter' = [adapter EXCEPT ![o] = a]
               /\ outer' = [outer EXCEPT ![o] = in]
               /\ live' = [live EXCEPT ![o] = Policy[a].ends # "command" /\ Opens(a, in)]
               /\ \E n \in IF Policy[a].ends = "batch" THEN 1..MaxMessages ELSE {1} :
                      pending' = [pending EXCEPT ![o] = n]
    /\ pc' = [pc EXCEPT ![o] = "open"]
    /\ UNCHANGED <<ended, err, done, event, sealed, broke, gaveUp>>

(* driver.ErrSkip: the call is dropped without an end, and the statement opens   *)
(* one of its own, unless the context was done before it.                        *)
Skip(o) ==
    /\ pc[o] = "open" /\ P(o).skips /\ pending[o] = 1
    /\ pending' = [pending EXCEPT ![o] = 0]
    /\ \/ UNCHANGED <<pc, live, broke, gaveUp>>
       \/ /\ Returns(o)
          /\ live' = [live EXCEPT ![o] = FALSE]
          /\ gaveUp' = [gaveUp EXCEPT ![o] = TRUE]
          /\ broke' = [broke EXCEPT ![o] = TRUE]
    /\ UNCHANGED <<adapter, outer, ended, err, done, event, sealed>>

(* The library returned or reported: a value, nothing to be found, or an error. *)
MissFails(o, how) == how # "value"                          \* mutant
Failure(o, how) == how = "error"

Answer(o) ==
    /\ Awaits(o, "result") \/ Awaits(o, "report")
    /\ \E how \in {"value", "error"} \cup (IF P(o).misses THEN {"none"} ELSE {}) :
           /\ Ends(o, Failure(o, how))
           /\ broke' = [broke EXCEPT ![o] = how = "error"]
    /\ Returns(o)
    /\ UNCHANGED <<adapter, gaveUp, outer, live, report, sealed>>

(* The monitor of mongo: StartCall and its end, when the command has finished.  *)
Finished(o) ==
    /\ Awaits(o, "command")
    /\ \E bad \in BOOLEAN :
           LET opens == Opens(adapter[o], outer[o])
           IN  /\ live' = [live EXCEPT ![o] = opens]
               /\ ended' = [ended EXCEPT ![o] = opens]
               /\ IF opens /\ ~sealed
                  THEN /\ calls' = Append(calls, [op |-> o, bad |-> bad])
                       /\ stats' = [stats EXCEPT !["db"] =
                                        [count |-> @.count + 1, errors |-> @.errors + One(bad)]]
                  ELSE UNCHANGED <<calls, stats>>
               /\ late' = late + One(opens /\ sealed)
               /\ broke' = [broke EXCEPT ![o] = bad]
    /\ Returns(o)
    /\ UNCHANGED <<adapter, gaveUp, outer, report, sealed>>

(* The callee panics through the adapter: nothing ends the call. *)
Panics(o) ==
    /\ Awaits(o, "result")
    /\ gaveUp' = [gaveUp EXCEPT ![o] = TRUE]
    /\ Returns(o)
    /\ UNCHANGED <<adapter, handle, report, event, sealed, broke>>

----------------------------------------------------------------------------
(* rows: Next may fail between two rows, and only Close ends the call, the       *)
(* first time it is called.                                                      *)
NextFails(o) ==
    /\ Awaits(o, "rows") /\ ~done[o] /\ ~err[o]
    /\ err' = [err EXCEPT ![o] = TRUE]
    /\ UNCHANGED <<running, handle, pending, done, event, sealed, broke>>

Close(o) ==
    /\ Awaits(o, "rows")
    /\ \E bad \in BOOLEAN :
           /\ IF done[o] THEN UNCHANGED <<ended, event, broke>>
              ELSE /\ Ends(o, bad)
                   /\ broke' = [broke EXCEPT ![o] = bad]
    /\ done' = [done EXCEPT ![o] = TRUE]
    /\ pc' = [pc EXCEPT ![o] = IF done[o] THEN "over" ELSE "open"]
    /\ UNCHANGED <<adapter, gaveUp, outer, live, pending, err, sealed>>

----------------------------------------------------------------------------
(* callEnd.report, from a goroutine of the writer: part of the batch is done.   *)
FinishesFirst(o, left) == TRUE                               \* mutant
Finishes(o, left) == left = 0
Report(o) ==
    /\ Awaits(o, "batch") /\ pending[o] > 0
    /\ \E n \in 1..pending[o], bad \in BOOLEAN :
           LET left == pending[o] - n
               fail == err[o] \/ bad
           IN  /\ pending' = [pending EXCEPT ![o] = left]
               /\ err' = [err EXCEPT ![o] = fail]
               /\ IF ~done[o] /\ Finishes(o, left)
                  THEN /\ done' = [done EXCEPT ![o] = TRUE]
                       /\ Ends(o, fail)
                       /\ broke' = [broke EXCEPT ![o] = @ \/ fail]
                  ELSE /\ broke' = [broke EXCEPT ![o] = @ \/ fail]
                       /\ UNCHANGED <<done, ended, event>>
    /\ UNCHANGED <<running, outer, live, sealed>>

(* WriteMessages: an error of its own ends the call at once (callEnd.fail).     *)
Written(o) ==
    /\ Awaits(o, "batch")
    /\ \E bad \in BOOLEAN :
           /\ pending[o] > 0 => bad /\ ~done[o]
           /\ pending[o] = 0 => (bad <=> err[o])
           /\ IF bad /\ ~done[o]
              THEN Ends(o, TRUE) /\ done' = [done EXCEPT ![o] = TRUE]
              ELSE UNCHANGED <<done, ended, event>>
           /\ broke' = [broke EXCEPT ![o] = @ \/ bad]
    /\ pc' = [pc EXCEPT ![o] = IF pending[o] = 0 THEN "over" ELSE @]
    /\ UNCHANGED <<adapter, gaveUp, outer, live, pending, err, sealed>>

----------------------------------------------------------------------------
(* A stream: Receive met its end or an error, or CloseResponse was called.       *)
StreamEnds(o) ==
    /\ Awaits(o, "stream")
    /\ \E bad \in BOOLEAN :
           IF done[o] THEN UNCHANGED <<ended, event, broke>>
           ELSE /\ Ends(o, bad)
                /\ broke' = [broke EXCEPT ![o] = bad]
    /\ done' = [done EXCEPT ![o] = TRUE]
    /\ pc' = [pc EXCEPT ![o] = IF done[o] THEN "over" ELSE "open"]
    /\ UNCHANGED <<adapter, gaveUp, outer, live, pending, err, sealed>>

(* The event seals, whatever is still open. *)
Seal ==
    /\ ~sealed /\ sealed' = TRUE
    /\ UNCHANGED <<running, handle, report, event, broke>>

Next == \/ \E o \in Ops :
              \/ Begin(o) \/ Skip(o) \/ Answer(o) \/ Finished(o) \/ Panics(o)
              \/ NextFails(o) \/ Close(o)
              \/ Report(o) \/ Written(o)
              \/ StreamEnds(o)
        \/ Seal

Spec == Init /\ [][Next]_vars

----------------------------------------------------------------------------
Recorded(o) == {i \in DOMAIN calls : calls[i].op = o}
Inner(o)    == /\ outer[o] # None
               /\ P(o).alone \/ P(outer[o]).kind = P(o).kind

(* Every operation that ended is one call of the event, or one late write when   *)
(* the event had sealed, however many layers and reports it had; one inside a    *)
(* call of its own kind is none, and call_stats adds up (calls.go StartCall).    *)
CallsCounted ==
    /\ \A o \in Ops : Cardinality(Recorded(o)) <= 1
    /\ \A o \in Ops : pc[o] = "over" /\ ~gaveUp[o] => (ended[o] <=> ~Inner(o))
    /\ Len(calls) + late = Cardinality({o \in Ops : ended[o]})
    /\ \A k \in Kinds :
           LET mine == {i \in DOMAIN calls : P(calls[i].op).kind = k}
           IN  /\ stats[k].count = Cardinality(mine)
               /\ stats[k].errors = Cardinality({i \in mine : calls[i].bad})

(* A call is recorded as failed exactly when the library told the program that   *)
(* it failed, and the program is never told of a failure after it was recorded   *)
(* as one that went well (the adapters' results).                                *)
ResultTells ==
    \A i \in DOMAIN calls : calls[i].bad = broke[calls[i].op]

(* Rows that could not be read to their end make a failed call.  Only the error *)
(* of Close is kept, so they do not (store/sql rows.Next).                       *)
ReadErrorsTell ==
    \A i \in DOMAIN calls : LET o == calls[i].op
                            IN  P(o).ends = "rows" /\ err[o] => calls[i].bad
====
