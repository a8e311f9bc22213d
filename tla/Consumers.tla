------------------------------ MODULE Consumers -------------------------------
(***************************************************************************)
(* The adapters that run one event per message or job: queue/*, job/* and  *)
(* the record loops of faas/lambda, on work.Run.                           *)
(*                                                                         *)
(* A worker takes messages from a broker, runs the handler inside one      *)
(* event, ends the event, and only then settles: acks, nacks, commits an   *)
(* offset, names the failed records, or returns to a job server.  Between  *)
(* any two of these steps the process may die, a settle may be lost, and   *)
(* the broker may hand the message to another worker.  The brokers are     *)
(* external; they are modelled from the answers the adapters give them.    *)
(***************************************************************************)
EXTENDS Naturals, Sequences, FiniteSets, SequencesExt

CONSTANTS Adapters, Workers,
          NMessages,
          MaxBatch,       \* messages of one receive, where an adapter takes several
          MaxAttempts,    \* of a job
          MaxFailures,    \* handler runs that do not return nil
          MaxFaults,      \* settles that fail, kills, and early redeliveries
          None

Messages == 1..NMessages

VARIABLES
    adapter,
    at,           \* where the broker has each message: "waiting", "out", "done", "dropped"
    attempts,     \* how often a job was run
    up,           \* the process runs
    next,         \* the read position of a log: the message fetched next
    mark,         \* sarama: the offset marked, which its session commits later
    pc, todo,     \* a worker's step, and the messages of its receive, current first
    outcome,      \* how the current handler run went
    took, failed, \* the messages of this receive; those that failed, in order
    failures, faults

(* History: messages a run returned nil for, given up by configuration; runs    *)
(* whose handler returned; events, by message; the events not yet flushed.      *)
VARIABLES handled, givenUp, ran, events, unflushed

broker  == <<at, attempts, next, mark>>
worker  == <<pc, todo, outcome, took, failed>>
history == <<handled, givenUp, ran, events, unflushed>>
vars    == <<adapter, broker, up, worker, failures, faults, history>>

----------------------------------------------------------------------------
(* log:   the broker keeps one offset, so a commit covers all before it.        *)
(* many:  one receive takes several messages.                                   *)
(* final: an error may be one the adapter gives up on.                          *)
(* panic: a panic that goes on ends the process, or a server recovers it.       *)
Queue == [log |-> FALSE, many |-> FALSE, final |-> FALSE, panic |-> "crash"]
Amqp        == [Queue EXCEPT !.final = TRUE]              \* RequeueOn
Sqs         == [Queue EXCEPT !.many = TRUE]
JetStream   == [Queue EXCEPT !.final = TRUE]              \* TermOn
Pubsub      == Queue
Watermill   == [Queue EXCEPT !.final = TRUE]              \* a poisoned message
CloudEvents == [Queue EXCEPT !.panic = "recovered"]       \* Recover
Kafkago     == [Queue EXCEPT !.log = TRUE]
Confluent   == Kafkago
Sarama      == Kafkago
LambdaSqs   == [Queue EXCEPT !.many = TRUE]
LambdaStream == [LambdaSqs EXCEPT !.log = TRUE]           \* Kinesis, DynamoDB
Asynq       == [Queue EXCEPT !.final = TRUE, !.panic = "recovered"]
River       == Asynq
Temporal    == [Queue EXCEPT !.panic = "recovered"]

Policy == [amqp |-> Amqp, sqs |-> Sqs, jetstream |-> JetStream, pubsub |-> Pubsub,
           watermill |-> Watermill, cloudevents |-> CloudEvents, kafkago |-> Kafkago,
           confluent |-> Confluent, sarama |-> Sarama, lambdasqs |-> LambdaSqs,
           lambdastream |-> LambdaStream, asynq |-> Asynq, river |-> River,
           temporal |-> Temporal]
P == Policy[adapter]

ConsumersAssumption ==
    /\ Adapters \subseteq DOMAIN Policy /\ IsFiniteSet(Workers)
    /\ {NMessages, MaxAttempts, MaxFailures, MaxFaults} \subseteq Nat /\ MaxBatch \in Nat \ {0}

Lambda  == adapter \in {"lambdasqs", "lambdastream"}
Job     == adapter \in {"asynq", "river"}

Init ==
    /\ adapter \in Adapters
    /\ at = [m \in Messages |-> "waiting"] /\ attempts = [m \in Messages |-> 0]
    /\ up = TRUE /\ next = 1 /\ mark = 0
    /\ pc = [w \in Workers |-> "idle"] /\ todo = [w \in Workers |-> <<>>]
    /\ took = [w \in Workers |-> {}] /\ outcome = [w \in Workers |-> "ok"] /\ failed = [w \in Workers |-> <<>>]
    /\ failures = 0 /\ faults = 0
    /\ handled = {} /\ givenUp = {} /\ unflushed = {}
    /\ ran = [m \in Messages |-> 0] /\ events = [m \in Messages |-> <<>>]

Settled(m)  == at[m] \in {"done", "dropped"}
Committed   == CHOOSE n \in 0..NMessages : /\ \A m \in 1..n : Settled(m)
                                           /\ n = NMessages \/ ~Settled(n + 1)
Message(w)  == Head(todo[w])

(* One worker reads a partition or a shard, and a Lambda process runs one        *)
(* invocation at a time.                                                        *)
Reads(w) == P.log \/ Lambda => w = CHOOSE x \in Workers : TRUE

----------------------------------------------------------------------------
(* Receive, fetch, or the delivery of a job or of a Lambda event.               *)

Ascending(s) == \A i, j \in 1..Len(s) : i < j => s[i] < s[j]
Batches ==
    LET sizes == IF P.many THEN 1..MaxBatch ELSE {1}
        ready == {m \in Messages : at[m] = "waiting"}
    IN IF P.log THEN {[i \in 1..n |-> next + i - 1] : n \in {k \in sizes : next + k - 1 <= NMessages}}
       ELSE {s \in UNION {[1..n -> ready] : n \in sizes} : Ascending(s)}

Receive(w) ==
    /\ up /\ pc[w] = "idle" /\ Reads(w)
    /\ \E batch \in Batches :
           /\ todo' = [todo EXCEPT ![w] = batch] /\ took' = [took EXCEPT ![w] = ToSet(batch)]
           /\ at' = [m \in Messages |-> IF m \in ToSet(batch) /\ ~Settled(m) THEN "out" ELSE at[m]]
           /\ attempts' = [m \in Messages |->
                              IF m \in ToSet(batch) /\ Job THEN attempts[m] + 1 ELSE attempts[m]]
           /\ next' = IF P.log THEN Len(batch) + next ELSE next
    /\ pc' = [pc EXCEPT ![w] = "run"] /\ failed' = [failed EXCEPT ![w] = <<>>]
    /\ UNCHANGED <<adapter, mark, up, outcome, failures, faults, history>>

(* work.Run: the handler returns nil, an error, one the adapter gives up on, or *)
(* panics.  River also knows a snooze, and Watermill's router acks a message    *)
(* that another middleware poisoned.                                            *)
Outcomes == {"ok", "fail", "panic"} \cup (IF P.final THEN {"final"} ELSE {})
            \cup (IF adapter = "river" THEN {"snooze"} ELSE {})

Handle(w) ==
    /\ pc[w] = "run" /\ pc' = [pc EXCEPT ![w] = "ran"]
    /\ \E o \in Outcomes :
           /\ o # "ok" => failures < MaxFailures
           /\ failures' = IF o = "ok" THEN failures ELSE failures + 1
           /\ outcome' = [outcome EXCEPT ![w] = o]
           /\ handled' = IF o = "ok" THEN handled \cup {Message(w)} ELSE handled
           /\ givenUp' = IF o = "final" THEN givenUp \cup {Message(w)} ELSE givenUp
    /\ ran' = [ran EXCEPT ![Message(w)] = @ + 1]
    /\ UNCHANGED <<adapter, broker, up, todo, took, failed, faults, events, unflushed>>

(* The result and the level of the event: stateOf of asynq and River, the       *)
(* dead_letter of Watermill, and the level rule of Handle.End.                  *)
Exhausted(m) == attempts[m] >= MaxAttempts
OneMore(m)   == attempts[m] > MaxAttempts                \* mutant: counts from zero
Result(m, o) ==
    CASE Job /\ o = "final"  -> "cancel"
      [] Job /\ o = "snooze" -> "snooze"
      [] Job /\ o = "fail"   -> IF Exhausted(m) THEN "discard" ELSE "retry"
      [] adapter = "watermill" /\ o = "final" -> "dead_letter"
      [] OTHER -> "none"
Level(o) ==
    CASE o \in {"ok", "snooze"} -> "info"
      [] o = "final" /\ Job     -> "warn"
      [] OTHER                  -> "error"

(* Handle.End emits before a panic continues and before the message settles.    *)
Ends(o)       == TRUE
EndsCalm(o)   == o # "panic"                             \* mutant: End after the panic went on
End(w) ==
    /\ pc[w] = "ran"
    /\ LET m == Message(w)
       IN IF Ends(outcome[w])
          THEN /\ events' = [events EXCEPT ![m] =
                      Append(@, [level |-> Level(outcome[w]), result |-> Result(m, outcome[w])])]
               /\ unflushed' = unflushed \cup {m}
          ELSE UNCHANGED <<events, unflushed>>
    /\ pc' = [pc EXCEPT ![w] = IF outcome[w] = "panic" /\ P.panic = "crash" 
                                 THEN IF Lambda THEN "unwind" ELSE "panicked"
                                 ELSE "settle"]
    /\ UNCHANGED <<adapter, broker, up, todo, outcome, took, failed, failures, faults, handled, givenUp, ran>>

----------------------------------------------------------------------------
(* Settling *)

Acks(o)    == o = "ok"
AcksAll(o) == o # "panic"                                \* mutant: the error is not looked at

(* The job server archives a job whose attempts are spent. *)
Spent(m) == Job /\ attempts[m] >= MaxAttempts

(* What becomes of a message that is not acked: back to the broker, or given up *)
(* by a nack without requeue, a Term, an archived or a cancelled job.           *)
Becomes(m, o) ==
    CASE Acks(o) -> "done"
      [] o = "final" -> "dropped"
      [] o \in {"fail", "panic"} /\ Spent(m) -> "dropped"
      [] OTHER -> "waiting"

(* The next message of the receive, or the end of it. *)
Rest(w) == IF Len(todo[w]) > 1 THEN "run" ELSE IF Lambda THEN "flush" ELSE "idle"
Proceed(w) ==
    /\ pc' = [pc EXCEPT ![w] = Rest(w)]
    /\ todo' = [todo EXCEPT ![w] = Tail(@)]
    /\ took' = [took EXCEPT ![w] = IF Rest(w) = "idle" THEN {} ELSE @]
    /\ outcome' = [outcome EXCEPT ![w] = "ok"]

(* A settle may be lost: its error is ignored, and the message stays out.       *)
Lost == /\ faults < MaxFaults /\ faults' = faults + 1
        /\ UNCHANGED <<at, attempts>>

SettleQueue(w) ==
    /\ pc[w] = "settle" /\ ~P.log /\ ~Lambda
    /\ LET m == Message(w) IN
       \/ Lost
       \/ /\ at' = [at EXCEPT ![m] = IF Settled(m) THEN @
                                     ELSE IF adapter = "sqs" /\ ~Acks(outcome[w]) THEN "out"
                                     ELSE Becomes(m, outcome[w])]
          /\ attempts' = [attempts EXCEPT ![m] = IF outcome[w] = "snooze" THEN @ - 1 ELSE @]
          /\ UNCHANGED faults
    /\ Proceed(w)
    /\ UNCHANGED <<adapter, next, mark, up, failed, failures, history>>

(* A commit covers every message before it.  Sarama's mark waits for its        *)
(* session; a commit that fails ends the loop of the others.                    *)
CommitTo(n) == at' = [m \in Messages |-> IF m <= n THEN "done" ELSE at[m]]
Stop(w)     == pc' = [pc EXCEPT ![w] = "stopped"]

Stops(o)       == ~Acks(o)
GoesOn(o)      == FALSE                                  \* mutant: the loop skips a failure
MarkedShort(m) == m - 1                                  \* mutant: the offset before it
Marked(m)      == m
SettleLog(w) ==
    /\ pc[w] = "settle" /\ P.log /\ ~Lambda
    /\ IF Acks(outcome[w])
       THEN \/ /\ adapter = "sarama" /\ mark' = Marked(Message(w)) /\ UNCHANGED <<at, faults>>
               /\ pc' = [pc EXCEPT ![w] = "idle"]
            \/ /\ adapter # "sarama" /\ CommitTo(Message(w)) /\ UNCHANGED <<mark, faults>>
               /\ pc' = [pc EXCEPT ![w] = "idle"]
            \/ /\ adapter # "sarama" /\ faults < MaxFaults /\ faults' = faults + 1
               /\ Stop(w) /\ UNCHANGED <<at, mark>>
       ELSE /\ pc' = [pc EXCEPT ![w] = IF Stops(outcome[w]) THEN "stopped" ELSE "idle"]
            /\ UNCHANGED <<at, mark, faults>>
    /\ todo' = [todo EXCEPT ![w] = Tail(@)] /\ took' = [took EXCEPT ![w] = {}]
    /\ outcome' = [outcome EXCEPT ![w] = "ok"]
    /\ UNCHANGED <<adapter, attempts, next, up, failed, failures, history>>

SessionCommits ==
    /\ adapter = "sarama" /\ \E m \in 1..mark : ~Settled(m)
    /\ CommitTo(mark)
    /\ UNCHANGED <<adapter, attempts, next, mark, up, worker, failures, faults, history>>

(* ProcessSQS, ProcessKinesis, ProcessDynamoDB: every record runs, and the      *)
(* failed ones are named.                                                       *)
Named(w, m)     == Append(failed[w], m)
NamedLast(w, m) == <<m>>                                 \* mutant: the list is replaced
SettleRecord(w) ==
    /\ pc[w] = "settle" /\ Lambda
    /\ failed' = [failed EXCEPT ![w] = IF Acks(outcome[w]) THEN @ ELSE Named(w, Message(w))]
    /\ Proceed(w)
    /\ UNCHANGED <<adapter, broker, up, failures, faults, history>>

(* Wrap: the deferred flush, which may run out of time, and then the answer, or *)
(* the panic that goes on.                                                      *)
NotFlushed(E) == E                                       \* mutant: the answer does not wait
Flushed(E)   == {}
Flush(w) ==
    /\ pc[w] \in {"flush", "unwind"}
    /\ pc' = [pc EXCEPT ![w] = IF @ = "flush" THEN "answer" ELSE "panicked"]
    /\ \/ unflushed' = Flushed(unflushed) /\ UNCHANGED faults
       \/ faults < MaxFaults /\ faults' = faults + 1 /\ UNCHANGED unflushed
    /\ UNCHANGED <<adapter, broker, up, todo, outcome, took, failed, failures, handled, givenUp, ran, events>>

(* The service deletes what is not named; a shard goes back to the first named. *)
Answer(w) ==
    /\ pc[w] = "answer" /\ pc' = [pc EXCEPT ![w] = "idle"]
    /\ LET first == failed[w][1]
       IN IF P.log
          THEN IF failed[w] = <<>> THEN CommitTo(next - 1) /\ UNCHANGED next
               ELSE CommitTo(first - 1) /\ next' = first
          ELSE /\ at' = [m \in Messages |-> IF m \notin took[w] THEN at[m]
                                            ELSE IF m \in ToSet(failed[w]) THEN "waiting" ELSE "done"]
               /\ UNCHANGED next
    /\ failed' = [failed EXCEPT ![w] = <<>>] /\ took' = [took EXCEPT ![w] = {}]
    /\ UNCHANGED <<adapter, attempts, mark, up, todo, outcome, failures, faults, history>>

----------------------------------------------------------------------------
(* Crashes, redelivery, restarts *)

Idle    == [w \in Workers |-> "idle"]
Nothing == [w \in Workers |-> <<>>]

(* The panic goes on and the process dies of it, in Lambda after the flush; or  *)
(* it is killed.                                                                *)
Die ==
    /\ up' = FALSE
    /\ pc' = Idle /\ todo' = Nothing /\ failed' = Nothing
    /\ took' = [w \in Workers |-> {}] /\ outcome' = [w \in Workers |-> "ok"]
    /\ ran' = [m \in Messages |-> ran[m] - Cardinality({w \in Workers : pc[w] = "ran" /\ Message(w) = m})]
    /\ UNCHANGED <<adapter, broker, failures, handled, givenUp, events, unflushed>>

Crash == (\E w \in Workers : pc[w] = "panicked") /\ Die /\ UNCHANGED faults
Kill  == up /\ faults < MaxFaults /\ faults' = faults + 1 /\ Die

(* A new process, or a caller that opens a new reader after its loop stopped:   *)
(* a log is read again from its committed offset.                               *)
Restart ==
    /\ ~up \/ \E w \in Workers : pc[w] = "stopped"
    /\ up' = TRUE /\ pc' = [w \in Workers |-> IF pc[w] = "stopped" THEN "idle" ELSE pc[w]]
    /\ IF P.log THEN next' = Committed + 1 /\ mark' = 0 ELSE UNCHANGED <<next, mark>>
    /\ UNCHANGED <<adapter, at, attempts, todo, outcome, took, failed, failures, faults, history>>

(* A message that is out and that no worker has is delivered again, and one     *)
(* whose handler takes too long may be.                                         *)
Redeliver(m) ==
    /\ ~P.log /\ at[m] = "out" /\ at' = [at EXCEPT ![m] = "waiting"]
    /\ IF \E w \in Workers : pc[w] # "idle" /\ m \in took[w]
       THEN ~Lambda /\ ~Job /\ faults < MaxFaults /\ faults' = faults + 1
       ELSE UNCHANGED faults
    /\ UNCHANGED <<adapter, attempts, next, mark, up, worker, failures, history>>

Work(w) == Receive(w) \/ Handle(w) \/ End(w) \/ SettleQueue(w) \/ SettleLog(w)
           \/ SettleRecord(w) \/ Flush(w) \/ Answer(w)

Next ==
    \/ \E w \in Workers : Work(w)
    \/ SessionCommits \/ Crash \/ Kill \/ Restart
    \/ \E m \in Messages : Redeliver(m)

Spec == Init /\ [][Next]_vars

(* The loops go on, a caller restarts them, and the brokers deliver again.      *)
Fair ==
    /\ \A w \in Workers : WF_vars(Work(w))
    /\ WF_vars(Crash) /\ WF_vars(Restart) /\ WF_vars(SessionCommits)
    /\ \A m \in Messages : WF_vars(Redeliver(m))
FairSpec == Spec /\ Fair

----------------------------------------------------------------------------
(* A message leaves the broker only after a run returned nil for it, or an      *)
(* error gave it up; a job also after its last attempt.  No commit of a later   *)
(* offset covers a failed message.                                              *)
LeavesHandled ==
    /\ \A m \in Messages : Settled(m) => \/ m \in handled \cup givenUp
                                         \/ Spent(m)
    /\ \A m \in Messages : at[m] = "done" => m \in handled

(* Every handler run has its one event, out before the message settles and      *)
(* before a panic ends the process; a run that failed shows in its level.       *)
EventPerRun ==
    /\ \A m \in Messages :
           /\ ran[m] = Len(events[m]) + Cardinality({w \in Workers : pc[w] = "ran" /\ Message(w) = m})
    /\ \A m \in Messages : Settled(m) => events[m] # <<>>
    /\ \A w \in Workers : pc[w] \in {"settle", "unwind", "panicked"} /\ outcome[w] \in {"fail", "panic"} =>
           \E k \in DOMAIN events[Message(w)] : events[Message(w)][k].level = "error"

(* The result on the event of a job is what becomes of it: nothing follows a    *)
(* discard or a cancel, and a job that is to be retried is not dropped.         *)
ResultAgrees ==
    Job => \A m \in Messages : \A k \in 1..Len(events[m]) :
        /\ events[m][k].result \in {"discard", "cancel"} /\ faults = 0 =>
               k = Len(events[m]) /\ at[m] # "waiting"
        /\ at[m] = "dropped" /\ k = Len(events[m]) => events[m][k].result # "retry"

(* A Lambda invocation answers, or dies of a panic, only after its events were  *)
(* flushed, or the flush ran out of time.                                       *)
FlushedBeforeAnswer ==
    \A w \in Workers : pc[w] = "answer" \/ (Lambda /\ pc[w] = "panicked")
                           => unflushed = {} \/ faults > 0

(* Every message leaves the broker in the end.                                  *)
AllSettled == \A m \in Messages : Settled(m)
Drained    == <>AllSettled
=============================================================================
