----------------------------- MODULE UnitsProofs ------------------------------
(***************************************************************************)
(* What holds of the adapters that run a unit of work, for any number of   *)
(* workers and messages, whichever adapter runs.  Consumers: a message     *)
(* leaves the broker only after it was handled, every run has its event,   *)
(* and what the caller is told agrees with it.  Units: one event per unit, *)
(* out before control leaves.                                              *)
(***************************************************************************)
EXTENDS MCUnits, Integers, FiniteSetTheorems, SequenceTheorems, TLAPS

Busy == {"run", "ran", "settle", "unwind", "panicked"}
Steps == Busy \cup {"idle", "flush", "answer", "stopped"}
Outcome == {"ok", "fail", "panic", "final", "snooze"}
Told == [level : {"info", "warn", "error"},
         result : {"cancel", "snooze", "discard", "retry", "dead_letter", "none"}]
Log    == loop \in {"kafkago", "confluent", "sarama", "lambdastream"}
Many   == loop \in {"sqs", "lambdasqs", "lambdastream"}
Reader == CHOOSE x \in Workers : TRUE

BrokerType ==
    /\ loop \in QueueAdapters
    /\ at \in [Q!Messages -> {"waiting", "out", "done", "dropped"}]
    /\ attempts \in [Q!Messages -> Int]
    /\ up \in BOOLEAN /\ next \in 1..(NMessages + 1) /\ mark \in 0..NMessages
    /\ failures \in Nat /\ faults \in Nat
WorkersType ==
    /\ qpc \in [Workers -> Steps] /\ outcome \in [Workers -> Outcome]
    /\ todo \in [Workers -> Seq(Q!Messages)] /\ failed \in [Workers -> Seq(Q!Messages)]
    /\ took \in [Workers -> SUBSET Q!Messages]
HistoryType ==
    /\ handled \subseteq Q!Messages /\ givenUp \subseteq Q!Messages /\ unflushed \subseteq Q!Messages
    /\ ran \in [Q!Messages -> Int] /\ events \in [Q!Messages -> Seq(Told)]

In(s, m) == \E i \in 1..Len(s) : s[i] = m

(* What a worker holds at each of its steps. *)
Held(w) ==
    /\ qpc[w] \in Busy => Len(todo[w]) > 0
    /\ qpc[w] \notin Busy => todo[w] = <<>>
    /\ qpc[w] \in {"idle", "stopped"} => took[w] = {}
    /\ qpc[w] = "idle" \/ ~Q!Lambda => failed[w] = <<>>
    /\ ~Many => Len(todo[w]) <= 1
    /\ \A m \in Q!Messages : In(todo[w], m) => m \in took[w]
    /\ Q!Ascending(todo[w])
(* The steps that only some adapters take. *)
Takes(w) ==
    /\ qpc[w] \in {"flush", "unwind", "answer"} => Q!Lambda
    /\ qpc[w] = "stopped" => Log /\ ~Q!Lambda
    /\ qpc[w] = "panicked" => ~Q!Job
Places == \A w \in Workers : Held(w) /\ Takes(w)

Down  == ~up => \A w \in Workers : qpc[w] = "idle"
Alone == Log \/ Q!Lambda => \A w \in Workers : qpc[w] # "idle" => w = Reader

(* A run returned nil for the message, and its event is out. *)
Through(m) == m \in handled /\ events[m] # <<>>
Ran == \A w \in Workers : qpc[w] \in {"ran", "settle", "unwind", "panicked"} =>
    /\ outcome[w] = "ok" => Q!Message(w) \in handled
    /\ outcome[w] = "final" => Q!Message(w) \in givenUp
Ended == \A w \in Workers : qpc[w] \in {"settle", "unwind", "panicked"} =>
    \E k \in 1..Len(events[Q!Message(w)]) : events[Q!Message(w)][k].level = Q!Level(outcome[w])
Counted == \A m \in Q!Messages :
    ran[m] = Len(events[m]) + Cardinality({w \in Workers : qpc[w] = "ran" /\ Q!Message(w) = m})

Settles ==
    /\ \A m \in Q!Messages : Q!Settled(m) => events[m] # <<>>
    /\ \A m \in Q!Messages : at[m] = "done" => m \in handled
    /\ \A m \in Q!Messages : at[m] = "dropped" => m \in givenUp \/ Q!Spent(m)

(* Of a log: what is committed is a prefix, and all that was read is through, *)
(* failed, or with the reader.                                                *)
Prefix == Log => \E c \in 0..NMessages : \A m \in Q!Messages :
    at[m] # "dropped" /\ (at[m] = "done" <=> m <= c)
Before == Log => \A w \in Workers : \A m \in Q!Messages :
    In(todo[w], m) \/ In(failed[w], m) => m < next
Read(m) == Through(m) \/ \E w \in Workers : In(todo[w], m) \/ In(failed[w], m)
ReadTo == Log /\ up /\ (\A w \in Workers : qpc[w] # "stopped") =>
    \A m \in Q!Messages : m < next => Read(m)
MarkTo == Log => \A m \in Q!Messages : m <= mark => Through(m)
FirstFailed == \A w \in Workers : \A m \in Q!Messages : In(failed[w], m) =>
    failed[w][1] <= m /\ \A k \in Q!Messages : In(todo[w], k) => m < k
TookTo == Q!Lambda => \A w \in Workers : \A m \in took[w] :
    Through(m) \/ In(todo[w], m) \/ In(failed[w], m)

(* Of a job: its one holder, and what its last event says. *)
JobHeld == Q!Job => \A w \in Workers : qpc[w] # "idle" =>
    /\ at[Q!Message(w)] = "out"
    /\ \A v \in Workers : qpc[v] # "idle" /\ Q!Message(v) = Q!Message(w) => v = w
Last(s) == s[Len(s)]
JobTold == Q!Job => \A w \in Workers : qpc[w] = "settle" =>
    Last(events[Q!Message(w)]).result = Q!Result(Q!Message(w), outcome[w])
JobDropped == Q!Job => \A m \in Q!Messages :
    at[m] = "dropped" => \A k \in {Len(events[m])} : events[m][k].result # "retry"
JobEnds == Q!Job /\ faults = 0 => \A m \in Q!Messages : \A k \in 1..Len(events[m]) :
    events[m][k].result \in {"discard", "cancel"} =>
        /\ k = Len(events[m])
        /\ at[m] = "dropped" \/ \E w \in Workers : qpc[w] = "settle" /\ Q!Message(w) = m

FlushedFirst == \A w \in Workers : qpc[w] = "answer" \/ (Q!Lambda /\ qpc[w] = "panicked")
    => unflushed = {} \/ faults > 0

ConsumersInv ==
    /\ BrokerType /\ WorkersType /\ HistoryType /\ Places /\ Down /\ Alone
    /\ Ran /\ Ended /\ Counted /\ Settles
    /\ Prefix /\ Before /\ ReadTo /\ MarkTo /\ FirstFailed /\ TookTo
    /\ JobHeld /\ JobTold /\ JobDropped /\ JobEnds /\ FlushedFirst

----------------------------------------------------------------------------
(* Adapters, sequences and batches *)

LEMMA Parameters ==
    /\ NMessages \in Nat /\ MaxBatch \in Nat \ {0} /\ MaxAttempts \in Nat
    /\ MaxFaults \in Nat /\ IsFiniteSet(Workers) /\ QueueAdapters \subseteq DOMAIN Q!Policy
<1> QED  BY ConsumersAssumption DEF Q!ConsumersAssumption, Q!IsFiniteSet, IsFiniteSet

LEMMA SameCount == \A S : Q!Cardinality(S) = Cardinality(S)
<1> QED  BY DEF Q!Cardinality, Cardinality

LEMMA Kinds ==
    ASSUME loop \in QueueAdapters
    PROVE  /\ Q!P.log <=> Log
           /\ Q!P.many <=> Many
           /\ Q!P.panic = IF loop \in {"cloudevents", "asynq", "river", "temporal"} THEN "recovered" ELSE "crash"
<1>1. loop \in DOMAIN Q!Policy
  BY Parameters
<1>2. /\ ~Q!Queue.log /\ ~Q!Queue.many /\ Q!Queue.panic = "crash"
      /\ DOMAIN Q!Queue = {"log", "many", "final", "panic"}
  BY DEF Q!Queue
<1>3. CASE loop \in {"amqp", "jetstream", "pubsub", "watermill"}
  BY <1>2, <1>3 DEF Q!P, Q!Policy, Q!Amqp, Q!JetStream, Q!Pubsub, Q!Watermill, Log, Many
<1>4. CASE loop \in {"cloudevents", "temporal"}
  BY <1>2, <1>4 DEF Q!P, Q!Policy, Q!CloudEvents, Q!Temporal, Log, Many
<1>5. CASE loop \in {"asynq", "river"}
  <2>1. Q!P = Q!Asynq
    BY <1>5 DEF Q!P, Q!Policy, Q!River
  <2> QED  BY <1>2, <1>5, <2>1 DEF Q!Asynq, Log, Many
<1>6. CASE loop \in {"sqs", "lambdasqs"}
  BY <1>2, <1>6 DEF Q!P, Q!Policy, Q!Sqs, Q!LambdaSqs, Log, Many
<1>7. CASE loop \in {"kafkago", "confluent", "sarama"}
  BY <1>2, <1>7 DEF Q!P, Q!Policy, Q!Kafkago, Q!Confluent, Q!Sarama, Log, Many
<1>8. CASE loop \in {"lambdastream"}
  <2>1. /\ ~Q!LambdaSqs.log /\ Q!LambdaSqs.many /\ Q!LambdaSqs.panic = "crash"
        /\ DOMAIN Q!LambdaSqs = {"log", "many", "final", "panic"}
    BY <1>2 DEF Q!LambdaSqs
  <2>2. Q!P = Q!LambdaStream
    BY <1>8 DEF Q!P, Q!Policy
  <2> QED  BY <1>8, <2>1, <2>2 DEF Q!LambdaStream, Log, Many
<1> QED  BY <1>1, <1>3, <1>4, <1>5, <1>6, <1>7, <1>8 DEF Q!Policy

LEMMA SameKind ==
    ASSUME loop' = loop
    PROVE  (Log' <=> Log) /\ (Many' <=> Many) /\ (Q!Lambda' <=> Q!Lambda) /\ (Q!Job' <=> Q!Job)
<1> QED  BY DEF Log, Many, Q!Lambda, Q!Job

LEMMA FirstAndRest ==
    ASSUME NEW S, NEW s \in Seq(S), Len(s) > 0
    PROVE  /\ Head(s) \in S /\ Head(s) = s[1] /\ In(s, Head(s))
           /\ Tail(s) \in Seq(S) /\ Len(Tail(s)) = Len(s) - 1
           /\ \A i \in 1..(Len(s) - 1) : Tail(s)[i] = s[i + 1]
           /\ \A m : In(s, m) <=> m = Head(s) \/ In(Tail(s), m)
<1>1. /\ s # <<>> /\ Len(s) \in Nat /\ Head(s) = s[1] /\ Head(s) \in S
      /\ Tail(s) \in Seq(S) /\ Len(Tail(s)) = Len(s) - 1
      /\ \A i \in 1..(Len(s) - 1) : Tail(s)[i] = s[i + 1]
  OBVIOUS
<1>2. ASSUME NEW m, In(s, m) PROVE m = Head(s) \/ In(Tail(s), m)
  <2>1. PICK i \in 1..Len(s) : s[i] = m
    BY <1>2 DEF In
  <2>2. CASE i = 1
    BY <1>1, <2>1, <2>2
  <2>3. CASE i # 1
    <3>1. i - 1 \in 1..(Len(s) - 1) /\ (i - 1) + 1 = i
      BY <1>1, <2>1, <2>3
    <3>2. Tail(s)[i - 1] = m
      BY <1>1, <2>1, <3>1
    <3> QED  BY <1>1, <3>1, <3>2 DEF In
  <2> QED  BY <2>2, <2>3
<1>3. ASSUME NEW m, m = Head(s) \/ In(Tail(s), m) PROVE In(s, m)
  <2>1. CASE m = Head(s)
    <3>1. 1 \in 1..Len(s)
      BY <1>1
    <3> QED  BY <1>1, <2>1, <3>1 DEF In
  <2>2. CASE In(Tail(s), m)
    <3>1. PICK i \in 1..(Len(s) - 1) : Tail(s)[i] = m
      BY <1>1, <2>2 DEF In
    <3>2. i + 1 \in 1..Len(s) /\ s[i + 1] = m
      BY <1>1, <3>1
    <3> QED  BY <3>2 DEF In
  <2> QED  BY <1>3, <2>1, <2>2
<1> QED  BY <1>1, <1>2, <1>3

LEMMA InAppend ==
    ASSUME NEW S, NEW s \in Seq(S), NEW x \in S
    PROVE  /\ Append(s, x) \in Seq(S) /\ Len(Append(s, x)) = Len(s) + 1
           /\ \A m : In(Append(s, x), m) <=> In(s, m) \/ m = x
           /\ s # <<>> => Append(s, x)[1] = s[1]
           /\ s = <<>> => Append(s, x)[1] = x
<1>1. /\ Append(s, x) \in Seq(S) /\ Len(Append(s, x)) = Len(s) + 1 /\ Len(s) \in Nat
      /\ \A i \in 1..Len(s) : Append(s, x)[i] = s[i]
      /\ Append(s, x)[Len(s) + 1] = x
  BY AppendProperties, LenProperties
<1>2. \A m : In(Append(s, x), m) <=> In(s, m) \/ m = x
  <2>1. \A i \in 1..(Len(s) + 1) : i \in 1..Len(s) \/ i = Len(s) + 1
    BY <1>1
  <2>2. \A i \in 1..Len(s) : i \in 1..(Len(s) + 1)
    BY <1>1
  <2>3. Len(s) + 1 \in 1..(Len(s) + 1)
    BY <1>1
  <2> QED  BY <1>1, <2>1, <2>2, <2>3 DEF In
<1>3. s # <<>> => 1 \in 1..Len(s)
  BY <1>1
<1>4. s = <<>> => Len(s) = 0
  OBVIOUS
<1> QED  BY <1>1, <1>2, <1>3, <1>4

LEMMA InEmpty == \A m : ~In(<<>>, m)
<1> QED  BY DEF In

LEMMA InTyped ==
    ASSUME NEW S, NEW s \in Seq(S), NEW m, In(s, m)
    PROVE  m \in S /\ m \in Q!ToSet(s)
<1> QED  BY DEF In, Q!ToSet

LEMMA ToSetIn ==
    ASSUME NEW S, NEW s \in Seq(S), NEW m \in Q!ToSet(s)
    PROVE  In(s, m)
<1> QED  BY DEF In, Q!ToSet

LEMMA RestAscends ==
    ASSUME NEW s \in Seq(Q!Messages), Len(s) > 0, Q!Ascending(s)
    PROVE  /\ Q!Ascending(Tail(s))
           /\ \A m \in Q!Messages : In(Tail(s), m) => Head(s) < m
<1>1. /\ Len(s) \in Nat /\ Head(s) = s[1] /\ Len(Tail(s)) = Len(s) - 1
      /\ \A i \in 1..(Len(s) - 1) : Tail(s)[i] = s[i + 1]
  BY FirstAndRest
<1>2. ASSUME NEW i \in 1..(Len(s) - 1) PROVE i + 1 \in 1..Len(s) /\ 1 \in 1..Len(s) /\ 1 < i + 1
  BY <1>1
<1>3. Q!Ascending(Tail(s))
  BY <1>1, <1>2 DEF Q!Ascending
<1>4. \A m \in Q!Messages : In(Tail(s), m) => Head(s) < m
  BY <1>1, <1>2 DEF Q!Ascending, In
<1> QED  BY <1>3, <1>4

(* A receive takes messages that wait; a log's, those that follow the last read. *)
LEMMA BatchShape ==
    ASSUME BrokerType, NEW batch \in Q!Batches
    PROVE  /\ batch \in Seq(Q!Messages) /\ Len(batch) > 0 /\ Q!Ascending(batch)
           /\ ~Many => Len(batch) = 1
           /\ Log => /\ next + Len(batch) <= NMessages + 1
                     /\ \A m \in Q!Messages : In(batch, m) <=> next <= m /\ m < next + Len(batch)
           /\ ~Log => \A m \in Q!Messages : In(batch, m) => at[m] = "waiting"
<1> DEFINE sizes == IF Many THEN 1..MaxBatch ELSE {1}
<1>1. sizes \subseteq Nat \ {0} /\ (~Many => sizes = {1})
  BY Parameters
<1>2. next \in Nat \ {0} /\ next \in 1..(NMessages + 1) /\ NMessages \in Nat
  BY Parameters DEF BrokerType
<1> (Q!P.log <=> Log) /\ (Q!P.many <=> Many)
  BY Kinds DEF BrokerType
<1>3. CASE Log
  <2>1. PICK n \in sizes : next + n - 1 <= NMessages /\ batch = [i \in 1..n |-> next + i - 1]
    BY <1>3 DEF Q!Batches
  <2>2. n \in Nat \ {0} /\ (~Many => n = 1)
    BY <1>1, <2>1
  <2>3. \A i \in 1..n : next + i - 1 \in Q!Messages
    BY <1>2, <2>1, <2>2 DEF Q!Messages
  <2>4. batch \in Seq(Q!Messages) /\ Len(batch) = n
    BY <2>1, <2>2, <2>3
  <2>5. Q!Ascending(batch)
    BY <1>2, <2>1, <2>2, <2>4 DEF Q!Ascending
  <2>6. \A m \in Q!Messages : In(batch, m) => next <= m /\ m < next + n
    BY <1>2, <2>1, <2>2, <2>4 DEF In
  <2>7. ASSUME NEW m \in Q!Messages, next <= m, m < next + n PROVE In(batch, m)
    <3>1. (m - next) + 1 \in 1..n /\ next + ((m - next) + 1) - 1 = m
      BY <1>2, <2>2, <2>7 DEF Q!Messages
    <3> QED  BY <2>1, <2>4, <3>1 DEF In
  <2>8. next + n <= NMessages + 1
    BY <1>2, <2>1, <2>2
  <2> QED  BY <1>3, <2>2, <2>4, <2>5, <2>6, <2>7, <2>8
<1>4. CASE ~Log
  <2> DEFINE ready == {m \in Q!Messages : at[m] = "waiting"}
  <2>1. PICK n \in sizes : batch \in [1..n -> ready] /\ Q!Ascending(batch)
    BY <1>4 DEF Q!Batches
  <2>2. n \in Nat \ {0} /\ (~Many => n = 1)
    BY <1>1, <2>1
  <2>3. batch \in [1..n -> Q!Messages]
    BY <2>1
  <2>4. batch \in Seq(Q!Messages) /\ Len(batch) = n
    BY <2>2, <2>3
  <2>5. \A m \in Q!Messages : In(batch, m) => at[m] = "waiting"
    BY <2>1, <2>4 DEF In
  <2> QED  BY <1>4, <2>1, <2>2, <2>4, <2>5
<1> QED  BY <1>3, <1>4

----------------------------------------------------------------------------
(* The first state, and what every step keeps *)

LEMMA ConsumersStarts == Q!Init => ConsumersInv
<1> SUFFICES ASSUME Q!Init PROVE ConsumersInv
  OBVIOUS
<1>1. NMessages \in Nat /\ (<<>> \in Seq(Q!Messages)) /\ (<<>> \in Seq(Told)) /\ Len(<<>>) = 0
  BY Parameters
<1>2. /\ loop \in QueueAdapters
      /\ at = [m \in Q!Messages |-> "waiting"] /\ attempts = [m \in Q!Messages |-> 0]
      /\ up = TRUE /\ next = 1 /\ mark = 0 /\ failures = 0 /\ faults = 0
      /\ qpc = [w \in Workers |-> "idle"] /\ todo = [w \in Workers |-> <<>>]
      /\ took = [w \in Workers |-> {}] /\ outcome = [w \in Workers |-> "ok"] /\ failed = [w \in Workers |-> <<>>]
      /\ handled = {} /\ givenUp = {} /\ unflushed = {}
      /\ ran = [m \in Q!Messages |-> 0] /\ events = [m \in Q!Messages |-> <<>>]
  BY DEF Q!Init
<1>3. BrokerType
  BY <1>1, <1>2 DEF BrokerType
<1>4. WorkersType /\ HistoryType
  BY <1>1, <1>2 DEF WorkersType, HistoryType, Steps, Busy, Outcome
<1>5. Places
  BY <1>1, <1>2, InEmpty DEF Places, Held, Takes, Busy, Q!Ascending
<1>6. Down /\ Alone /\ Ran /\ Ended /\ FlushedFirst
  BY <1>2 DEF Down, Alone, Ran, Ended, FlushedFirst
<1>7. Counted
  <2>1. \A m \in Q!Messages : {w \in Workers : qpc[w] = "ran" /\ Q!Message(w) = m} = {}
    BY <1>2
  <2>2. ASSUME NEW m \in Q!Messages
        PROVE  ran[m] = Len(events[m])
                        + Cardinality({w \in Workers : qpc[w] = "ran" /\ Q!Message(w) = m})
    <3>1. Cardinality({w \in Workers : qpc[w] = "ran" /\ Q!Message(w) = m}) = 0
      BY <2>1, FS_EmptySet
    <3> QED  BY <1>1, <1>2, <3>1
  <2> QED  BY <2>2 DEF Counted
<1>8. Settles /\ JobDropped /\ JobEnds /\ JobHeld /\ JobTold
  BY <1>1, <1>2 DEF Settles, Q!Settled, JobDropped, JobEnds, JobHeld, JobTold
<1>9. Prefix
  <2>1. 0 \in 0..NMessages /\ \A m \in Q!Messages : at[m] # "dropped" /\ (at[m] = "done" <=> m <= 0)
    BY <1>1, <1>2 DEF Q!Messages
  <2> QED  BY <2>1 DEF Prefix
<1>10. Before /\ FirstFailed /\ TookTo
  BY <1>2, InEmpty DEF Before, FirstFailed, TookTo
<1>11. ReadTo /\ MarkTo
  BY <1>1, <1>2 DEF ReadTo, MarkTo, Q!Messages
<1> QED
  BY <1>3, <1>4, <1>5, <1>6, <1>7, <1>8, <1>9, <1>10, <1>11 DEF ConsumersInv

(* The message that a busy worker runs. *)
LEMMA Current ==
    ASSUME WorkersType, Places, NEW w \in Workers, qpc[w] \in Busy
    PROVE  /\ Q!Message(w) \in Q!Messages /\ In(todo[w], Q!Message(w)) /\ Q!Message(w) = todo[w][1]
           /\ todo[w] \in Seq(Q!Messages) /\ Len(todo[w]) > 0
           /\ Tail(todo[w]) \in Seq(Q!Messages) /\ Len(Tail(todo[w])) = Len(todo[w]) - 1
           /\ \A m : In(todo[w], m) <=> m = Q!Message(w) \/ In(Tail(todo[w]), m)
           /\ Q!Ascending(Tail(todo[w]))
           /\ \A m \in Q!Messages : In(Tail(todo[w]), m) => Q!Message(w) < m
<1>1. todo[w] \in Seq(Q!Messages) /\ Len(todo[w]) > 0 /\ Q!Ascending(todo[w])
  BY DEF WorkersType, Places, Held
<1> QED  BY <1>1, FirstAndRest, RestAscends DEF Q!Message

(* A step that leaves the workers as they are. *)
LEMMA WorkersKept ==
    ASSUME WorkersType, Places, FirstFailed, Alone,
           UNCHANGED <<loop, qpc, todo, took, failed, outcome>>
    PROVE  WorkersType' /\ Places' /\ FirstFailed' /\ Alone'
<1>1. (Log' <=> Log) /\ (Many' <=> Many) /\ (Q!Lambda' <=> Q!Lambda) /\ (Q!Job' <=> Q!Job)
  BY SameKind
<1>2. WorkersType'
  BY DEF WorkersType
<1>3. Places'
  BY <1>1 DEF Places, Held, Takes
<1>4. FirstFailed' /\ Alone'
  BY <1>1 DEF FirstFailed, Alone
<1> QED  BY <1>2, <1>3, <1>4

LEMMA HandleKeeps ==
    ASSUME ConsumersInv, NEW w \in Workers, Q!Handle(w)
    PROVE  ConsumersInv'
<1> DEFINE m == Q!Message(w)
<1>1. /\ qpc[w] = "run" /\ qpc' = [qpc EXCEPT ![w] = "ran"] /\ ran' = [ran EXCEPT ![m] = @ + 1]
      /\ UNCHANGED <<loop, at, attempts, next, mark, up, todo, took, failed, faults, events, unflushed>>
  BY DEF Q!Handle, Q!broker
<1>2. PICK o \in Q!Outcomes :
      /\ failures' = IF o = "ok" THEN failures ELSE failures + 1
      /\ outcome' = [outcome EXCEPT ![w] = o]
      /\ handled' = IF o = "ok" THEN handled \cup {m} ELSE handled
      /\ givenUp' = IF o = "final" THEN givenUp \cup {m} ELSE givenUp
  BY DEF Q!Handle
<1>3. o \in Outcome
  BY DEF Q!Outcomes, Outcome
<1>4. /\ BrokerType /\ WorkersType /\ HistoryType /\ Places /\ Down /\ Alone
      /\ Ran /\ Ended /\ Counted /\ Settles
      /\ Prefix /\ Before /\ ReadTo /\ MarkTo /\ FirstFailed /\ TookTo
      /\ JobHeld /\ JobTold /\ JobDropped /\ JobEnds /\ FlushedFirst
  BY DEF ConsumersInv
<1>5. m \in Q!Messages /\ In(todo[w], m)
  BY <1>1, <1>4, Current DEF Busy
<1>6. (Log' <=> Log) /\ (Many' <=> Many) /\ (Q!Lambda' <=> Q!Lambda) /\ (Q!Job' <=> Q!Job)
  BY <1>1, SameKind
<1>7. /\ qpc'[w] = "ran" /\ outcome'[w] = o
      /\ \A v \in Workers : v # w => qpc'[v] = qpc[v] /\ outcome'[v] = outcome[v]
      /\ \A v \in Workers : Q!Message(v)' = Q!Message(v)
      /\ \A x : Through(x) => Through(x)'
  BY <1>1, <1>2, <1>4 DEF WorkersType, Q!Message, Through
<1>8. BrokerType' /\ HistoryType'
  BY <1>1, <1>2, <1>4, <1>5 DEF BrokerType, HistoryType
<1>9. WorkersType'
  BY <1>1, <1>2, <1>3, <1>4 DEF WorkersType, Steps, Busy
<1>10. Places'
  BY <1>1, <1>4, <1>6, <1>7 DEF Places, Held, Takes, Busy
<1>11. Down' /\ Alone' /\ Before' /\ FirstFailed' /\ Prefix'
  BY <1>1, <1>4, <1>6, <1>7 DEF Down, Alone, Before, FirstFailed, Prefix
<1>12. Ran' /\ Ended' /\ FlushedFirst'
  BY <1>1, <1>2, <1>4, <1>6, <1>7 DEF Ran, Ended, FlushedFirst, Q!Level
<1>13. Counted'
  <2> DEFINE R(x) == {v \in Workers : qpc[v] = "ran" /\ Q!Message(v) = x}
             N(x) == {v \in Workers : qpc'[v] = "ran" /\ Q!Message(v)' = x}
  <2>1. IsFiniteSet(R(m)) /\ w \notin R(m)
    BY <1>1, Parameters, FS_Subset
  <2>2. N(m) = R(m) \cup {w} /\ \A x : x # m => N(x) = R(x)
    BY <1>7, <1>1
  <2>3. Cardinality(N(m)) = Cardinality(R(m)) + 1
    BY <2>1, <2>2, FS_AddElement
  <2>4. ASSUME NEW x \in Q!Messages PROVE ran'[x] = Len(events'[x]) + Cardinality(N(x))
    <3>1. ran[x] = Len(events[x]) + Cardinality(R(x)) /\ ran[x] \in Int
      BY <1>4 DEF Counted, HistoryType
    <3>2. Len(events[x]) \in Nat /\ events' = events /\ Cardinality(R(m)) \in Nat
      BY <1>1, <1>4, <2>1, FS_CardinalityType DEF HistoryType
    <3>3. CASE x = m
      <4>1. ran'[x] = ran[x] + 1
        BY <1>1, <1>4, <3>3 DEF HistoryType
      <4> QED  BY <2>3, <3>1, <3>2, <3>3, <4>1
    <3>4. CASE x # m
      BY <1>1, <1>4, <2>2, <3>1, <3>2, <3>4 DEF HistoryType
    <3> QED  BY <3>3, <3>4
  <2> QED  BY <2>4 DEF Counted
<1>14. Settles'
  BY <1>1, <1>2, <1>4, <1>6 DEF Settles, Q!Settled, Q!Spent
<1>15. ReadTo' /\ MarkTo' /\ TookTo'
  BY <1>1, <1>4, <1>6, <1>7 DEF ReadTo, MarkTo, TookTo, Read
<1>16. JobHeld' /\ JobTold' /\ JobDropped'
  BY <1>1, <1>4, <1>6, <1>7 DEF JobHeld, JobTold, JobDropped, Q!Result, Q!Exhausted
<1>17. JobEnds'
  BY <1>1, <1>4, <1>6, <1>7 DEF JobEnds
<1> QED
  BY <1>8, <1>9, <1>10, <1>11, <1>12, <1>13, <1>14, <1>15, <1>16, <1>17 DEF ConsumersInv

LEMMA ReceiveKeeps ==
    ASSUME ConsumersInv, NEW w \in Workers, Q!Receive(w)
    PROVE  ConsumersInv'
<1>1. /\ up /\ qpc[w] = "idle" /\ Q!Reads(w)
      /\ qpc' = [qpc EXCEPT ![w] = "run"] /\ failed' = [failed EXCEPT ![w] = <<>>]
      /\ UNCHANGED <<loop, mark, up, outcome, failures, faults, handled, givenUp, ran, events, unflushed>>
  BY DEF Q!Receive, Q!history
<1>2. PICK batch \in Q!Batches :
      /\ todo' = [todo EXCEPT ![w] = batch] /\ took' = [took EXCEPT ![w] = Q!ToSet(batch)]
      /\ at' = [m \in Q!Messages |-> IF m \in Q!ToSet(batch) /\ ~Q!Settled(m) THEN "out" ELSE at[m]]
      /\ attempts' = [m \in Q!Messages |->
                         IF m \in Q!ToSet(batch) /\ Q!Job THEN attempts[m] + 1 ELSE attempts[m]]
      /\ next' = IF Q!P.log THEN Len(batch) + next ELSE next
  BY DEF Q!Receive
<1>3. /\ BrokerType /\ WorkersType /\ HistoryType /\ Places /\ Down /\ Alone
      /\ Ran /\ Ended /\ Counted /\ Settles
      /\ Prefix /\ Before /\ ReadTo /\ MarkTo /\ FirstFailed /\ TookTo
      /\ JobHeld /\ JobTold /\ JobDropped /\ JobEnds /\ FlushedFirst
  BY DEF ConsumersInv
<1>4. /\ batch \in Seq(Q!Messages) /\ Len(batch) > 0 /\ Q!Ascending(batch) /\ Len(batch) \in Nat
      /\ ~Many => Len(batch) = 1
      /\ Log => /\ next + Len(batch) <= NMessages + 1
                /\ \A m \in Q!Messages : In(batch, m) <=> next <= m /\ m < next + Len(batch)
      /\ ~Log => \A m \in Q!Messages : In(batch, m) => at[m] = "waiting"
  BY <1>3, BatchShape, LenProperties
<1>5. (Log' <=> Log) /\ (Many' <=> Many) /\ (Q!Lambda' <=> Q!Lambda) /\ (Q!Job' <=> Q!Job)
  BY <1>1, SameKind
<1>6. /\ \A m : m \in Q!ToSet(batch) <=> In(batch, m)
      /\ Q!ToSet(batch) \subseteq Q!Messages
  BY <1>4, ToSetIn, InTyped
<1>7. (Q!P.log <=> Log) /\ next \in Nat /\ NMessages \in Nat /\ next <= NMessages + 1 /\ 1 <= next
  BY <1>3, Kinds, Parameters DEF BrokerType
<1>8. next' \in 1..(NMessages + 1) /\ next' >= next
      /\ (Log => next' = next + Len(batch)) /\ (~Log => next' = next)
  BY <1>2, <1>4, <1>7
<1>9. /\ at' \in [Q!Messages -> {"waiting", "out", "done", "dropped"}]
      /\ attempts' \in [Q!Messages -> Int]
      /\ \A m \in Q!Messages : /\ at'[m] = "done" <=> at[m] = "done"
                               /\ at'[m] = "dropped" <=> at[m] = "dropped"
                               /\ at[m] # "waiting" => at'[m] = at[m] \/ (Log /\ at'[m] = "out")
                               /\ at[m] = "out" => at'[m] = "out"
                               /\ attempts'[m] >= attempts[m]
                               /\ ~Log /\ at[m] # "waiting" => attempts'[m] = attempts[m]
                               /\ ~Log /\ In(batch, m) => at'[m] = "out"
  BY <1>2, <1>3, <1>4, <1>6 DEF BrokerType, Q!Settled
<1>10. BrokerType' /\ HistoryType'
  BY <1>1, <1>3, <1>8, <1>9 DEF BrokerType, HistoryType
<1>11. WorkersType'
  BY <1>1, <1>2, <1>3, <1>4, <1>6 DEF WorkersType, Steps, Busy
<1>12. /\ qpc'[w] = "run" /\ todo'[w] = batch /\ failed'[w] = <<>> /\ took'[w] = Q!ToSet(batch)
       /\ \A v \in Workers : v # w =>
              qpc'[v] = qpc[v] /\ todo'[v] = todo[v] /\ failed'[v] = failed[v] /\ took'[v] = took[v]
       /\ \A v \in Workers : outcome'[v] = outcome[v]
       /\ \A v \in Workers : v # w => Q!Message(v)' = Q!Message(v)
       /\ \A x : Through(x)' <=> Through(x)
  BY <1>1, <1>2, <1>3 DEF WorkersType, Q!Message, Through
<1>13. Places'
  <2>1. Takes(w)'
    BY <1>12 DEF Takes
  <2>3. Held(w)'
    <3>1. \A m \in Q!Messages : In(todo'[w], m) => m \in took'[w]
      BY <1>6, <1>12
    <3>2. Len(batch) > 0 /\ Q!Ascending(batch)
      BY <1>4
    <3>3. ASSUME ~Many PROVE Len(batch) <= 1
      <4>1. Len(batch) = 1
        BY <1>4, <3>3
      <4> QED  BY <4>1
    <3>4. todo'[w] = batch
      BY <1>12
    <3> QED  BY <1>5, <1>12, <3>1, <3>2, <3>3, <3>4 DEF Held, Busy
  <2>2. ASSUME NEW v \in Workers, v # w PROVE Held(v)' /\ Takes(v)'
    BY <1>3, <1>5, <1>12, <2>2 DEF Places, Held, Takes
  <2> QED  BY <2>1, <2>2, <2>3 DEF Places
<1>14. Down' /\ Alone'
  BY <1>1, <1>3, <1>5, <1>7, <1>12 DEF Down, Alone, Q!Reads, Reader
<1>15. Ran' /\ Ended' /\ FlushedFirst'
  BY <1>1, <1>3, <1>5, <1>12 DEF Ran, Ended, FlushedFirst, Q!Level
<1>16. Counted'
  <2>1. \A x : {v \in Workers : qpc'[v] = "ran" /\ Q!Message(v)' = x}
               = {v \in Workers : qpc[v] = "ran" /\ Q!Message(v) = x}
    BY <1>1, <1>12
  <2> QED  BY <1>1, <1>3, <2>1 DEF Counted
<1>17. Settles'
  BY <1>1, <1>3, <1>5, <1>9, Parameters DEF Settles, Q!Settled, Q!Spent, BrokerType
<1>18. Prefix'
  BY <1>3, <1>5, <1>9 DEF Prefix
<1>19. Before'
  BY <1>3, <1>4, <1>5, <1>7, <1>8, <1>12, InEmpty DEF Before, Q!Messages
<1>20. ReadTo'
  <2>1. SUFFICES ASSUME Log, NEW m \in Q!Messages, m < next' PROVE Read(m)'
    BY <1>5 DEF ReadTo
  <2>2. \A v \in Workers : qpc[v] # "stopped"
    BY <1>1, <1>3, <1>7, <2>1 DEF Alone, Q!Reads, Reader
  <2>3. failed[w] = <<>> /\ todo[w] = <<>>
    BY <1>1, <1>3 DEF Places, Held, Busy
  <2>4. CASE m < next
    <3>1. Read(m)
      BY <1>1, <1>3, <2>1, <2>2, <2>4 DEF ReadTo
    <3> QED  BY <1>12, <2>3, <3>1, InEmpty DEF Read
  <2>5. CASE ~(m < next)
    <3>1. In(batch, m)
      BY <1>4, <1>7, <1>8, <2>1, <2>5 DEF Q!Messages
    <3> QED  BY <1>12, <3>1 DEF Read
  <2> QED  BY <2>4, <2>5
<1>21. MarkTo' /\ FirstFailed'
  BY <1>1, <1>3, <1>5, <1>12, InEmpty DEF MarkTo, FirstFailed
<1>22. TookTo'
  BY <1>3, <1>5, <1>6, <1>12 DEF TookTo
<1>23. JobHeld'
  <2>1. SUFFICES ASSUME Q!Job, NEW v \in Workers, qpc'[v] # "idle"
                 PROVE  /\ at'[Q!Message(v)'] = "out"
                        /\ \A u \in Workers : qpc'[u] # "idle" /\ Q!Message(u)' = Q!Message(v)' => u = v
    BY <1>5 DEF JobHeld
  <2>2. ~Log
    BY <2>1 DEF Q!Job, Log
  <2>3. Q!Message(w)' \in Q!Messages /\ In(batch, Q!Message(w)')
    BY <1>4, <1>12, FirstAndRest DEF Q!Message
  <2>4. ASSUME NEW u \in Workers, u # w, qpc'[u] # "idle"
        PROVE  /\ Q!Message(u)' = Q!Message(u) /\ qpc[u] # "idle" /\ at[Q!Message(u)] = "out"
               /\ Q!Message(u) \in Q!Messages
    <3>1. qpc[u] # "idle"
      BY <1>12, <2>4
    <3>2. qpc[u] \in Busy
      BY <1>3, <2>1, <3>1 DEF Places, Takes, WorkersType, Steps, Q!Job, Q!Lambda, Log
    <3> QED  BY <1>3, <1>12, <2>1, <2>4, <3>1, <3>2, Current DEF JobHeld
  <2>5. at[Q!Message(w)'] = "waiting" /\ at'[Q!Message(w)'] = "out"
    BY <1>4, <1>9, <2>2, <2>3
  <2> QED  BY <1>3, <1>9, <2>1, <2>4, <2>5 DEF JobHeld
<1>24. JobTold'
  <2>1. SUFFICES ASSUME Q!Job, NEW v \in Workers, qpc'[v] = "settle"
                 PROVE  Last(events[Q!Message(v)']).result = Q!Result(Q!Message(v), outcome[v])'
    BY <1>1, <1>5 DEF JobTold
  <2>2. v # w /\ qpc[v] = "settle" /\ Q!Message(v)' = Q!Message(v) /\ ~Log
    BY <1>12, <2>1 DEF Q!Job, Log
  <2>3. Q!Message(v) \in Q!Messages /\ at[Q!Message(v)] = "out"
    BY <1>3, <2>1, <2>2, Current DEF JobHeld, Busy
  <2>4. attempts'[Q!Message(v)] = attempts[Q!Message(v)]
    BY <1>9, <2>2, <2>3
  <2>5. Q!Result(Q!Message(v), outcome[v])' = Q!Result(Q!Message(v), outcome[v])
    BY <1>1, <1>5, <2>2, <2>4 DEF Q!Result, Q!Exhausted
  <2> QED  BY <1>3, <2>1, <2>2, <2>5 DEF JobTold
<1>25. JobDropped' /\ JobEnds'
  BY <1>1, <1>3, <1>5, <1>9, <1>12 DEF JobDropped, JobEnds
<1> QED
  BY <1>10, <1>11, <1>13, <1>14, <1>15, <1>16, <1>17, <1>18, <1>19, <1>20, <1>21, <1>22, <1>23, <1>24, <1>25
     DEF ConsumersInv

(* What an event says of its run. *)
LEMMA Tells ==
    ASSUME NEW o \in Outcome, NEW m
    PROVE  /\ Q!Level(o) \in {"info", "warn", "error"}
           /\ o \in {"fail", "panic"} => Q!Level(o) = "error"
           /\ Q!Result(m, o) \in {"cancel", "snooze", "discard", "retry", "dead_letter", "none"}
           /\ Q!Job /\ o = "final" => Q!Result(m, o) = "cancel"
           /\ Q!Job /\ o = "fail" /\ Q!Exhausted(m) => Q!Result(m, o) = "discard"
           /\ Q!Job /\ o \in {"ok", "panic", "snooze"} => Q!Result(m, o) \in {"none", "snooze"}
           /\ Q!Job /\ Q!Result(m, o) = "retry" => ~Q!Exhausted(m)
           /\ Q!Job /\ Q!Result(m, o) \in {"discard", "cancel"} =>
                  o = "final" \/ (o = "fail" /\ Q!Exhausted(m))
<1>1. Q!Level(o) \in {"info", "warn", "error"} /\ (o \in {"fail", "panic"} => Q!Level(o) = "error")
  BY DEF Q!Level, Outcome
<1>2. CASE Q!Job
  <2>1. Q!Result(m, o) = CASE o = "final" -> "cancel" [] o = "snooze" -> "snooze"
                           [] o = "fail" -> IF Q!Exhausted(m) THEN "discard" ELSE "retry"
                           [] OTHER -> "none"
    BY <1>2 DEF Q!Result, Q!Job
  <2> QED  BY <1>1, <1>2, <2>1 DEF Outcome
<1>3. CASE ~Q!Job
  BY <1>1, <1>3 DEF Q!Result, Q!Job
<1> QED  BY <1>2, <1>3

LEMMA EndKeeps ==
    ASSUME ConsumersInv, NEW w \in Workers, Q!End(w)
    PROVE  ConsumersInv'
<1> DEFINE m == Q!Message(w)
           e == [level |-> Q!Level(outcome[w]), result |-> Q!Result(m, outcome[w])]
<1>1. /\ qpc[w] = "ran"
      /\ events' = [events EXCEPT ![m] = Append(@, e)] /\ unflushed' = unflushed \cup {m}
      /\ qpc' = [qpc EXCEPT ![w] = IF outcome[w] = "panic" /\ Q!P.panic = "crash"
                                   THEN IF Q!Lambda THEN "unwind" ELSE "panicked"
                                   ELSE "settle"]
      /\ UNCHANGED <<loop, at, attempts, next, mark, up, todo, outcome, took, failed, failures, faults,
                     handled, givenUp, ran>>
  BY DEF Q!End, Q!Ends, Q!broker
<1>2. /\ BrokerType /\ WorkersType /\ HistoryType /\ Places /\ Down /\ Alone
      /\ Ran /\ Ended /\ Counted /\ Settles
      /\ Prefix /\ Before /\ ReadTo /\ MarkTo /\ FirstFailed /\ TookTo
      /\ JobHeld /\ JobTold /\ JobDropped /\ JobEnds /\ FlushedFirst
  BY DEF ConsumersInv
<1>3. m \in Q!Messages
  BY <1>1, <1>2, Current DEF Busy
<1>4. (Log' <=> Log) /\ (Many' <=> Many) /\ (Q!Lambda' <=> Q!Lambda) /\ (Q!Job' <=> Q!Job)
  BY <1>1, SameKind
<1>5. outcome[w] \in Outcome
  BY <1>2 DEF WorkersType
<1>6. /\ e \in Told /\ e.level = Q!Level(outcome[w]) /\ e.result = Q!Result(m, outcome[w])
  BY <1>5, Tells DEF Told
<1>7. PICK p \in {"unwind", "panicked", "settle"} :
      /\ qpc' = [qpc EXCEPT ![w] = p]
      /\ p = "unwind" => Q!Lambda
      /\ p = "panicked" => ~Q!Lambda /\ ~Q!Job
      /\ Q!Job => p = "settle"
  <2>1. Q!P.panic = "crash" => ~Q!Job
    BY <1>2, Kinds DEF BrokerType, Q!Job
  <2>2. Q!Job => ~Q!Lambda
    BY DEF Q!Job, Q!Lambda
  <2> QED  BY <1>1, <2>1, <2>2
<1>8. /\ qpc'[w] = p /\ \A v \in Workers : v # w => qpc'[v] = qpc[v]
      /\ \A v \in Workers : Q!Message(v)' = Q!Message(v)
  BY <1>1, <1>2, <1>7 DEF WorkersType, Q!Message
<1>9. /\ events'[m] = Append(events[m], e) /\ events'[m] \in Seq(Told) /\ Len(events'[m]) = Len(events[m]) + 1
      /\ Len(events[m]) \in Nat /\ \A k \in 1..Len(events[m]) : events'[m][k] = events[m][k]
      /\ events'[m][Len(events[m]) + 1] = e
      /\ \A x \in Q!Messages : x # m => events'[x] = events[x]
      /\ events' \in [Q!Messages -> Seq(Told)]
  <2>1. events[m] \in Seq(Told)
    BY <1>2, <1>3 DEF HistoryType
  <2>2. /\ Append(events[m], e) \in Seq(Told) /\ Len(Append(events[m], e)) = Len(events[m]) + 1
        /\ Len(events[m]) \in Nat /\ \A k \in 1..Len(events[m]) : Append(events[m], e)[k] = events[m][k]
        /\ Append(events[m], e)[Len(events[m]) + 1] = e
    BY <1>6, <2>1, AppendProperties, LenProperties
  <2>3. events'[m] = Append(events[m], e) /\ \A x \in Q!Messages : x # m => events'[x] = events[x]
    BY <1>1, <1>2, <1>3 DEF HistoryType
  <2>4. events' \in [Q!Messages -> Seq(Told)]
    BY <1>1, <1>2, <2>2 DEF HistoryType
  <2> QED  BY <2>2, <2>3, <2>4
<1>10. \A x \in Q!Messages : events[x] # <<>> => events'[x] # <<>>
  BY <1>9
<1>11. BrokerType' /\ HistoryType'
  BY <1>1, <1>2, <1>3, <1>9 DEF BrokerType, HistoryType
<1>12. WorkersType'
  BY <1>1, <1>2, <1>7 DEF WorkersType, Steps, Busy
<1>13. Places'
  BY <1>1, <1>2, <1>4, <1>7, <1>8 DEF Places, Held, Takes, Busy
<1>14. Down' /\ Alone' /\ Before' /\ FirstFailed' /\ Prefix'
  BY <1>1, <1>2, <1>4, <1>7, <1>8 DEF Down, Alone, Before, FirstFailed, Prefix
<1>15. Ran'
  BY <1>1, <1>2, <1>8 DEF Ran
<1>16. Ended'
  <2>1. SUFFICES ASSUME NEW v \in Workers, qpc'[v] \in {"settle", "unwind", "panicked"}
                 PROVE  \E k \in 1..Len(events'[Q!Message(v)]) :
                            events'[Q!Message(v)][k].level = Q!Level(outcome[v])
    BY <1>1, <1>8 DEF Ended, Q!Level, Q!Job
  <2>2. CASE v = w
    <3>1. Len(events[m]) + 1 \in 1..Len(events'[m])
      BY <1>9
    <3> QED  BY <1>6, <1>9, <2>2, <3>1
  <2>3. CASE v # w
    <3>1. qpc[v] \in {"settle", "unwind", "panicked"}
      BY <1>8, <2>1, <2>3
    <3>2. PICK k \in 1..Len(events[Q!Message(v)]) : events[Q!Message(v)][k].level = Q!Level(outcome[v])
      BY <1>2, <3>1 DEF Ended
    <3>3. Q!Message(v) \in Q!Messages
      BY <1>2, <3>1, Current DEF Busy
    <3>4. CASE Q!Message(v) = m
      <4>1. k \in 1..Len(events'[m]) /\ events'[m][k] = events[m][k]
        BY <1>9, <3>2, <3>4
      <4> QED  BY <3>2, <3>4, <4>1
    <3>5. CASE Q!Message(v) # m
      BY <1>9, <3>2, <3>3, <3>5
    <3> QED  BY <3>4, <3>5
  <2> QED  BY <2>2, <2>3
<1>17. Counted'
  <2> DEFINE R(x) == {v \in Workers : qpc[v] = "ran" /\ Q!Message(v) = x}
             N(x) == {v \in Workers : qpc'[v] = "ran" /\ Q!Message(v)' = x}
  <2>1. IsFiniteSet(R(m)) /\ w \in R(m)
    BY <1>1, Parameters, FS_Subset
  <2>2. N(m) = R(m) \ {w} /\ \A x : x # m => N(x) = R(x)
    BY <1>8, <1>1
  <2>3. Cardinality(N(m)) = Cardinality(R(m)) - 1
    BY <2>1, <2>2, FS_RemoveElement
  <2>4. ASSUME NEW x \in Q!Messages PROVE ran'[x] = Len(events'[x]) + Cardinality(N(x))
    <3>1. ran[x] = Len(events[x]) + Cardinality(R(x)) /\ ran' = ran
      BY <1>1, <1>2 DEF Counted
    <3>2. Cardinality(R(m)) \in Nat
      BY <2>1, FS_CardinalityType
    <3>3. CASE x = m
      <4>1. Len(events'[m]) = Len(events[m]) + 1 /\ Len(events[m]) \in Nat
        BY <1>9
      <4>2. ran[m] = (Len(events[m]) + 1) + (Cardinality(R(m)) - 1)
        BY <3>1, <3>2, <3>3, <4>1
      <4> QED  BY <2>3, <3>1, <3>3, <4>1, <4>2
    <3>4. CASE x # m
      BY <1>9, <2>2, <3>1, <3>4
    <3> QED  BY <3>3, <3>4
  <2> QED  BY <2>4 DEF Counted
<1>18. Settles'
  BY <1>1, <1>2, <1>4, <1>10 DEF Settles, Q!Settled, Q!Spent
<1>19. ReadTo' /\ MarkTo'
  <2>1. \A x \in Q!Messages : Through(x) => Through(x)'
    BY <1>1, <1>10 DEF Through
  <2>2. ReadTo'
    <3>1. (\A v \in Workers : qpc'[v] # "stopped") => \A v \in Workers : qpc[v] # "stopped"
      BY <1>1, <1>8
    <3> QED  BY <1>1, <1>2, <1>4, <2>1, <3>1 DEF ReadTo, Read
  <2>3. MarkTo'
    BY <1>1, <1>2, <1>4, <2>1 DEF MarkTo
  <2> QED  BY <2>2, <2>3
<1>20. TookTo'
  <2>1. \A v \in Workers : \A x \in took[v] : x \in Q!Messages
    BY <1>2 DEF WorkersType
  <2> QED  BY <1>1, <1>2, <1>4, <1>10, <2>1 DEF TookTo, Through
<1>21. JobHeld' /\ JobDropped' /\ JobTold' /\ JobEnds'
  <2>1. CASE ~Q!Job
    BY <1>4, <2>1 DEF JobHeld, JobDropped, JobTold, JobEnds
  <2>2. CASE Q!Job
    <3>1. /\ at[m] = "out" /\ p = "settle"
          /\ \A v \in Workers : v # w /\ qpc[v] # "idle" => Q!Message(v) # m
      BY <1>1, <1>2, <1>7, <2>2 DEF JobHeld
    <3>2. JobHeld'
      BY <1>1, <1>2, <1>4, <1>8, <2>2 DEF JobHeld
    <3>3. JobDropped'
      BY <1>1, <1>2, <1>4, <1>9, <2>2, <3>1 DEF JobDropped
    <3>4. JobTold'
      <4>1. SUFFICES ASSUME NEW v \in Workers, qpc'[v] = "settle"
                     PROVE  Last(events'[Q!Message(v)]).result = Q!Result(Q!Message(v), outcome[v])
        BY <1>1, <1>8 DEF JobTold, Q!Result, Q!Job, Q!Exhausted
      <4>2. CASE v = w
        BY <1>6, <1>9, <4>2 DEF Last
      <4>3. CASE v # w
        <5>1. qpc[v] = "settle" /\ Q!Message(v) # m
          BY <1>8, <3>1, <4>1, <4>3
        <5>2. Q!Message(v) \in Q!Messages
          BY <1>2, <5>1, Current DEF Busy
        <5> QED  BY <1>2, <1>9, <2>2, <5>1, <5>2 DEF JobTold
      <4> QED  BY <4>2, <4>3
    <3>5. JobEnds'
      <4>1. SUFFICES ASSUME faults = 0, NEW x \in Q!Messages, NEW k \in 1..Len(events'[x]),
                            events'[x][k].result \in {"discard", "cancel"}
                     PROVE  /\ k = Len(events'[x])
                            /\ at[x] = "dropped" \/ \E v \in Workers : qpc'[v] = "settle" /\ Q!Message(v) = x
        BY <1>1, <1>8 DEF JobEnds
      <4>2. CASE x # m
        <5>1. /\ k = Len(events[x])
              /\ at[x] = "dropped" \/ \E v \in Workers : qpc[v] = "settle" /\ Q!Message(v) = x
          BY <1>2, <1>9, <2>2, <4>1, <4>2 DEF JobEnds
        <5> QED  BY <1>1, <1>8, <1>9, <4>2, <5>1
      <4>3. CASE x = m
        <5>1. k \in 1..Len(events[m]) \/ k = Len(events[m]) + 1
          BY <1>9, <4>1, <4>3
        <5>2. ASSUME k \in 1..Len(events[m]) PROVE FALSE
          <6>1. events[m][k].result \in {"discard", "cancel"}
            BY <1>9, <4>1, <4>3, <5>2
          <6>2. at[m] = "dropped" \/ \E v \in Workers : qpc[v] = "settle" /\ Q!Message(v) = m
            BY <1>2, <1>3, <2>2, <4>1, <5>2, <6>1 DEF JobEnds
          <6> QED  BY <1>1, <3>1, <6>2
        <5> QED  BY <1>8, <1>9, <3>1, <4>3, <5>1, <5>2
      <4> QED  BY <4>2, <4>3
    <3> QED  BY <3>2, <3>3, <3>4, <3>5
  <2> QED  BY <2>1, <2>2
<1>22. FlushedFirst'
  <2>1. SUFFICES ASSUME NEW v \in Workers, qpc'[v] = "answer" \/ (Q!Lambda /\ qpc'[v] = "panicked")
                 PROVE  FALSE
    BY <1>4 DEF FlushedFirst
  <2>2. v # w
    BY <1>7, <1>8, <2>1
  <2>3. qpc[v] = "answer" \/ (Q!Lambda /\ qpc[v] = "panicked")
    BY <1>8, <2>1, <2>2
  <2>4. Q!Lambda
    BY <1>2, <2>3 DEF Places, Takes
  <2> QED  BY <1>1, <1>2, <2>2, <2>3, <2>4 DEF Alone
<1> QED
  BY <1>11, <1>12, <1>13, <1>14, <1>15, <1>16, <1>17, <1>18, <1>19, <1>20, <1>21, <1>22 DEF ConsumersInv

----------------------------------------------------------------------------
(* Settling *)

(* A worker that goes on to the next message of its receive, or ends it. *)
LEMMA MovesOn ==
    ASSUME WorkersType, Places, NEW w \in Workers, qpc[w] = "settle", Q!Proceed(w), loop' = loop,
           failed' \in [Workers -> Seq(Q!Messages)],
           \A v \in Workers : v # w => failed'[v] = failed[v],
           ~Q!Lambda => failed'[w] = failed[w]
    PROVE  /\ WorkersType' /\ Places'
           /\ qpc'[w] \in {"run", "idle", "flush"} /\ (Q!Lambda => qpc'[w] # "idle")
           /\ Q!Lambda => took'[w] = took[w]
           /\ ~Many => qpc'[w] # "run"
           /\ todo'[w] = Tail(todo[w]) /\ outcome'[w] = "ok"
           /\ \A v \in Workers : v # w =>
                  /\ qpc'[v] = qpc[v] /\ todo'[v] = todo[v] /\ took'[v] = took[v] /\ outcome'[v] = outcome[v]
                  /\ Q!Message(v)' = Q!Message(v)
<1> DEFINE r == IF Len(todo[w]) > 1 THEN "run" ELSE IF Q!Lambda THEN "flush" ELSE "idle"
<1>1. /\ qpc' = [qpc EXCEPT ![w] = r] /\ todo' = [todo EXCEPT ![w] = Tail(@)]
      /\ took' = [took EXCEPT ![w] = IF r = "idle" THEN {} ELSE @]
      /\ outcome' = [outcome EXCEPT ![w] = "ok"]
  BY DEF Q!Proceed, Q!Rest
<1>2. (Log' <=> Log) /\ (Many' <=> Many) /\ (Q!Lambda' <=> Q!Lambda) /\ (Q!Job' <=> Q!Job)
  BY SameKind
<1>3. /\ todo[w] \in Seq(Q!Messages) /\ Len(todo[w]) > 0 /\ Len(todo[w]) \in Nat
      /\ Tail(todo[w]) \in Seq(Q!Messages) /\ Len(Tail(todo[w])) = Len(todo[w]) - 1
      /\ \A m : In(todo[w], m) <=> m = Q!Message(w) \/ In(Tail(todo[w]), m)
      /\ Q!Ascending(Tail(todo[w]))
  BY Current, LenProperties DEF Busy
<1>4. /\ Len(todo[w]) > 1 => Len(Tail(todo[w])) > 0
      /\ ~(Len(todo[w]) > 1) => Tail(todo[w]) = <<>>
  <2> DEFINE l == Len(todo[w])
             t == Len(Tail(todo[w]))
  <2>1. l \in Nat /\ l > 0 /\ t = l - 1
    BY <1>3
  <2>2. ASSUME ~(l > 1) PROVE t = 0
    <3> HIDE DEF l, t
    <3> QED  BY <2>1, <2>2
  <2>3. l > 1 => t > 0
    <3> HIDE DEF l, t
    <3> QED  BY <2>1
  <2>4. ASSUME ~(Len(todo[w]) > 1) PROVE Tail(todo[w]) = <<>>
    BY <1>3, <2>2, <2>4, EmptySeq
  <2> QED  BY <2>3, <2>4
<1>5. /\ qpc'[w] = r /\ todo'[w] = Tail(todo[w]) /\ outcome'[w] = "ok"
      /\ took'[w] = IF r = "idle" THEN {} ELSE took[w]
      /\ \A v \in Workers : v # w =>
             qpc'[v] = qpc[v] /\ todo'[v] = todo[v] /\ took'[v] = took[v] /\ outcome'[v] = outcome[v]
  BY <1>1 DEF WorkersType
<1>6. /\ r \in {"run", "idle", "flush"} /\ (Q!Lambda => r # "idle") /\ (r = "flush" => Q!Lambda)
      /\ (r = "run" <=> Len(todo[w]) > 1)
  OBVIOUS
<1>7. ~Many => r # "run"
  <2>1. ASSUME ~Many PROVE Len(todo[w]) <= 1
    BY <2>1 DEF Places, Held
  <2>2. ASSUME ~Many PROVE ~(Len(todo[w]) > 1)
    <3>1. Len(todo[w]) <= 1
      BY <2>1, <2>2
    <3> QED  BY <1>3, <3>1
  <2> QED  BY <1>6, <2>2
<1>8. WorkersType'
  BY <1>1, <1>3, <1>6 DEF WorkersType, Steps, Busy, Outcome
<1>9. Places'
  <2>1. Takes(w)'
    BY <1>2, <1>5, <1>6 DEF Takes
  <2>2. Held(w)'
    <3>1. qpc'[w] \in Busy => Len(todo'[w]) > 0
      BY <1>4, <1>5, <1>6 DEF Busy
    <3>2. qpc'[w] \notin Busy => todo'[w] = <<>>
      BY <1>4, <1>5, <1>6 DEF Busy
    <3>3. /\ qpc'[w] \in {"idle", "stopped"} => took'[w] = {}
          /\ qpc'[w] = "idle" \/ ~Q!Lambda => failed'[w] = <<>>
      BY <1>5, <1>6 DEF Places, Held
    <3>4. ASSUME ~Many PROVE Len(todo'[w]) <= 1
      <4>1. Len(todo[w]) <= 1
        BY <3>4 DEF Places, Held
      <4>2. Len(Tail(todo[w])) <= 1
        BY <1>3, <4>1
      <4> QED  BY <1>5, <4>2
    <3>5. \A m \in Q!Messages : In(todo'[w], m) => m \in took'[w]
      <4>1. CASE r = "idle"
        BY <1>4, <1>5, <1>6, <4>1, InEmpty
      <4>2. CASE r # "idle"
        BY <1>3, <1>5, <4>2 DEF Places, Held
      <4> QED  BY <4>1, <4>2
    <3>6. Q!Ascending(todo'[w])
      BY <1>3, <1>5
    <3> QED  BY <1>2, <3>1, <3>2, <3>3, <3>4, <3>5, <3>6 DEF Held
  <2>3. ASSUME NEW v \in Workers, v # w PROVE Held(v)' /\ Takes(v)'
    BY <1>2, <1>5, <2>3 DEF Places, Held, Takes
  <2> QED  BY <2>1, <2>2, <2>3 DEF Places
<1> QED  BY <1>5, <1>6, <1>7, <1>8, <1>9 DEF Q!Message

(* The set of workers whose run has returned, and whose event is not out yet. *)
LEMMA SameCounted ==
    ASSUME Counted, NEW w \in Workers, qpc[w] # "ran", qpc'[w] # "ran", UNCHANGED <<ran, events>>,
           \A v \in Workers : v # w => qpc'[v] = qpc[v] /\ Q!Message(v)' = Q!Message(v)
    PROVE  Counted'
<1>1. \A x : {v \in Workers : qpc'[v] = "ran" /\ Q!Message(v)' = x}
             = {v \in Workers : qpc[v] = "ran" /\ Q!Message(v) = x}
  OBVIOUS
<1> QED  BY <1>1 DEF Counted

(* An event that is out stays, whatever the other workers do. *)
LEMMA SameEnded ==
    ASSUME Ended, NEW w \in Workers, UNCHANGED <<loop, events>>,
           qpc'[w] \notin {"settle", "unwind", "panicked"},
           \A v \in Workers : v # w =>
               qpc'[v] = qpc[v] /\ outcome'[v] = outcome[v] /\ Q!Message(v)' = Q!Message(v)
    PROVE  Ended'
<1>1. (Q!Job' <=> Q!Job)
  BY SameKind
<1> SUFFICES ASSUME NEW v \in Workers, qpc'[v] \in {"settle", "unwind", "panicked"}
             PROVE  \E k \in 1..Len(events'[Q!Message(v)']) :
                        events'[Q!Message(v)'][k].level = Q!Level(outcome[v])'
  BY DEF Ended
<1>2. /\ qpc[v] = qpc'[v] /\ Q!Message(v)' = Q!Message(v) /\ outcome'[v] = outcome[v]
  OBVIOUS
<1>3. Q!Level(outcome[v])' = Q!Level(outcome[v])
  BY <1>1, <1>2 DEF Q!Level
<1> QED  BY <1>2, <1>3 DEF Ended

LEMMA SettleQueueKeeps ==
    ASSUME ConsumersInv, NEW w \in Workers, Q!SettleQueue(w)
    PROVE  ConsumersInv'
<1> DEFINE m == Q!Message(w)
           o == outcome[w]
<1>1. /\ qpc[w] = "settle" /\ ~Q!P.log /\ ~Q!Lambda /\ Q!Proceed(w)
      /\ UNCHANGED <<loop, next, mark, up, failed, failures, handled, givenUp, ran, events, unflushed>>
      /\ \/ Q!Lost
         \/ /\ at' = [at EXCEPT ![m] = IF Q!Settled(m) THEN @
                                       ELSE IF loop = "sqs" /\ ~Q!Acks(o) THEN "out"
                                       ELSE Q!Becomes(m, o)]
            /\ attempts' = [attempts EXCEPT ![m] = IF o = "snooze" THEN @ - 1 ELSE @]
            /\ UNCHANGED faults
  BY DEF Q!SettleQueue, Q!history
<1>2. /\ BrokerType /\ WorkersType /\ HistoryType /\ Places /\ Down /\ Alone
      /\ Ran /\ Ended /\ Counted /\ Settles
      /\ Prefix /\ Before /\ ReadTo /\ MarkTo /\ FirstFailed /\ TookTo
      /\ JobHeld /\ JobTold /\ JobDropped /\ JobEnds /\ FlushedFirst
  BY DEF ConsumersInv
<1>3. m \in Q!Messages
  BY <1>1, <1>2, Current DEF Busy
<1>4. (Log' <=> Log) /\ (Many' <=> Many) /\ (Q!Lambda' <=> Q!Lambda) /\ (Q!Job' <=> Q!Job)
  BY <1>1, SameKind
<1>5. ~Log
  BY <1>1, <1>2, Kinds DEF BrokerType
<1>6. /\ WorkersType' /\ Places'
      /\ qpc'[w] \in {"run", "idle"} /\ (~Many => qpc'[w] = "idle")
      /\ \A v \in Workers : v # w =>
             /\ qpc'[v] = qpc[v] /\ todo'[v] = todo[v] /\ took'[v] = took[v] /\ outcome'[v] = outcome[v]
             /\ Q!Message(v)' = Q!Message(v)
  <2>1. /\ failed' \in [Workers -> Seq(Q!Messages)]
        /\ \A v \in Workers : v # w => failed'[v] = failed[v]
        /\ failed'[w] = failed[w]
    BY <1>1, <1>2 DEF WorkersType
  <2>2. /\ WorkersType' /\ Places' /\ qpc'[w] \in {"run", "idle", "flush"}
        /\ ~Many => qpc'[w] # "run"
        /\ \A v \in Workers : v # w =>
               /\ qpc'[v] = qpc[v] /\ todo'[v] = todo[v] /\ took'[v] = took[v] /\ outcome'[v] = outcome[v]
               /\ Q!Message(v)' = Q!Message(v)
    BY <1>1, <1>2, <2>1, MovesOn
  <2>3. qpc'[w] # "flush"
    BY <1>1, <1>4, <2>2 DEF Places, Takes
  <2> QED  BY <2>2, <2>3
<1>7. o \in Outcome
  BY <1>2 DEF WorkersType
<1>8. /\ o = "ok" => m \in handled
      /\ o = "final" => m \in givenUp
      /\ events[m] # <<>>
  <2>1. \E k \in 1..Len(events[m]) : TRUE
    BY <1>1, <1>2 DEF Ended
  <2> QED  BY <1>1, <1>2, <2>1 DEF Ran
<1>9. /\ at' \in [Q!Messages -> {"waiting", "out", "done", "dropped"}]
      /\ attempts' \in [Q!Messages -> Int] /\ faults' \in Nat /\ faults' >= faults
      /\ \A x \in Q!Messages : x # m => at'[x] = at[x] /\ attempts'[x] = attempts[x]
  BY <1>1, <1>2, <1>3, Parameters DEF BrokerType, Q!Lost, Q!Becomes
<1>10. /\ at'[m] = "done" => at[m] = "done" \/ o = "ok"
       /\ at'[m] = "dropped" => at[m] = "dropped" \/ o = "final" \/ (o \in {"fail", "panic"} /\ Q!Spent(m))
       /\ o # "snooze" => attempts'[m] = attempts[m]
  BY <1>1, <1>2, <1>3 DEF BrokerType, Q!Lost, Q!Becomes, Q!Acks, Q!Spent
<1>11. BrokerType' /\ HistoryType'
  BY <1>1, <1>2, <1>9 DEF BrokerType, HistoryType
<1>12. Down' /\ Alone'
  BY <1>1, <1>2, <1>4, <1>5 DEF Down, Alone
<1>13. Ran' /\ Ended' /\ FlushedFirst'
  <2>1. Ran'
    BY <1>1, <1>2, <1>6 DEF Ran
  <2>2. Ended'
    BY <1>1, <1>2, <1>6, SameEnded
  <2>3. FlushedFirst'
    <3>1. \A v \in Workers : ~(qpc'[v] = "answer" \/ (Q!Lambda' /\ qpc'[v] = "panicked"))
      BY <1>1, <1>4, <1>6 DEF Places, Takes
    <3> QED  BY <3>1 DEF FlushedFirst
  <2> QED  BY <2>1, <2>2, <2>3
<1>14. Counted'
  BY <1>1, <1>2, <1>6, SameCounted
<1>15. Prefix' /\ Before' /\ ReadTo' /\ MarkTo' /\ TookTo'
  BY <1>1, <1>4, <1>5 DEF Prefix, Before, ReadTo, MarkTo, TookTo
<1>16. FirstFailed'
  <2>1. \A v \in Workers : failed'[v] = <<>>
    BY <1>1, <1>2 DEF Places, Held
  <2> QED  BY <2>1, InEmpty DEF FirstFailed
<1>17. Q!Job => at[m] = "out" /\ \A v \in Workers : v # w /\ qpc[v] # "idle" => Q!Message(v) # m
  BY <1>1, <1>2 DEF JobHeld
<1>18. Settles'
  <2>1. \A x \in Q!Messages : Q!Settled(x)' => events'[x] # <<>>
    BY <1>1, <1>2, <1>8, <1>9, <1>10 DEF Settles, Q!Settled
  <2>2. \A x \in Q!Messages : at'[x] = "done" => x \in handled'
    BY <1>1, <1>2, <1>8, <1>9, <1>10 DEF Settles
  <2>3. ASSUME NEW x \in Q!Messages, at'[x] = "dropped" PROVE x \in givenUp' \/ Q!Spent(x)'
    <3>1. CASE x # m
      BY <1>1, <1>2, <1>4, <1>9, <2>3, <3>1 DEF Settles, Q!Spent
    <3>2. CASE x = m
      <4>1. CASE Q!Job
        <5>1. o = "final" \/ (o \in {"fail", "panic"} /\ Q!Spent(m))
          BY <1>10, <1>17, <2>3, <3>2, <4>1
        <5> QED  BY <1>1, <1>4, <1>8, <1>10, <3>2, <5>1 DEF Q!Spent
      <4>2. CASE ~Q!Job
        BY <1>1, <1>2, <1>3, <1>8, <1>10, <2>3, <3>2, <4>2 DEF Settles, Q!Spent
      <4> QED  BY <4>1, <4>2
    <3> QED  BY <3>1, <3>2
  <2> QED  BY <2>1, <2>2, <2>3 DEF Settles
<1>19. JobHeld' /\ JobDropped' /\ JobTold' /\ JobEnds'
  <2>1. CASE ~Q!Job
    BY <1>4, <2>1 DEF JobHeld, JobDropped, JobTold, JobEnds
  <2>2. CASE Q!Job
    <3>1. /\ at[m] = "out" /\ qpc'[w] = "idle"
          /\ \A v \in Workers : v # w /\ qpc[v] # "idle" => Q!Message(v) # m
          /\ Last(events[m]).result = Q!Result(m, o)
      BY <1>1, <1>2, <1>6, <1>17, <2>2 DEF JobTold, Many, Q!Job
    <3>2. ASSUME NEW v \in Workers, qpc'[v] # "idle"
          PROVE  /\ v # w /\ qpc[v] = qpc'[v] /\ Q!Message(v)' = Q!Message(v) /\ outcome'[v] = outcome[v]
                 /\ Q!Message(v) \in Q!Messages /\ Q!Message(v) # m
      <4>1. v # w /\ qpc[v] = qpc'[v] /\ Q!Message(v) # m
        BY <1>6, <3>1, <3>2
      <4>2. qpc[v] \in Busy
        BY <1>2, <1>5, <2>2, <3>2, <4>1 DEF Places, Takes, WorkersType, Steps, Q!Job, Q!Lambda
      <4> QED  BY <1>2, <1>6, <4>1, <4>2, Current
    <3>3. JobHeld'
      <4>1. SUFFICES ASSUME NEW v \in Workers, qpc'[v] # "idle"
                     PROVE  /\ at'[Q!Message(v)'] = "out"
                            /\ \A u \in Workers : qpc'[u] # "idle" /\ Q!Message(u)' = Q!Message(v)' => u = v
        BY DEF JobHeld
      <4>2. at'[Q!Message(v)'] = "out"
        BY <1>2, <1>9, <2>2, <3>2, <4>1 DEF JobHeld
      <4>3. ASSUME NEW u \in Workers, qpc'[u] # "idle", Q!Message(u)' = Q!Message(v)' PROVE u = v
        BY <1>2, <2>2, <3>2, <4>1, <4>3 DEF JobHeld
      <4> QED  BY <4>2, <4>3
    <3>4. JobTold'
      <4>1. SUFFICES ASSUME NEW v \in Workers, qpc'[v] = "settle"
                     PROVE  Last(events[Q!Message(v)']).result = Q!Result(Q!Message(v), outcome[v])'
        BY <1>1 DEF JobTold
      <4>2. /\ qpc[v] = "settle" /\ Q!Message(v)' = Q!Message(v) /\ outcome'[v] = outcome[v]
            /\ attempts'[Q!Message(v)] = attempts[Q!Message(v)]
        BY <1>9, <3>2, <4>1
      <4>3. Q!Result(Q!Message(v), outcome[v])' = Q!Result(Q!Message(v), outcome[v])
        BY <1>1, <1>4, <4>2 DEF Q!Result, Q!Exhausted
      <4> QED  BY <1>2, <2>2, <4>2, <4>3 DEF JobTold
    <3>5. JobDropped'
      <4>1. SUFFICES ASSUME NEW x \in Q!Messages, at'[x] = "dropped"
                     PROVE  events[x][Len(events[x])].result # "retry"
        BY <1>1 DEF JobDropped
      <4>2. CASE x # m
        BY <1>2, <1>9, <2>2, <4>1, <4>2 DEF JobDropped
      <4>3. CASE x = m
        <5>1. o = "final" \/ (o \in {"fail", "panic"} /\ Q!Exhausted(m))
          BY <1>10, <3>1, <4>1, <4>3 DEF Q!Spent, Q!Exhausted
        <5>2. Q!Result(m, o) # "retry"
          BY <1>7, <2>2, <5>1, Tells
        <5> QED  BY <3>1, <4>3, <5>2 DEF Last
      <4> QED  BY <4>2, <4>3
    <3>6. JobEnds'
      <4>1. SUFFICES ASSUME faults' = 0, NEW x \in Q!Messages, NEW k \in 1..Len(events[x]),
                            events[x][k].result \in {"discard", "cancel"}
                     PROVE  /\ k = Len(events[x])
                            /\ at'[x] = "dropped" \/ \E v \in Workers : qpc'[v] = "settle" /\ Q!Message(v)' = x
        BY <1>1 DEF JobEnds
      <4>2. faults = 0
        BY <1>2, <1>9, <4>1 DEF BrokerType
      <4>3. /\ k = Len(events[x])
            /\ at[x] = "dropped" \/ \E v \in Workers : qpc[v] = "settle" /\ Q!Message(v) = x
        BY <1>2, <2>2, <4>1, <4>2 DEF JobEnds
      <4>4. CASE x # m
        <5>1. at[x] = "dropped" => at'[x] = "dropped"
          BY <1>9, <4>4
        <5>2. ASSUME NEW v \in Workers, qpc[v] = "settle", Q!Message(v) = x
              PROVE  qpc'[v] = "settle" /\ Q!Message(v)' = x
          <6>1. v # w
            BY <4>4, <5>2
          <6> QED  BY <1>6, <5>2, <6>1
        <5> QED  BY <4>3, <5>1, <5>2
      <4>5. CASE x = m
        <5>1. Q!Result(m, o) \in {"discard", "cancel"}
          BY <3>1, <4>1, <4>3, <4>5 DEF Last
        <5>2. o = "final" \/ (o = "fail" /\ Q!Exhausted(m))
          BY <1>7, <2>2, <5>1, Tells
        <5>3. ~Q!Lost
          BY <1>2, <4>1, <4>2 DEF Q!Lost
        <5>4. at' = [at EXCEPT ![m] = IF Q!Settled(m) THEN @
                                      ELSE IF loop = "sqs" /\ ~Q!Acks(o) THEN "out"
                                      ELSE Q!Becomes(m, o)]
          BY <1>1, <5>3
        <5>5. ~Q!Settled(m) /\ loop # "sqs"
          BY <2>2, <3>1 DEF Q!Settled, Q!Job
        <5>6. Q!Becomes(m, o) = "dropped"
          BY <2>2, <5>2 DEF Q!Becomes, Q!Acks, Q!Spent, Q!Exhausted
        <5>7. at'[m] = "dropped"
          BY <1>2, <1>3, <5>4, <5>5, <5>6 DEF BrokerType
        <5> QED  BY <4>3, <4>5, <5>7
      <4> QED  BY <4>4, <4>5
    <3> QED  BY <3>3, <3>4, <3>5, <3>6
  <2> QED  BY <2>1, <2>2
<1> QED
  BY <1>6, <1>11, <1>12, <1>13, <1>14, <1>15, <1>16, <1>18, <1>19 DEF ConsumersInv

(* The loop of a log or of a Lambda process has one worker. *)
LEMMA OnlyReader ==
    ASSUME WorkersType, Places, Alone, Log \/ Q!Lambda, NEW w \in Workers, qpc[w] # "idle"
    PROVE  \A v \in Workers : v # w =>
               qpc[v] = "idle" /\ todo[v] = <<>> /\ failed[v] = <<>> /\ took[v] = {}
<1> SUFFICES ASSUME NEW v \in Workers, v # w
             PROVE  qpc[v] = "idle" /\ todo[v] = <<>> /\ failed[v] = <<>> /\ took[v] = {}
  OBVIOUS
<1>1. qpc[v] = "idle"
  BY DEF Alone
<1> QED  BY <1>1 DEF Places, Held, Busy

(* What was read is through, but for what the one worker still has. *)
LEMMA ReadThrough ==
    ASSUME WorkersType, Places, Alone, Down, ReadTo, Log, NEW w \in Workers,
           qpc[w] \notin {"idle", "stopped"}
    PROVE  \A x \in Q!Messages : x < next => Through(x) \/ In(todo[w], x) \/ In(failed[w], x)
<1>1. \A v \in Workers : v # w =>
          qpc[v] = "idle" /\ todo[v] = <<>> /\ failed[v] = <<>> /\ took[v] = {}
  BY OnlyReader
<1>2. up /\ \A v \in Workers : qpc[v] # "stopped"
  BY <1>1 DEF Down
<1> QED  BY <1>1, <1>2, InEmpty DEF ReadTo, Read

(* A commit of offset n. *)
LEMMA Commits ==
    ASSUME BrokerType, Settles, Prefix, Log, NEW n \in 0..NMessages,
           at' = [m \in Q!Messages |-> IF m <= n THEN "done" ELSE at[m]],
           \A m \in Q!Messages : m <= n => Through(m),
           UNCHANGED <<loop, attempts, handled, givenUp, events>>
    PROVE  /\ at' \in [Q!Messages -> {"waiting", "out", "done", "dropped"}]
           /\ Settles' /\ Prefix'
<1>1. (Log' <=> Log) /\ (Q!Job' <=> Q!Job)
  BY SameKind
<1>2. \A m \in Q!Messages : at'[m] = IF m <= n THEN "done" ELSE at[m]
  OBVIOUS
<1>3. at' \in [Q!Messages -> {"waiting", "out", "done", "dropped"}]
  BY DEF BrokerType
<1>4. Settles'
  BY <1>1, <1>2 DEF Settles, Q!Settled, Q!Spent, Through
<1>5. Prefix'
  <2>1. PICK c \in 0..NMessages : \A m \in Q!Messages : at[m] # "dropped" /\ (at[m] = "done" <=> m <= c)
    BY DEF Prefix
  <2>2. NMessages \in Nat /\ \A m \in Q!Messages : m \in Nat
    BY Parameters DEF Q!Messages
  <2>3. PICK e \in 0..NMessages : e >= c /\ e >= n /\ (e = c \/ e = n)
    BY <2>2
  <2>4. ASSUME NEW m \in Q!Messages PROVE at'[m] # "dropped" /\ (at'[m] = "done" <=> m <= e)
    <3>1. m \in Nat /\ c \in Nat /\ n \in Nat /\ e \in Nat
      BY <2>2
    <3> QED  BY <1>2, <2>1, <2>3, <3>1
  <2> QED  BY <1>1, <2>4 DEF Prefix
<1> QED  BY <1>3, <1>4, <1>5

LEMMA SettleLogKeeps ==
    ASSUME ConsumersInv, NEW w \in Workers, Q!SettleLog(w)
    PROVE  ConsumersInv'
<1> DEFINE m == Q!Message(w)
           acks == outcome[w] = "ok"
<1>1. /\ qpc[w] = "settle" /\ Q!P.log /\ ~Q!Lambda
      /\ todo' = [todo EXCEPT ![w] = Tail(@)] /\ took' = [took EXCEPT ![w] = {}]
      /\ outcome' = [outcome EXCEPT ![w] = "ok"]
      /\ UNCHANGED <<loop, attempts, next, up, failed, failures, handled, givenUp, ran, events, unflushed>>
  BY DEF Q!SettleLog, Q!history
<1>2. \/ /\ acks /\ mark' = m /\ UNCHANGED <<at, faults>> /\ qpc' = [qpc EXCEPT ![w] = "idle"]
      \/ /\ acks /\ Q!CommitTo(m) /\ UNCHANGED <<mark, faults>> /\ qpc' = [qpc EXCEPT ![w] = "idle"]
      \/ /\ faults' = faults + 1 /\ UNCHANGED <<at, mark>> /\ qpc' = [qpc EXCEPT ![w] = "stopped"]
      \/ /\ UNCHANGED <<at, mark, faults>> /\ qpc' = [qpc EXCEPT ![w] = "stopped"]
  BY DEF Q!SettleLog, Q!Acks, Q!Stops, Q!Stop, Q!Marked
<1>3. /\ BrokerType /\ WorkersType /\ HistoryType /\ Places /\ Down /\ Alone
      /\ Ran /\ Ended /\ Counted /\ Settles
      /\ Prefix /\ Before /\ ReadTo /\ MarkTo /\ FirstFailed /\ TookTo
      /\ JobHeld /\ JobTold /\ JobDropped /\ JobEnds /\ FlushedFirst
  BY DEF ConsumersInv
<1>4. (Log' <=> Log) /\ (Many' <=> Many) /\ (Q!Lambda' <=> Q!Lambda) /\ (Q!Job' <=> Q!Job)
  BY <1>1, SameKind
<1>5. Log /\ ~Many /\ ~Q!Job
  <2>1. Q!P.log <=> Log
    BY <1>3, Kinds DEF BrokerType
  <2> QED  BY <1>1, <2>1 DEF Log, Many, Q!Job, Q!Lambda
<1>6. /\ m \in Q!Messages /\ In(todo[w], m) /\ Tail(todo[w]) = <<>>
      /\ \A x : In(todo[w], x) <=> x = m
  <2>1. /\ m \in Q!Messages /\ In(todo[w], m) /\ Len(todo[w]) > 0 /\ todo[w] \in Seq(Q!Messages)
        /\ Tail(todo[w]) \in Seq(Q!Messages) /\ Len(Tail(todo[w])) = Len(todo[w]) - 1
        /\ \A x : In(todo[w], x) <=> x = m \/ In(Tail(todo[w]), x)
    BY <1>1, <1>3, Current DEF Busy
  <2>2. Len(todo[w]) <= 1 /\ Len(todo[w]) \in Nat
    BY <1>3, <1>5, <2>1, LenProperties DEF Places, Held
  <2>3. Len(Tail(todo[w])) = 0
    <3> DEFINE l == Len(todo[w])
               t == Len(Tail(todo[w]))
    <3>1. l > 0 /\ t = l - 1 /\ l <= 1 /\ l \in Nat
      BY <2>1, <2>2
    <3>2. t = 0
      <4> HIDE DEF l, t
      <4> QED  BY <3>1
    <3> QED  BY <3>2
  <2>4. Tail(todo[w]) = <<>>
    BY <2>1, <2>3, EmptySeq
  <2> QED  BY <2>1, <2>4, InEmpty
<1>7. PICK p \in {"idle", "stopped"} : /\ qpc' = [qpc EXCEPT ![w] = p] /\ (p = "idle" => acks)
                                       /\ p = "stopped" => UNCHANGED <<at, mark>>
  BY <1>2
<1>8. /\ qpc'[w] = p /\ todo'[w] = <<>> /\ took'[w] = {} /\ outcome'[w] = "ok"
      /\ \A v \in Workers : v # w =>
             /\ qpc'[v] = qpc[v] /\ todo'[v] = todo[v] /\ took'[v] = took[v] /\ outcome'[v] = outcome[v]
             /\ Q!Message(v)' = Q!Message(v)
      /\ \A v \in Workers : failed'[v] = <<>> /\ failed[v] = <<>>
  BY <1>1, <1>3, <1>6, <1>7 DEF WorkersType, Q!Message, Places, Held
<1>9. /\ \A v \in Workers : v # w => qpc[v] = "idle" /\ todo[v] = <<>> /\ took[v] = {}
      /\ \A v \in Workers : todo'[v] = <<>>
  BY <1>1, <1>3, <1>5, <1>8, OnlyReader
<1>10. acks => \A x \in Q!Messages : x < next \/ x <= m => Through(x)
  <2>1. ASSUME acks PROVE Through(m)
    <3>1. \E k \in 1..Len(events[m]) : TRUE
      BY <1>1, <1>3 DEF Ended
    <3> QED  BY <1>1, <1>3, <2>1, <3>1 DEF Ran, Through
  <2>2. m < next /\ m \in Nat /\ next \in Nat /\ \A x \in Q!Messages : x \in Nat
    BY <1>3, <1>5, <1>6, Parameters DEF Before, BrokerType, Q!Messages
  <2>3. \A x \in Q!Messages : x < next => Through(x) \/ x = m
    BY <1>1, <1>3, <1>5, <1>6, <1>8, InEmpty, ReadThrough
  <2>4. \A x \in Q!Messages : x <= m => x < next
    BY <2>2
  <2> QED  BY <2>1, <2>3, <2>4
<1>11. /\ at' \in [Q!Messages -> {"waiting", "out", "done", "dropped"}]
       /\ Settles' /\ Prefix'
  <2>1. CASE at' = at
    BY <1>1, <1>3, <1>4, <2>1 DEF Settles, Prefix, Q!Settled, Q!Spent, BrokerType
  <2>2. CASE acks /\ Q!CommitTo(m)
    <3>1. m \in 0..NMessages
      BY <1>6, Parameters DEF Q!Messages
    <3>2. at' = [x \in Q!Messages |-> IF x <= m THEN "done" ELSE at[x]]
      BY <2>2 DEF Q!CommitTo
    <3>3. \A x \in Q!Messages : x <= m => Through(x)
      BY <1>10, <2>2
    <3> HIDE DEF m
    <3> QED  BY <1>1, <1>3, <1>5, <3>1, <3>2, <3>3, Commits
  <2> QED  BY <1>2, <2>1, <2>2
<1>12. mark' \in 0..NMessages /\ MarkTo'
  <2>1. CASE mark' = mark
    BY <1>1, <1>3, <1>4, <2>1 DEF MarkTo, BrokerType, Through
  <2>2. CASE acks /\ mark' = m
    <3>1. m \in 0..NMessages
      BY <1>6, Parameters DEF Q!Messages
    <3> QED  BY <1>1, <1>10, <2>2, <3>1 DEF MarkTo, Through
  <2> QED  BY <1>2, <2>1, <2>2
<1>13. faults' \in Nat
  BY <1>2, <1>3 DEF BrokerType
<1>14. BrokerType' /\ HistoryType'
  BY <1>1, <1>3, <1>11, <1>12, <1>13 DEF BrokerType, HistoryType
<1>15. WorkersType'
  <2>1. <<>> \in Seq(Q!Messages)
    OBVIOUS
  <2> QED  BY <1>1, <1>3, <1>6, <1>7, <2>1 DEF WorkersType, Steps, Busy, Outcome
<1>16. Places'
  <2>1. Takes(w)'
    BY <1>1, <1>4, <1>5, <1>7, <1>8 DEF Takes
  <2>3. Held(w)'
    <3>1. Len(<<>>) <= 1 /\ Q!Ascending(<<>>)
      BY DEF Q!Ascending
    <3>2. \A x \in Q!Messages : In(todo'[w], x) => x \in took'[w]
      BY <1>8, InEmpty
    <3> QED  BY <1>7, <1>8, <3>1, <3>2 DEF Held, Busy
  <2>2. ASSUME NEW v \in Workers, v # w PROVE Held(v)' /\ Takes(v)'
    BY <1>3, <1>4, <1>8, <2>2 DEF Places, Held, Takes
  <2> QED  BY <2>1, <2>2, <2>3 DEF Places
<1>17. Down' /\ Alone'
  BY <1>1, <1>3, <1>4, <1>8, <1>9 DEF Down, Alone
<1>18. Ran' /\ FlushedFirst'
  BY <1>1, <1>3, <1>7, <1>8, <1>9 DEF Ran, FlushedFirst
<1>19. Ended'
  BY <1>1, <1>3, <1>7, <1>8, SameEnded
<1>20. Counted'
  BY <1>1, <1>3, <1>7, <1>8, SameCounted
<1>21. Before' /\ FirstFailed' /\ TookTo'
  BY <1>1, <1>4, <1>8, <1>9, InEmpty DEF Before, FirstFailed, TookTo
<1>22. ReadTo'
  <2>1. SUFFICES ASSUME \A v \in Workers : qpc'[v] # "stopped", NEW x \in Q!Messages, x < next
                 PROVE  Through(x)
    BY <1>1 DEF ReadTo, Read, Through
  <2> QED  BY <1>7, <1>8, <1>10, <2>1
<1>23. JobHeld' /\ JobTold' /\ JobDropped' /\ JobEnds'
  BY <1>4, <1>5 DEF JobHeld, JobTold, JobDropped, JobEnds
<1> QED
  BY <1>11, <1>12, <1>14, <1>15, <1>16, <1>17, <1>18, <1>19, <1>20, <1>21, <1>22, <1>23 DEF ConsumersInv

LEMMA SettleRecordKeeps ==
    ASSUME ConsumersInv, NEW w \in Workers, Q!SettleRecord(w)
    PROVE  ConsumersInv'
<1> DEFINE m == Q!Message(w)
           f == IF outcome[w] = "ok" THEN failed[w] ELSE Append(failed[w], m)
<1>1. /\ qpc[w] = "settle" /\ Q!Lambda /\ Q!Proceed(w) /\ failed' = [failed EXCEPT ![w] = f]
      /\ UNCHANGED <<loop, at, attempts, next, mark, up, failures, faults, handled, givenUp, ran, events, unflushed>>
  BY DEF Q!SettleRecord, Q!history, Q!broker, Q!Acks, Q!Named
<1>2. /\ BrokerType /\ WorkersType /\ HistoryType /\ Places /\ Down /\ Alone
      /\ Ran /\ Ended /\ Counted /\ Settles
      /\ Prefix /\ Before /\ ReadTo /\ MarkTo /\ FirstFailed /\ TookTo
      /\ JobHeld /\ JobTold /\ JobDropped /\ JobEnds /\ FlushedFirst
  BY DEF ConsumersInv
<1>3. /\ m \in Q!Messages /\ In(todo[w], m)
      /\ \A x : In(todo[w], x) <=> x = m \/ In(Tail(todo[w]), x)
      /\ \A x \in Q!Messages : In(Tail(todo[w]), x) => m < x
  BY <1>1, <1>2, Current DEF Busy
<1>4. (Log' <=> Log) /\ (Many' <=> Many) /\ (Q!Lambda' <=> Q!Lambda) /\ (Q!Job' <=> Q!Job)
  BY <1>1, SameKind
<1>5. ~Q!Job
  BY <1>1 DEF Q!Job, Q!Lambda
<1>6. /\ f \in Seq(Q!Messages)
      /\ \A x : In(f, x) <=> In(failed[w], x) \/ (outcome[w] # "ok" /\ x = m)
      /\ failed[w] # <<>> => f[1] = failed[w][1]
      /\ failed[w] = <<>> /\ outcome[w] # "ok" => f[1] = m
  <2>1. failed[w] \in Seq(Q!Messages)
    BY <1>2 DEF WorkersType
  <2>2. /\ Append(failed[w], m) \in Seq(Q!Messages)
        /\ \A x : In(Append(failed[w], m), x) <=> In(failed[w], x) \/ x = m
        /\ failed[w] # <<>> => Append(failed[w], m)[1] = failed[w][1]
        /\ failed[w] = <<>> => Append(failed[w], m)[1] = m
    <3> HIDE DEF m
    <3> QED  BY <1>3, <2>1, InAppend
  <2> QED  BY <2>1, <2>2
<1> HIDE DEF f
<1>7. /\ failed'[w] = f /\ failed' \in [Workers -> Seq(Q!Messages)]
      /\ \A v \in Workers : v # w => failed'[v] = failed[v]
  BY <1>1, <1>2, <1>6 DEF WorkersType
<1>8. /\ WorkersType' /\ Places'
      /\ qpc'[w] \in {"run", "flush"} /\ took'[w] = took[w] /\ todo'[w] = Tail(todo[w])
      /\ \A v \in Workers : v # w =>
             /\ qpc'[v] = qpc[v] /\ todo'[v] = todo[v] /\ took'[v] = took[v] /\ outcome'[v] = outcome[v]
             /\ Q!Message(v)' = Q!Message(v)
  BY <1>1, <1>2, <1>7, MovesOn
<1>9. \A v \in Workers : v # w =>
          qpc[v] = "idle" /\ todo[v] = <<>> /\ failed[v] = <<>> /\ took[v] = {}
  BY <1>1, <1>2, OnlyReader
<1>10. BrokerType' /\ HistoryType'
  BY <1>1, <1>2 DEF BrokerType, HistoryType
<1>11. Down' /\ Alone'
  BY <1>1, <1>2, <1>4, <1>8 DEF Down, Alone
<1>12. Ran' /\ FlushedFirst'
  BY <1>1, <1>2, <1>8, <1>9 DEF Ran, FlushedFirst
<1>13. Ended'
  BY <1>1, <1>2, <1>8, SameEnded
<1>14. Counted'
  BY <1>1, <1>2, <1>8, SameCounted
<1>15. Settles' /\ Prefix' /\ MarkTo'
  BY <1>1, <1>2, <1>4 DEF Settles, Q!Settled, Q!Spent, Prefix, MarkTo, Through
<1>16. outcome[w] = "ok" => Through(m)
  <2>1. \E k \in 1..Len(events[m]) : TRUE
    BY <1>1, <1>2 DEF Ended
  <2> QED  BY <1>1, <1>2, <2>1 DEF Ran, Through
<1>17. Before'
  <2>1. \A v \in Workers : \A x : In(todo'[v], x) \/ In(failed'[v], x) => In(todo[v], x) \/ In(failed[v], x)
    BY <1>3, <1>6, <1>7, <1>8
  <2> QED  BY <1>1, <1>2, <1>4, <2>1 DEF Before
<1>18. \A x \in Q!Messages : In(todo[w], x) \/ In(failed[w], x) =>
           Through(x) \/ In(todo'[w], x) \/ In(failed'[w], x)
  BY <1>3, <1>6, <1>7, <1>8, <1>16
<1>19. ReadTo'
  <2>1. SUFFICES ASSUME Log, up, \A v \in Workers : qpc'[v] # "stopped", NEW x \in Q!Messages, x < next
                 PROVE  Read(x)'
    BY <1>1, <1>4 DEF ReadTo
  <2>2. Through(x) \/ In(todo[w], x) \/ In(failed[w], x)
    BY <1>1, <1>2, <2>1, ReadThrough
  <2>3. Through(x) \/ In(todo'[w], x) \/ In(failed'[w], x)
    BY <1>18, <2>2
  <2>4. Through(x)' <=> Through(x)
    BY <1>1 DEF Through
  <2> QED  BY <2>3, <2>4 DEF Read
<1>20. TookTo'
  <2>1. SUFFICES ASSUME NEW v \in Workers, NEW x \in took'[v]
                 PROVE  Through(x) \/ In(todo'[v], x) \/ In(failed'[v], x)
    BY <1>1 DEF TookTo, Through
  <2>2. v = w /\ x \in took[w] /\ x \in Q!Messages
    BY <1>2, <1>8, <1>9, <2>1 DEF WorkersType
  <2> QED  BY <1>1, <1>2, <1>18, <2>2 DEF TookTo
<1>21. FirstFailed'
  <2>1. SUFFICES ASSUME NEW v \in Workers, NEW x \in Q!Messages, In(failed'[v], x)
                 PROVE  failed'[v][1] <= x /\ \A k \in Q!Messages : In(todo'[v], k) => x < k
    BY DEF FirstFailed
  <2>2. v = w /\ In(f, x)
    BY <1>7, <1>9, <2>1, InEmpty
  <2>3. CASE In(failed[w], x)
    <3>1. failed[w] # <<>>
      BY <2>3, InEmpty
    <3> QED  BY <1>2, <1>3, <1>6, <1>7, <1>8, <2>2, <2>3, <3>1 DEF FirstFailed
  <2>4. CASE x = m /\ outcome[w] # "ok"
    <3>1. \A k \in Q!Messages : In(todo'[w], k) => x < k
      BY <1>3, <1>8, <2>4
    <3>2. CASE failed[w] = <<>>
      <4>1. f[1] = m /\ m \in Nat
        BY <1>3, <1>6, <2>4, <3>2 DEF Q!Messages
      <4> QED  BY <1>7, <2>2, <2>4, <3>1, <4>1
    <3>3. CASE failed[w] # <<>>
      <4>1. failed[w] \in Seq(Q!Messages) /\ Len(failed[w]) > 0
        BY <1>2, <3>3, EmptySeq, LenProperties DEF WorkersType
      <4>2. failed[w][1] \in Q!Messages /\ In(failed[w], failed[w][1])
        BY <4>1, FirstAndRest
      <4>3. failed[w][1] < m
        BY <1>2, <1>3, <4>2 DEF FirstFailed
      <4>4. failed[w][1] <= m
        BY <1>3, <4>2, <4>3 DEF Q!Messages
      <4> QED  BY <1>6, <1>7, <2>2, <2>4, <3>1, <3>3, <4>4
    <3> QED  BY <3>2, <3>3
  <2> QED  BY <1>6, <2>2, <2>3, <2>4
<1>22. JobHeld' /\ JobTold' /\ JobDropped' /\ JobEnds'
  BY <1>4, <1>5 DEF JobHeld, JobTold, JobDropped, JobEnds
<1> QED
  BY <1>8, <1>10, <1>11, <1>12, <1>13, <1>14, <1>15, <1>17, <1>19, <1>20, <1>21, <1>22 DEF ConsumersInv

LEMMA FlushKeeps ==
    ASSUME ConsumersInv, NEW w \in Workers, Q!Flush(w)
    PROVE  ConsumersInv'
<1>1. /\ qpc[w] \in {"flush", "unwind"}
      /\ qpc' = [qpc EXCEPT ![w] = IF @ = "flush" THEN "answer" ELSE "panicked"]
      /\ \/ unflushed' = {} /\ faults' = faults
         \/ faults' = faults + 1 /\ unflushed' = unflushed
      /\ UNCHANGED <<loop, at, attempts, next, mark, up, todo, outcome, took, failed, failures,
                     handled, givenUp, ran, events>>
  BY DEF Q!Flush, Q!Flushed, Q!broker
<1>2. /\ BrokerType /\ WorkersType /\ HistoryType /\ Places /\ Down /\ Alone
      /\ Ran /\ Ended /\ Counted /\ Settles
      /\ Prefix /\ Before /\ ReadTo /\ MarkTo /\ FirstFailed /\ TookTo
      /\ JobHeld /\ JobTold /\ JobDropped /\ JobEnds /\ FlushedFirst
  BY DEF ConsumersInv
<1>3. Q!Lambda /\ ~Q!Job
  BY <1>1, <1>2 DEF Places, Takes, Q!Job, Q!Lambda
<1>4. (Log' <=> Log) /\ (Many' <=> Many) /\ (Q!Lambda' <=> Q!Lambda) /\ (Q!Job' <=> Q!Job)
  BY <1>1, SameKind
<1>5. /\ qpc[w] = "flush" => qpc'[w] = "answer"
      /\ qpc[w] = "unwind" => qpc'[w] = "panicked"
      /\ \A v \in Workers : v # w => qpc'[v] = qpc[v]
      /\ \A v \in Workers : v # w => qpc[v] = "idle"
      /\ \A v \in Workers : Q!Message(v)' = Q!Message(v)
  BY <1>1, <1>2, <1>3, OnlyReader DEF WorkersType, Q!Message
<1>6. faults' \in Nat /\ unflushed' \subseteq Q!Messages
  BY <1>1, <1>2 DEF BrokerType, HistoryType
<1>7. BrokerType' /\ HistoryType'
  BY <1>1, <1>2, <1>6 DEF BrokerType, HistoryType
<1>8. WorkersType'
  BY <1>1, <1>2 DEF WorkersType, Steps, Busy
<1>9. Places'
  BY <1>1, <1>2, <1>3, <1>4, <1>5 DEF Places, Held, Takes, Busy
<1>10. Down' /\ Alone' /\ Before' /\ FirstFailed' /\ Prefix'
  BY <1>1, <1>2, <1>4, <1>5 DEF Down, Alone, Before, FirstFailed, Prefix
<1>11. Ran'
  BY <1>1, <1>2, <1>5 DEF Ran
<1>12. Ended'
  <2>1. SUFFICES ASSUME NEW v \in Workers, qpc'[v] \in {"settle", "unwind", "panicked"}
                 PROVE  \E k \in 1..Len(events[Q!Message(v)]) :
                            events[Q!Message(v)][k].level = Q!Level(outcome[v])
    BY <1>1, <1>5 DEF Ended, Q!Level, Q!Job
  <2>2. qpc[v] \in {"settle", "unwind", "panicked"}
    BY <1>1, <1>5, <2>1
  <2> QED  BY <1>2, <2>2 DEF Ended
<1>13. Counted'
  BY <1>1, <1>2, <1>5, SameCounted
<1>14. Settles' /\ MarkTo' /\ TookTo'
  BY <1>1, <1>2, <1>4 DEF Settles, Q!Settled, Q!Spent, MarkTo, TookTo, Through
<1>15. ReadTo'
  <2>1. \A v \in Workers : qpc[v] # "stopped"
    BY <1>1, <1>5
  <2> QED  BY <1>1, <1>2, <1>4, <2>1 DEF ReadTo, Read, Through
<1>16. FlushedFirst'
  <2>1. unflushed' = {} \/ faults' > 0
    BY <1>1, <1>2 DEF BrokerType
  <2> QED  BY <2>1 DEF FlushedFirst
<1>17. JobHeld' /\ JobTold' /\ JobDropped' /\ JobEnds'
  BY <1>3, <1>4 DEF JobHeld, JobTold, JobDropped, JobEnds
<1> QED
  BY <1>7, <1>8, <1>9, <1>10, <1>11, <1>12, <1>13, <1>14, <1>15, <1>16, <1>17 DEF ConsumersInv

LEMMA AnswerKeeps ==
    ASSUME ConsumersInv, NEW w \in Workers, Q!Answer(w)
    PROVE  ConsumersInv'
<1> DEFINE first == failed[w][1]
<1>1. /\ qpc[w] = "answer" /\ qpc' = [qpc EXCEPT ![w] = "idle"]
      /\ failed' = [failed EXCEPT ![w] = <<>>] /\ took' = [took EXCEPT ![w] = {}]
      /\ UNCHANGED <<loop, attempts, mark, up, todo, outcome, failures, faults,
                     handled, givenUp, ran, events, unflushed>>
      /\ IF Q!P.log
         THEN IF failed[w] = <<>> THEN Q!CommitTo(next - 1) /\ next' = next
              ELSE Q!CommitTo(first - 1) /\ next' = first
         ELSE /\ at' = [m \in Q!Messages |-> IF m \notin took[w] THEN at[m]
                                             ELSE IF m \in Q!ToSet(failed[w]) THEN "waiting" ELSE "done"]
              /\ next' = next
  BY DEF Q!Answer, Q!history
<1>2. /\ BrokerType /\ WorkersType /\ HistoryType /\ Places /\ Down /\ Alone
      /\ Ran /\ Ended /\ Counted /\ Settles
      /\ Prefix /\ Before /\ ReadTo /\ MarkTo /\ FirstFailed /\ TookTo
      /\ JobHeld /\ JobTold /\ JobDropped /\ JobEnds /\ FlushedFirst
  BY DEF ConsumersInv
<1>3. Q!Lambda /\ ~Q!Job /\ todo[w] = <<>> /\ failed[w] \in Seq(Q!Messages)
  BY <1>1, <1>2 DEF Places, Takes, Held, Busy, Q!Job, Q!Lambda, WorkersType
<1>4. (Log' <=> Log) /\ (Many' <=> Many) /\ (Q!Lambda' <=> Q!Lambda) /\ (Q!Job' <=> Q!Job)
  BY <1>1, SameKind
<1>5. (Q!P.log <=> Log) /\ next \in 1..(NMessages + 1) /\ NMessages \in Nat
  BY <1>2, Kinds, Parameters DEF BrokerType
<1>6. \A v \in Workers : v # w =>
          qpc[v] = "idle" /\ todo[v] = <<>> /\ failed[v] = <<>> /\ took[v] = {}
  BY <1>1, <1>2, <1>3, OnlyReader
<1>7. /\ \A v \in Workers : qpc'[v] = "idle" /\ todo'[v] = <<>> /\ failed'[v] = <<>> /\ took'[v] = {}
      /\ \A x : Through(x)' <=> Through(x)
  BY <1>1, <1>2, <1>3, <1>6 DEF WorkersType, Through
<1>8. Log => \A x \in Q!Messages : x < next => Through(x) \/ In(failed[w], x)
  BY <1>1, <1>2, <1>3, InEmpty, ReadThrough
<1>9. Log => \E n \in 0..NMessages :
          /\ at' = [m \in Q!Messages |-> IF m <= n THEN "done" ELSE at[m]]
          /\ next' \in 1..(NMessages + 1)
          /\ \A m \in Q!Messages : m <= n => Through(m)
          /\ \A m \in Q!Messages : m < next' => Through(m)
  <2>1. CASE Log /\ failed[w] = <<>>
    <3>1. next - 1 \in 0..NMessages
      BY <1>5
    <3>2. \A m \in Q!Messages : m < next => Through(m)
      BY <1>8, <2>1, InEmpty
    <3>3. \A m \in Q!Messages : m <= next - 1 => Through(m)
      BY <1>5, <3>2 DEF Q!Messages
    <3> QED  BY <1>1, <1>5, <2>1, <3>1, <3>2, <3>3 DEF Q!CommitTo
  <2>2. CASE Log /\ failed[w] # <<>>
    <3>1. Len(failed[w]) > 0
      BY <1>3, <2>2, EmptySeq, LenProperties
    <3>2. first \in Q!Messages /\ In(failed[w], first)
      BY <1>3, <3>1, FirstAndRest
    <3>3. first < next /\ \A m \in Q!Messages : In(failed[w], m) => first <= m
      BY <1>2, <2>2, <3>2 DEF Before, FirstFailed
    <3>4. \A m \in Q!Messages : m < first => Through(m)
      <4>1. ASSUME NEW m \in Q!Messages, m < first PROVE m < next /\ ~In(failed[w], m)
        <5>1. m \in Nat /\ first \in Nat /\ next \in Nat
          BY <1>5, <3>2 DEF Q!Messages
        <5>2. m < next
          <6> HIDE DEF first
          <6> QED  BY <3>3, <4>1, <5>1
        <5>3. ~(first <= m)
          <6> HIDE DEF first
          <6> QED  BY <4>1, <5>1
        <5> QED  BY <3>3, <5>2, <5>3
      <4> QED  BY <1>8, <2>2, <4>1
    <3>5. first - 1 \in 0..NMessages /\ first \in 1..(NMessages + 1)
          /\ \A m \in Q!Messages : m <= first - 1 => m < first
      <4> HIDE DEF first
      <4> QED  BY <1>5, <3>2 DEF Q!Messages
    <3>6. \A m \in Q!Messages : m <= first - 1 => Through(m)
      BY <3>4, <3>5
    <3> QED  BY <1>1, <1>5, <2>2, <3>4, <3>5, <3>6 DEF Q!CommitTo
  <2> QED  BY <2>1, <2>2
<1>10. /\ at' \in [Q!Messages -> {"waiting", "out", "done", "dropped"}]
       /\ Settles' /\ Prefix' /\ next' \in 1..(NMessages + 1)
  <2>1. CASE Log
    <3>1. PICK n \in 0..NMessages :
          /\ at' = [m \in Q!Messages |-> IF m <= n THEN "done" ELSE at[m]]
          /\ next' \in 1..(NMessages + 1)
          /\ \A m \in Q!Messages : m <= n => Through(m)
      BY <1>9, <2>1
    <3> QED  BY <1>1, <1>2, <2>1, <3>1, Commits
  <2>2. CASE ~Log
    <3>1. at' = [m \in Q!Messages |-> IF m \notin took[w] THEN at[m]
                                      ELSE IF m \in Q!ToSet(failed[w]) THEN "waiting" ELSE "done"]
      BY <1>1, <1>5, <2>2
    <3>2. \A m \in Q!Messages : m \in took[w] /\ m \notin Q!ToSet(failed[w]) => Through(m)
      <4>1. \A m : In(failed[w], m) => m \in Q!ToSet(failed[w])
        BY <1>3, InTyped
      <4> QED  BY <1>2, <1>3, <4>1, InEmpty DEF TookTo
    <3>3. at' \in [Q!Messages -> {"waiting", "out", "done", "dropped"}]
      BY <1>2, <3>1 DEF BrokerType
    <3>4. Settles'
      BY <1>1, <1>2, <1>4, <3>1, <3>2 DEF Settles, Q!Settled, Q!Spent, Through
    <3> QED  BY <1>1, <1>4, <1>5, <2>2, <3>3, <3>4 DEF Prefix
  <2> QED  BY <2>1, <2>2
<1>11. BrokerType' /\ HistoryType'
  BY <1>1, <1>2, <1>10 DEF BrokerType, HistoryType
<1>12. WorkersType'
  <2>1. <<>> \in Seq(Q!Messages)
    OBVIOUS
  <2> QED  BY <1>1, <1>2, <2>1 DEF WorkersType, Steps, Busy
<1>13. Places'
  <2>1. Len(<<>>) <= 1 /\ Q!Ascending(<<>>)
    BY DEF Q!Ascending
  <2> QED  BY <1>7, <2>1, InEmpty DEF Places, Held, Takes, Busy
<1>14. Down' /\ Alone' /\ Ran' /\ Ended' /\ FlushedFirst'
  BY <1>7 DEF Down, Alone, Ran, Ended, FlushedFirst
<1>15. Counted'
  <2>1. \A v \in Workers : v # w => qpc'[v] = qpc[v] /\ Q!Message(v)' = Q!Message(v)
    BY <1>1, <1>6, <1>7 DEF Q!Message
  <2> QED  BY <1>1, <1>2, <1>7, <2>1, SameCounted
<1>16. Before' /\ FirstFailed' /\ TookTo'
  BY <1>7, InEmpty DEF Before, FirstFailed, TookTo
<1>17. ReadTo' /\ MarkTo'
  <2>1. ReadTo'
    BY <1>4, <1>7, <1>9 DEF ReadTo, Read
  <2>2. MarkTo'
    BY <1>1, <1>2, <1>4, <1>7 DEF MarkTo
  <2> QED  BY <2>1, <2>2
<1>18. JobHeld' /\ JobTold' /\ JobDropped' /\ JobEnds'
  BY <1>3, <1>4 DEF JobHeld, JobTold, JobDropped, JobEnds
<1> QED
  BY <1>10, <1>11, <1>12, <1>13, <1>14, <1>15, <1>16, <1>17, <1>18 DEF ConsumersInv

LEMMA SessionKeeps ==
    ASSUME ConsumersInv, Q!SessionCommits
    PROVE  ConsumersInv'
<1>1. /\ loop = "sarama" /\ at' = [m \in Q!Messages |-> IF m <= mark THEN "done" ELSE at[m]]
      /\ UNCHANGED <<loop, attempts, next, mark, up, qpc, todo, outcome, took, failed, failures, faults,
                     handled, givenUp, ran, events, unflushed>>
  BY DEF Q!SessionCommits, Q!CommitTo, Q!worker, Q!history
<1>2. /\ BrokerType /\ WorkersType /\ HistoryType /\ Places /\ Down /\ Alone
      /\ Ran /\ Ended /\ Counted /\ Settles
      /\ Prefix /\ Before /\ ReadTo /\ MarkTo /\ FirstFailed /\ TookTo
      /\ JobHeld /\ JobTold /\ JobDropped /\ JobEnds /\ FlushedFirst
  BY DEF ConsumersInv
<1>3. Log /\ ~Q!Lambda /\ ~Q!Job
  BY <1>1 DEF Log, Q!Lambda, Q!Job
<1>4. (Log' <=> Log) /\ (Many' <=> Many) /\ (Q!Lambda' <=> Q!Lambda) /\ (Q!Job' <=> Q!Job)
  BY <1>1, SameKind
<1>5. /\ at' \in [Q!Messages -> {"waiting", "out", "done", "dropped"}] /\ Settles' /\ Prefix'
  <2>1. mark \in 0..NMessages /\ \A m \in Q!Messages : m <= mark => Through(m)
    BY <1>2, <1>3 DEF BrokerType, MarkTo
  <2>2. PICK n \in 0..NMessages : n = mark
    BY <2>1
  <2>3. /\ at' = [m \in Q!Messages |-> IF m <= n THEN "done" ELSE at[m]]
        /\ \A m \in Q!Messages : m <= n => Through(m)
    BY <1>1, <2>1, <2>2
  <2> QED  BY <1>1, <1>2, <1>3, <2>3, Commits
<1>6. BrokerType' /\ HistoryType'
  BY <1>1, <1>2, <1>5 DEF BrokerType, HistoryType
<1>7. WorkersType' /\ Places' /\ FirstFailed' /\ Alone'
  BY <1>1, <1>2, WorkersKept
<1>8. Down' /\ Ran' /\ Counted' /\ Before' /\ MarkTo' /\ TookTo'
  BY <1>1, <1>2, <1>4 DEF Down, Ran, Counted, Before, MarkTo, TookTo, Through, Q!Message
<1>9. Ended'
  BY <1>1, <1>2 DEF Ended, Q!Level, Q!Job, Q!Message
<1>10. ReadTo'
  BY <1>1, <1>2, <1>4 DEF ReadTo, Read, Through
<1>11. FlushedFirst'
  BY <1>1, <1>2, <1>4 DEF FlushedFirst
<1>12. JobHeld' /\ JobTold' /\ JobDropped' /\ JobEnds'
  BY <1>3, <1>4 DEF JobHeld, JobTold, JobDropped, JobEnds
<1> QED
  BY <1>5, <1>6, <1>7, <1>8, <1>9, <1>10, <1>11, <1>12 DEF ConsumersInv

----------------------------------------------------------------------------
(* Crashes, restarts, redelivery *)

LEMMA DieKeeps ==
    ASSUME ConsumersInv, Q!Crash \/ Q!Kill
    PROVE  ConsumersInv'
<1> DEFINE R(x) == {v \in Workers : qpc[v] = "ran" /\ Q!Message(v) = x}
<1>1. /\ up' = FALSE /\ qpc' = [w \in Workers |-> "idle"] /\ todo' = [w \in Workers |-> <<>>]
      /\ failed' = [w \in Workers |-> <<>>] /\ took' = [w \in Workers |-> {}]
      /\ outcome' = [w \in Workers |-> "ok"]
      /\ ran' = [m \in Q!Messages |-> ran[m] - Cardinality(R(m))]
      /\ UNCHANGED <<loop, at, attempts, next, mark, failures, handled, givenUp, events, unflushed>>
  BY SameCount DEF Q!Crash, Q!Kill, Q!Die, Q!Idle, Q!Nothing, Q!broker
<1>2. /\ BrokerType /\ WorkersType /\ HistoryType /\ Places /\ Down /\ Alone
      /\ Ran /\ Ended /\ Counted /\ Settles
      /\ Prefix /\ Before /\ ReadTo /\ MarkTo /\ FirstFailed /\ TookTo
      /\ JobHeld /\ JobTold /\ JobDropped /\ JobEnds /\ FlushedFirst
  BY DEF ConsumersInv
<1>3. (Log' <=> Log) /\ (Many' <=> Many) /\ (Q!Lambda' <=> Q!Lambda) /\ (Q!Job' <=> Q!Job)
  BY <1>1, SameKind
<1>4. faults' \in Nat /\ (Q!Job => faults' > 0)
  <2>1. CASE Q!Kill
    BY <1>2, <2>1 DEF Q!Kill, BrokerType
  <2>2. CASE Q!Crash
    <3>1. PICK w \in Workers : qpc[w] = "panicked"
      BY <2>2 DEF Q!Crash
    <3> QED  BY <1>2, <2>2, <3>1 DEF Q!Crash, Places, Takes, BrokerType
  <2> QED  BY <2>1, <2>2
<1>5. /\ \A v \in Workers : qpc'[v] = "idle" /\ todo'[v] = <<>> /\ failed'[v] = <<>> /\ took'[v] = {}
      /\ \A x : Through(x)' <=> Through(x)
  BY <1>1 DEF Through
<1>6. BrokerType'
  BY <1>1, <1>2, <1>4 DEF BrokerType
<1>7. Counted' /\ ran' \in [Q!Messages -> Int]
  <2>1. ASSUME NEW x \in Q!Messages PROVE ran'[x] = Len(events'[x]) /\ ran'[x] \in Int
    <3>1. IsFiniteSet(R(x))
      BY Parameters, FS_Subset
    <3>2. Cardinality(R(x)) \in Nat /\ Len(events[x]) \in Nat
      BY <1>2, <3>1, FS_CardinalityType DEF HistoryType
    <3>3. ran[x] = Len(events[x]) + Cardinality(R(x))
      BY <1>2 DEF Counted
    <3>4. ran'[x] = (Len(events[x]) + Cardinality(R(x))) - Cardinality(R(x))
      BY <1>1, <3>3
    <3> QED  BY <1>1, <3>2, <3>4
  <2>2. \A x \in Q!Messages : {v \in Workers : qpc'[v] = "ran" /\ Q!Message(v)' = x} = {}
    BY <1>5
  <2>3. ASSUME NEW x \in Q!Messages
        PROVE  ran'[x] = Len(events'[x])
                         + Cardinality({v \in Workers : qpc'[v] = "ran" /\ Q!Message(v)' = x})
    <3>1. Cardinality({v \in Workers : qpc'[v] = "ran" /\ Q!Message(v)' = x}) = 0
      BY <2>2, FS_EmptySet
    <3> QED  BY <2>1, <3>1
  <2>4. ran' \in [Q!Messages -> Int]
    BY <1>1, <2>1
  <2> QED  BY <2>3, <2>4 DEF Counted
<1>8. HistoryType'
  BY <1>1, <1>2, <1>7 DEF HistoryType
<1>9. WorkersType'
  <2>1. <<>> \in Seq(Q!Messages)
    OBVIOUS
  <2> QED  BY <1>1, <2>1 DEF WorkersType, Steps, Busy, Outcome
<1>10. Places'
  <2>1. Len(<<>>) <= 1 /\ Q!Ascending(<<>>)
    BY DEF Q!Ascending
  <2> QED  BY <1>5, <2>1, InEmpty DEF Places, Held, Takes, Busy
<1>11. Down' /\ Alone' /\ Ran' /\ Ended' /\ FlushedFirst' /\ JobHeld' /\ JobTold'
  BY <1>5 DEF Down, Alone, Ran, Ended, FlushedFirst, JobHeld, JobTold
<1>12. Settles' /\ Prefix' /\ MarkTo' /\ JobDropped'
  BY <1>1, <1>2, <1>3 DEF Settles, Q!Settled, Q!Spent, Prefix, MarkTo, JobDropped, Through
<1>13. Before' /\ FirstFailed' /\ TookTo' /\ ReadTo'
  BY <1>1, <1>5, InEmpty DEF Before, FirstFailed, TookTo, ReadTo
<1>14. JobEnds'
  BY <1>3, <1>4 DEF JobEnds
<1> QED
  BY <1>6, <1>7, <1>8, <1>9, <1>10, <1>11, <1>12, <1>13, <1>14 DEF ConsumersInv

LEMMA CommittedIn ==
    ASSUME Prefix, Log
    PROVE  /\ Q!Committed \in 0..NMessages
           /\ \A m \in Q!Messages : m <= Q!Committed => at[m] = "done"
<1>1. PICK c \in 0..NMessages : \A m \in Q!Messages : at[m] # "dropped" /\ (at[m] = "done" <=> m <= c)
  BY DEF Prefix
<1>2. NMessages \in Nat /\ Q!Messages = 1..NMessages
  BY Parameters DEF Q!Messages
<1>3. /\ \A m \in 1..c : Q!Settled(m)
      /\ c = NMessages \/ ~Q!Settled(c + 1)
  <2>1. \A m \in 1..c : m \in Q!Messages /\ m <= c
    BY <1>2
  <2>2. c # NMessages => c + 1 \in Q!Messages /\ ~(c + 1 <= c)
    BY <1>2
  <2> QED  BY <1>1, <2>1, <2>2 DEF Q!Settled
<1>4. /\ Q!Committed \in 0..NMessages /\ \A m \in 1..Q!Committed : Q!Settled(m)
  BY <1>3 DEF Q!Committed
<1>5. PICK e \in 0..NMessages : e = Q!Committed
  BY <1>4
<1>6. \A m \in Q!Messages : m <= e => m \in 1..e
  BY <1>2
<1>7. \A m \in Q!Messages : m <= e => at[m] = "done"
  BY <1>1, <1>4, <1>5, <1>6 DEF Q!Settled
<1> QED  BY <1>5, <1>7

LEMMA RestartKeeps ==
    ASSUME ConsumersInv, Q!Restart
    PROVE  ConsumersInv'
<1>1. /\ ~up \/ \E w \in Workers : qpc[w] = "stopped"
      /\ up' = TRUE /\ qpc' = [w \in Workers |-> IF qpc[w] = "stopped" THEN "idle" ELSE qpc[w]]
      /\ IF Q!P.log THEN next' = Q!Committed + 1 /\ mark' = 0 ELSE next' = next /\ mark' = mark
      /\ UNCHANGED <<loop, at, attempts, todo, outcome, took, failed, failures, faults,
                     handled, givenUp, ran, events, unflushed>>
  BY DEF Q!Restart, Q!history
<1>2. /\ BrokerType /\ WorkersType /\ HistoryType /\ Places /\ Down /\ Alone
      /\ Ran /\ Ended /\ Counted /\ Settles
      /\ Prefix /\ Before /\ ReadTo /\ MarkTo /\ FirstFailed /\ TookTo
      /\ JobHeld /\ JobTold /\ JobDropped /\ JobEnds /\ FlushedFirst
  BY DEF ConsumersInv
<1>3. (Log' <=> Log) /\ (Many' <=> Many) /\ (Q!Lambda' <=> Q!Lambda) /\ (Q!Job' <=> Q!Job)
  BY <1>1, SameKind
<1>4. (Q!P.log <=> Log) /\ NMessages \in Nat /\ (Log => ~Q!Job)
  BY <1>2, Kinds, Parameters DEF BrokerType, Log, Q!Job
<1>5. /\ \A v \in Workers : qpc'[v] # "idle" => qpc[v] # "idle"
      /\ \A v \in Workers : qpc'[v] \in {"settle", "ran", "unwind", "panicked", "answer"} <=>
                            qpc[v] \in {"settle", "ran", "unwind", "panicked", "answer"}
      /\ \A v \in Workers : qpc'[v] = qpc[v] \/ (qpc[v] = "stopped" /\ qpc'[v] = "idle")
      /\ \A v \in Workers : Q!Message(v)' = Q!Message(v)
      /\ \A x : Through(x)' <=> Through(x)
  BY <1>1 DEF Q!Message, Through
<1>6. Log => next' \in 1..(NMessages + 1) /\ \A m \in Q!Messages : m < next' => Through(m)
  <2>1. SUFFICES ASSUME Log PROVE next' \in 1..(NMessages + 1)
                                  /\ \A m \in Q!Messages : m < next' => Through(m)
    OBVIOUS
  <2>2. PICK e \in 0..NMessages : e = Q!Committed /\ \A m \in Q!Messages : m <= e => at[m] = "done"
    BY <1>2, <2>1, CommittedIn
  <2>3. next' = e + 1
    BY <1>1, <1>4, <2>1, <2>2
  <2>4. \A m \in Q!Messages : m < next' => m <= e
    BY <1>4, <2>3 DEF Q!Messages
  <2>5. \A m \in Q!Messages : at[m] = "done" => Through(m)
    BY <1>2 DEF Settles, Q!Settled, Through
  <2> QED  BY <1>4, <2>2, <2>3, <2>4, <2>5
<1>7. Log => \A v \in Workers : todo[v] = <<>> /\ failed[v] = <<>> /\ qpc'[v] = "idle"
  <2>1. CASE ~up
    BY <1>1, <1>2, <2>1 DEF Down, Places, Held, Busy
  <2>2. CASE \E w \in Workers : qpc[w] = "stopped"
    <3>1. PICK w \in Workers : qpc[w] = "stopped"
      BY <2>2
    <3>2. Log /\ todo[w] = <<>> /\ failed[w] = <<>> /\ qpc'[w] = "idle"
      BY <1>1, <1>2, <3>1 DEF Places, Held, Takes, Busy
    <3> QED  BY <1>1, <1>2, <3>1, <3>2, OnlyReader
  <2> QED  BY <1>1, <2>1, <2>2
<1>8. next' \in 1..(NMessages + 1) /\ mark' \in 0..NMessages
  BY <1>1, <1>2, <1>4, <1>6 DEF BrokerType
<1>9. BrokerType' /\ HistoryType'
  BY <1>1, <1>2, <1>8 DEF BrokerType, HistoryType
<1>10. WorkersType'
  BY <1>1, <1>2 DEF WorkersType, Steps, Busy
<1>11. Places'
  <2>1. ASSUME NEW v \in Workers, qpc'[v] = qpc[v] PROVE Held(v)' /\ Takes(v)'
    BY <1>1, <1>2, <1>3, <2>1 DEF Places, Held, Takes
  <2>2. ASSUME NEW v \in Workers, qpc[v] = "stopped", qpc'[v] = "idle" PROVE Held(v)' /\ Takes(v)'
    <3>1. /\ ~Q!Lambda /\ failed[v] = <<>> /\ todo[v] = <<>>
      BY <1>2, <2>2 DEF Places, Held, Takes, Busy
    <3> QED  BY <1>1, <1>2, <1>3, <2>2, <3>1 DEF Places, Held, Takes, Busy
  <2> QED  BY <1>5, <2>1, <2>2 DEF Places
<1>12. Down' /\ Alone'
  BY <1>1, <1>2, <1>3, <1>5 DEF Down, Alone
<1>13. Ran' /\ FlushedFirst'
  BY <1>1, <1>2, <1>3, <1>5 DEF Ran, FlushedFirst
<1>14. Ended'
  <2>1. \A v \in Workers : Q!Level(outcome[v])' = Q!Level(outcome[v])
    BY <1>1 DEF Q!Level, Q!Job
  <2>2. \A v \in Workers : qpc'[v] \in {"settle", "unwind", "panicked"} =>
                           qpc[v] \in {"settle", "unwind", "panicked"}
    BY <1>5
  <2> QED  BY <1>1, <1>2, <1>5, <2>1, <2>2 DEF Ended
<1>15. Counted'
  <2>1. \A x : {v \in Workers : qpc'[v] = "ran" /\ Q!Message(v)' = x}
               = {v \in Workers : qpc[v] = "ran" /\ Q!Message(v) = x}
    BY <1>5
  <2> QED  BY <1>1, <1>2, <2>1 DEF Counted
<1>16. Settles' /\ Prefix' /\ JobDropped' /\ FirstFailed' /\ TookTo'
  BY <1>1, <1>2, <1>3 DEF Settles, Q!Settled, Q!Spent, Prefix, JobDropped, FirstFailed, TookTo, Through
<1>17. MarkTo'
  <2>1. Log => \A m \in Q!Messages : ~(m <= mark')
    BY <1>1, <1>4 DEF Q!Messages
  <2> QED  BY <1>3, <2>1 DEF MarkTo
<1>18. Before' /\ ReadTo'
  BY <1>1, <1>3, <1>5, <1>6, <1>7, InEmpty DEF Before, ReadTo, Read
<1>19. JobHeld' /\ JobTold' /\ JobEnds'
  <2>1. CASE ~Q!Job
    BY <1>3, <2>1 DEF JobHeld, JobTold, JobEnds
  <2>2. CASE Q!Job
    <3>1. /\ \A v \in Workers : qpc'[v] = qpc[v]
          /\ \A v \in Workers : Q!Result(Q!Message(v), outcome[v])' = Q!Result(Q!Message(v), outcome[v])
      <4>1. \A v \in Workers : qpc'[v] = qpc[v]
        BY <1>2, <1>4, <1>5, <2>2 DEF Places, Takes
      <4>2. \A v \in Workers : Q!Result(Q!Message(v), outcome[v])' = Q!Result(Q!Message(v), outcome[v])
        BY <1>1, <1>3, <1>5 DEF Q!Result, Q!Exhausted
      <4> QED  BY <4>1, <4>2
    <3>2. JobHeld'
      BY <1>1, <1>2, <1>5, <2>2, <3>1 DEF JobHeld
    <3>3. JobTold'
      BY <1>1, <1>2, <1>5, <2>2, <3>1 DEF JobTold
    <3>4. JobEnds'
      BY <1>1, <1>2, <1>5, <2>2, <3>1 DEF JobEnds
    <3> QED  BY <3>2, <3>3, <3>4
  <2> QED  BY <2>1, <2>2
<1> QED
  BY <1>9, <1>10, <1>11, <1>12, <1>13, <1>14, <1>15, <1>16, <1>17, <1>18, <1>19 DEF ConsumersInv

LEMMA RedeliverKeeps ==
    ASSUME ConsumersInv, NEW m \in Q!Messages, Q!Redeliver(m)
    PROVE  ConsumersInv'
<1>1. /\ ~Q!P.log /\ at[m] = "out" /\ at' = [at EXCEPT ![m] = "waiting"]
      /\ faults' = faults \/ faults' = faults + 1
      /\ Q!Job => \A v \in Workers : qpc[v] # "idle" => m \notin took[v]
      /\ UNCHANGED <<loop, attempts, next, mark, up, qpc, todo, outcome, took, failed, failures,
                     handled, givenUp, ran, events, unflushed>>
  BY DEF Q!Redeliver, Q!worker, Q!history
<1>2. /\ BrokerType /\ WorkersType /\ HistoryType /\ Places /\ Down /\ Alone
      /\ Ran /\ Ended /\ Counted /\ Settles
      /\ Prefix /\ Before /\ ReadTo /\ MarkTo /\ FirstFailed /\ TookTo
      /\ JobHeld /\ JobTold /\ JobDropped /\ JobEnds /\ FlushedFirst
  BY DEF ConsumersInv
<1>3. (Log' <=> Log) /\ (Many' <=> Many) /\ (Q!Lambda' <=> Q!Lambda) /\ (Q!Job' <=> Q!Job)
  BY <1>1, SameKind
<1>4. ~Log
  BY <1>1, <1>2, Kinds DEF BrokerType
<1>5. /\ at' \in [Q!Messages -> {"waiting", "out", "done", "dropped"}] /\ faults' \in Nat
      /\ faults' = 0 => faults = 0
      /\ \A x \in Q!Messages : /\ at'[x] = "done" <=> at[x] = "done"
                               /\ at'[x] = "dropped" <=> at[x] = "dropped"
                               /\ x # m => at'[x] = at[x]
  BY <1>1, <1>2 DEF BrokerType
<1>6. BrokerType' /\ HistoryType'
  BY <1>1, <1>2, <1>5 DEF BrokerType, HistoryType
<1>7. WorkersType' /\ Places' /\ FirstFailed' /\ Alone'
  BY <1>1, <1>2, WorkersKept
<1>8. Down' /\ Ran' /\ Counted' /\ TookTo'
  BY <1>1, <1>2, <1>3 DEF Down, Ran, Counted, TookTo, Through, Q!Message
<1>9. Ended'
  BY <1>1, <1>2 DEF Ended, Q!Level, Q!Job, Q!Message
<1>10. Before' /\ MarkTo' /\ ReadTo' /\ Prefix'
  BY <1>3, <1>4 DEF Before, MarkTo, ReadTo, Prefix
<1>11. FlushedFirst'
  <2>1. faults > 0 => faults' > 0
    BY <1>1, <1>2 DEF BrokerType
  <2> QED  BY <1>1, <1>2, <1>3, <2>1 DEF FlushedFirst
<1>12. Settles'
  BY <1>1, <1>2, <1>3, <1>5 DEF Settles, Q!Settled, Q!Spent
<1>13. JobDropped' /\ JobEnds'
  BY <1>1, <1>2, <1>3, <1>5 DEF JobDropped, JobEnds, Q!Message
<1>14. JobTold'
  BY <1>1, <1>2, <1>3 DEF JobTold, Q!Message, Q!Result, Q!Exhausted
<1>15. JobHeld'
  <2>1. SUFFICES ASSUME Q!Job, NEW v \in Workers, qpc[v] # "idle"
                 PROVE  /\ at'[Q!Message(v)] = "out"
                        /\ \A u \in Workers : qpc[u] # "idle" /\ Q!Message(u) = Q!Message(v) => u = v
    BY <1>1, <1>3 DEF JobHeld, Q!Message
  <2>2. qpc[v] \in Busy
    BY <1>2, <1>4, <2>1 DEF Places, Takes, WorkersType, Steps, Q!Job, Q!Lambda
  <2>3. Q!Message(v) \in took[v] /\ Q!Message(v) \in Q!Messages
    BY <1>2, <2>2, Current DEF Places, Held
  <2>4. Q!Message(v) # m
    BY <1>1, <2>1, <2>3
  <2> QED  BY <1>2, <1>5, <2>1, <2>3, <2>4 DEF JobHeld
<1> QED
  BY <1>6, <1>7, <1>8, <1>9, <1>10, <1>11, <1>12, <1>13, <1>14, <1>15 DEF ConsumersInv

LEMMA ConsumersStutter ==
    ASSUME ConsumersInv, UNCHANGED Q!vars
    PROVE  ConsumersInv'
<1>1. UNCHANGED <<loop, at, attempts, next, mark, up, qpc, todo, outcome, took, failed, failures, faults,
                  handled, givenUp, ran, events, unflushed>>
  BY DEF Q!vars, Q!broker, Q!worker, Q!history
<1>2. /\ BrokerType /\ WorkersType /\ HistoryType /\ Places /\ Down /\ Alone
      /\ Ran /\ Ended /\ Counted /\ Settles
      /\ Prefix /\ Before /\ ReadTo /\ MarkTo /\ FirstFailed /\ TookTo
      /\ JobHeld /\ JobTold /\ JobDropped /\ JobEnds /\ FlushedFirst
  BY DEF ConsumersInv
<1>3. (Log' <=> Log) /\ (Many' <=> Many) /\ (Q!Lambda' <=> Q!Lambda) /\ (Q!Job' <=> Q!Job)
  BY <1>1, SameKind
<1>4. BrokerType' /\ HistoryType'
  BY <1>1, <1>2 DEF BrokerType, HistoryType
<1>5. WorkersType' /\ Places' /\ FirstFailed' /\ Alone'
  BY <1>1, <1>2, WorkersKept
<1>6. Down' /\ Ran' /\ Counted' /\ Before' /\ MarkTo' /\ TookTo' /\ ReadTo' /\ Prefix'
  BY <1>1, <1>2, <1>3 DEF Down, Ran, Counted, Before, MarkTo, TookTo, ReadTo, Read, Prefix, Through, Q!Message
<1>7. Ended'
  BY <1>1, <1>2 DEF Ended, Q!Level, Q!Job, Q!Message
<1>8. Settles' /\ FlushedFirst' /\ JobDropped' /\ JobEnds' /\ JobHeld'
  BY <1>1, <1>2, <1>3 DEF Settles, Q!Settled, Q!Spent, FlushedFirst, JobDropped, JobEnds, JobHeld, Q!Message
<1>9. JobTold'
  BY <1>1, <1>2, <1>3 DEF JobTold, Q!Message, Q!Result, Q!Exhausted
<1> QED  BY <1>4, <1>5, <1>6, <1>7, <1>8, <1>9 DEF ConsumersInv

LEMMA ConsumersNext ==
    ASSUME ConsumersInv, [Q!Next]_Q!vars
    PROVE  ConsumersInv'
<1>1. CASE UNCHANGED Q!vars
  BY <1>1, ConsumersStutter
<1>2. ASSUME NEW w \in Workers, Q!Work(w) PROVE ConsumersInv'
  BY <1>2, ReceiveKeeps, HandleKeeps, EndKeeps, SettleQueueKeeps, SettleLogKeeps, SettleRecordKeeps,
     FlushKeeps, AnswerKeeps DEF Q!Work
<1>3. CASE Q!SessionCommits
  BY <1>3, SessionKeeps
<1>4. CASE Q!Crash \/ Q!Kill
  BY <1>4, DieKeeps
<1>5. CASE Q!Restart
  BY <1>5, RestartKeeps
<1>6. ASSUME NEW m \in Q!Messages, Q!Redeliver(m) PROVE ConsumersInv'
  BY <1>6, RedeliverKeeps
<1> QED  BY <1>1, <1>2, <1>3, <1>4, <1>5, <1>6 DEF Q!Next

----------------------------------------------------------------------------
(* What follows for the properties. *)

LEMMA ConsumersTell ==
    ASSUME ConsumersInv
    PROVE  Q!LeavesHandled /\ Q!EventPerRun /\ Q!ResultAgrees /\ Q!FlushedBeforeAnswer
<1>1. /\ BrokerType /\ WorkersType /\ HistoryType /\ Places
      /\ Ended /\ Counted /\ Settles /\ JobHeld /\ JobTold /\ JobDropped /\ JobEnds /\ FlushedFirst
  BY DEF ConsumersInv
<1>2. Q!LeavesHandled
  BY <1>1 DEF Settles, Q!LeavesHandled, Q!Settled
<1>3. Q!EventPerRun
  <2>1. \A m \in Q!Messages : ran[m] = Len(events[m])
            + Q!Cardinality({w \in Workers : qpc[w] = "ran" /\ Q!Message(w) = m})
    BY <1>1, SameCount DEF Counted
  <2>2. \A m \in Q!Messages : Q!Settled(m) => events[m] # <<>>
    BY <1>1 DEF Settles
  <2>3. ASSUME NEW w \in Workers, qpc[w] \in {"settle", "unwind", "panicked"}, outcome[w] \in {"fail", "panic"}
        PROVE  \E k \in DOMAIN events[Q!Message(w)] : events[Q!Message(w)][k].level = "error"
    <3>1. PICK k \in 1..Len(events[Q!Message(w)]) : events[Q!Message(w)][k].level = Q!Level(outcome[w])
      BY <1>1, <2>3 DEF Ended
    <3>2. Q!Level(outcome[w]) = "error"
      BY <2>3 DEF Q!Level
    <3>3. events[Q!Message(w)] \in Seq(Told)
      BY <1>1, <2>3, Current DEF Busy, HistoryType
    <3> QED  BY <3>1, <3>2, <3>3
  <2> QED  BY <2>1, <2>2, <2>3 DEF Q!EventPerRun
<1>4. Q!ResultAgrees
  <2>1. SUFFICES ASSUME Q!Job, NEW m \in Q!Messages, NEW k \in 1..Len(events[m])
                 PROVE  /\ events[m][k].result \in {"discard", "cancel"} /\ faults = 0 =>
                               k = Len(events[m]) /\ at[m] # "waiting"
                        /\ at[m] = "dropped" /\ k = Len(events[m]) => events[m][k].result # "retry"
    BY DEF Q!ResultAgrees
  <2>2. at[m] = "dropped" /\ k = Len(events[m]) => events[m][k].result # "retry"
    BY <1>1, <2>1 DEF JobDropped
  <2>3. ASSUME events[m][k].result \in {"discard", "cancel"}, faults = 0
        PROVE  k = Len(events[m]) /\ at[m] # "waiting"
    <3>1. /\ k = Len(events[m])
          /\ at[m] = "dropped" \/ \E w \in Workers : qpc[w] = "settle" /\ Q!Message(w) = m
      BY <1>1, <2>1, <2>3 DEF JobEnds
    <3> QED  BY <1>1, <2>1, <3>1 DEF JobHeld
  <2> QED  BY <2>2, <2>3
<1>5. Q!FlushedBeforeAnswer
  BY <1>1 DEF FlushedFirst, Q!FlushedBeforeAnswer
<1> QED  BY <1>2, <1>3, <1>4, <1>5

----------------------------------------------------------------------------
(* Units: where the unit is, and what its exit code, its event and the Ticker say *)
(* of its outcome.                                                                *)

UnitPlaces == {"wait", "handler", "ending", "flush", "leave", "gone"}
UnitType ==
    /\ wrapper \in Wrappers /\ upc \in UnitPlaces
    /\ upc = "wait" => wrapper = "ticker"
    /\ uemitted \in Nat /\ queued \in BOOLEAN /\ ulate \in BOOLEAN /\ after \in BOOLEAN /\ tick \in BOOLEAN
    /\ {fired, runs, lost, told, skipped} \subseteq Nat

(* The handler that ended, and the exit code its wrapper made of that. *)
Concluded == upc \in {"ending", "flush", "leave"} =>
    /\ uoutcome \in U!Outcomes(wrapper) /\ (uoutcome = "panic" => wrapper # "connect")
    /\ wrapper \in U!Commands /\ ~after => code = U!ExitCode(wrapper, uoutcome)
Quiet == after => wrapper = "urfave" /\ upc \in {"leave", "gone"} /\ uoutcome \in {"fault", "client"}
(* The events of a unit: one from its end on, of a ticker one for each run. *)
Emissions ==
    /\ upc \in {"flush", "leave"} => uemitted > 0
    /\ upc \in {"wait", "gone"} /\ uemitted = 0 => uoutcome \in {None, "panic"}
    /\ wrapper = "ticker" => uemitted + (IF upc \in {"handler", "ending"} THEN 1 ELSE 0) = runs
    /\ wrapper # "ticker" =>
           /\ upc \in {"handler", "ending"} => uemitted = 0
           /\ upc \in {"flush", "leave"} => uemitted = 1
           /\ upc = "gone" => uemitted = IF left = "panic" /\ wrapper = "connect" THEN 0 ELSE 1
(* What the last of them says, once the unit has sent it out. *)
Judged == upc \in {"flush", "leave", "wait", "gone"} /\ uemitted > 0 =>
    /\ unamed = None /\ uoutcome \in {"fault", "client", "coder"} => uevent.level # "info"
    /\ unamed = None /\ uoutcome = "panic" => uevent.level = "error"
    /\ uoutcome = "nil" => uevent.level = IF unamed = None THEN "info" ELSE unamed
Coded ==
    /\ upc \in {"flush", "leave"} => uevent.code = code \/ after
    /\ exit # None => /\ upc = "gone" /\ uemitted > 0 /\ (uevent.code = exit \/ after)
                      /\ exit # 0 => uoutcome \in {"hook1", "fault", "client", "coder"}
Flushed == upc \in {"leave", "gone"} /\ wrapper \in U!Flushes => ~queued \/ ulate
Named == ulevel = unamed
Unasked == upc \in {"handler", "ending", "flush", "leave"} => skipped = 0

UnitInv ==
    /\ UnitType /\ Concluded /\ Emissions /\ Judged /\ Coded /\ Flushed /\ Named /\ Unasked /\ Quiet
    /\ U!TicksAccounted


LEMMA UnitStarts == U!Init => UnitInv
<1> SUFFICES ASSUME U!Init PROVE UnitInv
  OBVIOUS
<1>1. UnitType
  <2>1. /\ wrapper \in Wrappers /\ upc \in UnitPlaces /\ (upc = "wait" => wrapper = "ticker")
        /\ uemitted \in Nat /\ {fired, runs, lost, told, skipped} \subseteq Nat
    BY DEF U!Init, UnitPlaces
  <2>2. queued = FALSE /\ ulate = FALSE /\ after = FALSE /\ tick = FALSE
    BY DEF U!Init
  <2> QED  BY <2>1, <2>2 DEF UnitType
<1>2. Concluded /\ Coded /\ Named /\ Unasked
  BY DEF U!Init, Concluded, Coded, Named, Unasked
<1>3. Quiet /\ Flushed
  BY DEF U!Init, Quiet, Flushed
<1>4. Emissions /\ Judged /\ U!TicksAccounted
  BY DEF U!Init, Emissions, Judged, U!TicksAccounted
<1> QED  BY <1>1, <1>2, <1>3, <1>4 DEF UnitInv

(* The parts that a step of the ticker, or of the drains, leaves as they were. *)
LEMMA UnitIdles ==
    ASSUME UnitInv, UNCHANGED <<wrapper, upc, uoutcome, code, left, exit, after>>,
           UNCHANGED <<ulevel, unamed, uevent, uemitted>>, runs' = runs, skipped' = skipped
    PROVE  Concluded' /\ Emissions' /\ Judged' /\ Coded' /\ Named' /\ Unasked' /\ Quiet'
<1>1. Concluded /\ Emissions /\ Judged /\ Coded /\ Named /\ Unasked /\ Quiet
  BY DEF UnitInv
<1>2. Concluded' /\ Named' /\ Unasked' /\ Coded' /\ Quiet'
  BY <1>1 DEF Concluded, Quiet, Named, Unasked, Coded, U!Outcomes, U!Commands, U!Served, U!ExitCode
<1>3. Emissions' /\ Judged'
  BY <1>1 DEF Emissions, Judged
<1> QED  BY <1>2, <1>3

LEMMA FireKeeps ==
    ASSUME UnitInv, U!Fire
    PROVE  UnitInv'
<1>1. Concluded' /\ Emissions' /\ Judged' /\ Coded' /\ Named' /\ Unasked' /\ Quiet'
  BY UnitIdles DEF U!Fire, U!progress, U!record
<1>2. UnitType' /\ Flushed'
  BY DEF UnitInv, UnitType, Flushed, U!Fire, U!progress, U!record, U!delivery
<1>3. U!TicksAccounted'
  <2>1. /\ fired = runs + told + skipped + lost + (IF tick THEN 1 ELSE 0)
        /\ fired \in Nat /\ runs \in Nat /\ told \in Nat /\ skipped \in Nat /\ lost \in Nat
    BY DEF UnitInv, UnitType, U!TicksAccounted
  <2>2. /\ fired' = fired + 1 /\ tick' = TRUE /\ lost' = lost + (IF tick THEN 1 ELSE 0)
        /\ runs' = runs /\ told' = told /\ skipped' = skipped
    BY DEF U!Fire
  <2> QED  BY <2>1, <2>2 DEF U!TicksAccounted
<1> QED  BY <1>1, <1>2, <1>3 DEF UnitInv

LEMMA DeliverKeeps ==
    ASSUME UnitInv, U!Deliver
    PROVE  UnitInv'
<1>1. Concluded' /\ Emissions' /\ Judged' /\ Coded' /\ Named' /\ Unasked' /\ Quiet'
  BY UnitIdles DEF U!Deliver, U!progress, U!record, U!ticker
<1>2. UnitType' /\ Flushed' /\ U!TicksAccounted'
  BY DEF UnitInv, UnitType, Flushed, U!TicksAccounted, U!Deliver, U!progress, U!record, U!ticker
<1> QED  BY <1>1, <1>2 DEF UnitInv

LEMMA TickKeeps ==
    ASSUME UnitInv, U!Tick
    PROVE  UnitInv'
<1>1. /\ wrapper = "ticker" /\ upc = "wait" /\ upc' = "handler" /\ uemitted = runs
      /\ fired = runs + told + skipped + lost + (IF tick THEN 1 ELSE 0) /\ tick
      /\ fired \in Nat /\ runs \in Nat /\ told \in Nat /\ skipped \in Nat /\ lost \in Nat
  BY DEF UnitInv, UnitType, Emissions, U!TicksAccounted, U!Tick
<1>2. UnitType'
  <2>1. wrapper' = wrapper /\ upc' \in UnitPlaces /\ upc' # "wait" /\ uemitted' = uemitted /\ tick' = FALSE
    BY <1>1 DEF UnitPlaces, U!Tick
  <2>2. UNCHANGED <<queued, ulate, after, fired, lost>> /\ {runs', told', skipped'} \subseteq Nat
    BY <1>1 DEF U!Tick, U!delivery
  <2> QED  BY <1>1, <2>1, <2>2 DEF UnitInv, UnitType
<1>3. Concluded' /\ Judged' /\ Named' /\ Unasked'
  BY <1>1 DEF Concluded, Judged, Named, Unasked, U!Tick
<1>4. Quiet' /\ Flushed'
  BY <1>1 DEF UnitInv, Quiet, Flushed, U!Tick
<1>5. Coded'
  BY <1>1 DEF UnitInv, Coded, U!Tick
<1>6. Emissions'
  BY <1>1 DEF Emissions, U!Tick
<1>7. U!TicksAccounted'
  BY <1>1 DEF U!TicksAccounted, U!Tick
<1> QED  BY <1>2, <1>3, <1>4, <1>5, <1>6, <1>7 DEF UnitInv

LEMMA NameKeeps ==
    ASSUME UnitInv, U!Name
    PROVE  UnitInv'
<1>1. upc = "handler" /\ upc' = "handler"
  BY DEF U!Name, U!progress
<1>2. UnitType' /\ Concluded' /\ Quiet' /\ Emissions' /\ Judged' /\ Flushed' /\ Unasked' /\ U!TicksAccounted'
  BY <1>1 DEF UnitInv, UnitType, Concluded, Quiet, Emissions, Judged, Flushed, Unasked, U!TicksAccounted, U!Name,
              U!progress, U!delivery, U!ticker
<1>3. Coded' /\ Named'
  BY <1>1 DEF UnitInv, Coded, Named, U!Name, U!progress
<1> QED  BY <1>2, <1>3 DEF UnitInv

LEMMA HandlerKeeps ==
    ASSUME UnitInv, U!Handle
    PROVE  UnitInv'
<1>1. PICK o \in U!Outcomes(wrapper) :
          /\ upc = "handler" /\ uoutcome' = o
          /\ code' = IF wrapper \in U!Commands THEN U!ExitCode(wrapper, o) ELSE 0
          /\ IF o = "panic" /\ wrapper = "connect"
             THEN upc' = "gone" /\ left' = "panic"
             ELSE upc' = "ending" /\ UNCHANGED left
          /\ UNCHANGED <<wrapper, exit, after, ulevel, unamed, uevent, uemitted, queued, ulate>>
          /\ UNCHANGED <<tick, skipped, fired, runs, lost, told>>
  BY DEF U!Handle, U!Recovers, U!record, U!delivery, U!ticker
<1>2. UnitType' /\ Flushed' /\ Named' /\ Unasked' /\ U!TicksAccounted'
  BY <1>1 DEF UnitInv, UnitType, UnitPlaces, Flushed, U!Flushes, U!Commands, Named, Unasked, U!TicksAccounted
<1>3. ~after
  BY <1>1 DEF UnitInv, Quiet
<1>4. Concluded' /\ Quiet'
  BY <1>1, <1>3 DEF Concluded, Quiet, U!Outcomes, U!Commands, U!Served, U!ExitCode
<1>5. Emissions' /\ Coded'
  BY <1>1 DEF UnitInv, UnitType, Emissions, Coded
<1>6. Judged'
  BY <1>1, <1>5 DEF UnitInv, Emissions, Judged
<1> QED  BY <1>2, <1>4, <1>5, <1>6 DEF UnitInv

LEMMA EndUnitKeeps ==
    ASSUME UnitInv, U!EndUnit
    PROVE  UnitInv'
<1>1. /\ upc = "ending" /\ uevent' = [level |-> U!Final, code |-> code]
      /\ uemitted' = uemitted + 1 /\ queued' = TRUE
      /\ upc' = IF wrapper \in U!Flushes THEN "flush" ELSE "leave"
      /\ UNCHANGED <<wrapper, uoutcome, code, left, exit, after, ulevel, unamed, ulate>>
      /\ UNCHANGED <<tick, skipped, fired, runs, lost, told>>
  BY DEF U!EndUnit, U!ticker
<1>2. /\ UnitType /\ Concluded /\ Quiet /\ Emissions /\ Coded /\ Named /\ Unasked /\ U!TicksAccounted
  BY DEF UnitInv
<1>3. UnitType' /\ Named' /\ Unasked' /\ Flushed' /\ U!TicksAccounted'
  BY <1>1, <1>2 DEF UnitType, UnitPlaces, Named, Unasked, Flushed, U!TicksAccounted
<1>4. Concluded' /\ Quiet'
  BY <1>1, <1>2 DEF Concluded, Quiet, U!Outcomes, U!Commands, U!Served, U!ExitCode
<1>5. Emissions'
  BY <1>1, <1>2 DEF UnitType, Emissions
<1>6. Coded'
  BY <1>1, <1>2 DEF Coded
<1>7. Judged'
  <2>1. uevent'.level = U!Final /\ ulevel = unamed
    BY <1>1, <1>2 DEF Named
  <2>2. ASSUME unamed = None, uoutcome \in {"fault", "client", "coder"} PROVE U!Final # "info"
    BY <2>1, <2>2 DEF U!Final, U!Decided
  <2>3. ASSUME unamed = None, uoutcome = "panic" PROVE U!Final = "error"
    BY <2>1, <2>3 DEF U!Final, U!SetByCommand, U!Decided
  <2>4. ASSUME uoutcome = "nil" PROVE U!Final = IF unamed = None THEN "info" ELSE unamed
    <3>1. ~U!SetByCommand
      BY <1>1, <1>2, <2>4 DEF U!SetByCommand, Concluded, Quiet, U!ExitCode
    <3> QED  BY <2>1, <2>4, <3>1 DEF U!Final, U!Decided
  <2> QED  BY <1>1, <2>1, <2>2, <2>3, <2>4 DEF Judged
<1> QED  BY <1>3, <1>4, <1>5, <1>6, <1>7 DEF UnitInv

LEMMA FlushUnitKeeps ==
    ASSUME UnitInv, U!Flush
    PROVE  UnitInv'
<1>1. /\ upc = "flush" /\ upc' = "leave" /\ (queued => ulate' = TRUE) /\ ulate' \in {ulate, TRUE}
      /\ UNCHANGED <<wrapper, uoutcome, code, left, exit, after, ulevel, unamed, uevent, uemitted>>
      /\ UNCHANGED <<queued, tick, skipped, fired, runs, lost, told>>
  BY DEF U!Flush, U!record, U!ticker
<1>2. /\ UnitType /\ Concluded /\ Quiet /\ Emissions /\ Judged /\ Coded /\ Named /\ Unasked
      /\ U!TicksAccounted
  BY DEF UnitInv
<1>3. UnitType' /\ Quiet' /\ Named' /\ Unasked' /\ Flushed' /\ U!TicksAccounted'
  BY <1>1, <1>2 DEF UnitType, UnitPlaces, Quiet, Named, Unasked, Flushed, U!TicksAccounted
<1>4. Concluded'
  BY <1>1, <1>2 DEF Concluded, U!Outcomes, U!Commands, U!Served, U!ExitCode
<1>5. Emissions' /\ Judged' /\ Coded'
  BY <1>1, <1>2 DEF Emissions, Judged, Coded
<1> QED  BY <1>3, <1>4, <1>5 DEF UnitInv

LEMMA LeaveKeeps ==
    ASSUME UnitInv, U!Leave
    PROVE  UnitInv'
<1>1. /\ upc = "leave"
      /\ UNCHANGED <<wrapper, uoutcome, code, after, ulevel, unamed, uevent, uemitted, queued, ulate>>
      /\ UNCHANGED <<fired, runs, lost, told>>
  BY DEF U!Leave, U!record, U!delivery
<1>2. /\ UnitType /\ Concluded /\ Quiet /\ Emissions /\ Judged /\ Coded /\ Flushed /\ Named /\ Unasked
      /\ U!TicksAccounted
  BY DEF UnitInv
<1>3. CASE wrapper = "ticker" /\ uoutcome # "panic"
  <2>1. /\ skipped' = (IF tick THEN 1 ELSE 0) /\ tick' = FALSE /\ upc' = "wait" /\ UNCHANGED <<left, exit>>
    BY <1>3 DEF U!Leave, U!PendingTicks
  <2>2. UnitType'
    <3>1. skipped' \in Nat /\ upc' \in UnitPlaces
      BY <2>1 DEF UnitPlaces
    <3> QED  BY <1>1, <1>2, <1>3, <2>1, <3>1 DEF UnitType
  <2>3. Concluded' /\ Named' /\ Unasked' /\ Flushed'
    BY <1>1, <1>2, <1>3, <2>1 DEF Concluded, Named, Unasked, Flushed
  <2>4. Emissions' /\ Judged' /\ Coded' /\ Quiet'
    BY <1>1, <1>2, <1>3, <2>1 DEF UnitType, Emissions, Judged, Coded, Quiet
  <2>5. U!TicksAccounted'
    <3>1. skipped = 0
      BY <1>1, <1>2 DEF Unasked
    <3> QED  BY <1>1, <1>2, <2>1, <3>1 DEF UnitType, U!TicksAccounted
  <2> QED  BY <2>2, <2>3, <2>4, <2>5 DEF UnitInv
<1>4. CASE ~(wrapper = "ticker" /\ uoutcome # "panic")
  <2>1. /\ left' = IF uoutcome = "panic" THEN "panic" ELSE IF U!ExitsInside THEN "exit" ELSE "return"
        /\ exit' = IF wrapper \in U!Commands /\ uoutcome # "panic" THEN code ELSE None
        /\ upc' = "gone" /\ UNCHANGED <<skipped, tick>>
    BY <1>4 DEF U!Leave
  <2>2. UnitType' /\ Concluded' /\ Named' /\ Unasked' /\ Flushed' /\ Quiet' /\ U!TicksAccounted'
    BY <1>1, <1>2, <2>1 DEF UnitType, UnitPlaces, Concluded, Named, Unasked, Flushed, Quiet, U!TicksAccounted
  <2>3. Judged'
    BY <1>1, <1>2, <2>1 DEF Judged
  <2>4. Emissions'
    <3>1. wrapper = "connect" => left' # "panic"
      BY <1>1, <1>2, <2>1 DEF Concluded
    <3> QED  BY <1>1, <1>2, <2>1, <3>1 DEF UnitType, Emissions
  <2>5. Coded'
    <3>1. uemitted > 0 /\ (uevent.code = code \/ after)
      BY <1>1, <1>2 DEF Emissions, Coded
    <3>2. ASSUME wrapper \in U!Commands, uoutcome # "panic", code # 0
          PROVE  uoutcome \in {"hook1", "fault", "client", "coder"}
      BY <1>1, <1>2, <3>2 DEF Concluded, Quiet, U!Outcomes, U!ExitCode
    <3> QED  BY <1>1, <2>1, <3>1, <3>2 DEF Coded
  <2> QED  BY <2>2, <2>3, <2>4, <2>5 DEF UnitInv
<1> QED  BY <1>3, <1>4

LEMMA AfterFailsKeeps ==
    ASSUME UnitInv, U!AfterFails
    PROVE  UnitInv'
<1>1. /\ upc = "leave" /\ wrapper = "urfave" /\ uoutcome \in {"fault", "client"} /\ after' = TRUE
      /\ UNCHANGED <<wrapper, upc, uoutcome, left, exit, ulevel, unamed, uevent, uemitted, queued, ulate>>
      /\ UNCHANGED <<tick, skipped, fired, runs, lost, told>>
  BY DEF U!AfterFails, U!record, U!delivery, U!ticker
<1>2. /\ UnitType /\ Concluded /\ Emissions /\ Judged /\ Coded /\ Flushed /\ Named /\ Unasked
      /\ U!TicksAccounted
  BY DEF UnitInv
<1>3. UnitType' /\ Quiet' /\ Named' /\ Unasked' /\ Flushed' /\ U!TicksAccounted'
  BY <1>1, <1>2 DEF UnitType, Quiet, Named, Unasked, Flushed, U!TicksAccounted
<1>4. Concluded' /\ Coded'
  BY <1>1, <1>2 DEF Concluded, Coded, U!Outcomes, U!Commands, U!Served
<1>5. Emissions' /\ Judged'
  BY <1>1, <1>2 DEF Emissions, Judged
<1> QED  BY <1>3, <1>4, <1>5 DEF UnitInv

LEMMA StopKeeps ==
    ASSUME UnitInv, U!Stop
    PROVE  UnitInv'
<1>1. /\ upc = "wait" /\ upc' = "gone" /\ left' = "return"
      /\ UNCHANGED <<wrapper, uoutcome, code, exit, after, ulevel, unamed, uevent, uemitted, queued, ulate>>
      /\ UNCHANGED <<tick, skipped, fired, runs, lost, told>>
  BY DEF U!Stop, U!record, U!delivery, U!ticker
<1>2. /\ UnitType /\ Quiet /\ Emissions /\ Judged /\ Coded /\ Named /\ U!TicksAccounted
  BY DEF UnitInv
<1>3. UnitType' /\ Quiet' /\ Concluded' /\ Named' /\ Unasked' /\ U!TicksAccounted'
  BY <1>1, <1>2 DEF UnitType, UnitPlaces, Quiet, Concluded, Named, Unasked, U!TicksAccounted
<1>4. Emissions' /\ Judged' /\ Coded'
  BY <1>1, <1>2 DEF UnitType, Emissions, Judged, Coded
<1>5. Flushed'
  BY <1>1, <1>2 DEF UnitType, Flushed, U!Flushes, U!Commands
<1> QED  BY <1>3, <1>4, <1>5 DEF UnitInv

LEMMA UnitStutters ==
    ASSUME UnitInv, UNCHANGED U!vars
    PROVE  UnitInv'
<1>1. Concluded' /\ Emissions' /\ Judged' /\ Coded' /\ Named' /\ Unasked' /\ Quiet'
  BY UnitIdles DEF U!vars, U!progress, U!record, U!ticker
<1>2. UnitType' /\ Flushed' /\ U!TicksAccounted'
  BY DEF UnitInv, UnitType, Flushed, U!TicksAccounted, U!vars, U!progress, U!record, U!delivery, U!ticker
<1> QED  BY <1>1, <1>2 DEF UnitInv

LEMMA UnitNext ==
    ASSUME UnitInv, [U!Next]_U!vars
    PROVE  UnitInv'
<1> QED  BY FireKeeps, TickKeeps, NameKeeps, HandlerKeeps, EndUnitKeeps, DeliverKeeps, FlushUnitKeeps,
            LeaveKeeps, AfterFailsKeeps, StopKeeps, UnitStutters DEF U!Next

(* What the wrappers promise, from the invariant. *)
LEMMA UnitTells ==
    ASSUME UnitInv
    PROVE  U!EventPerUnit /\ U!ExitTells /\ U!TicksAccounted
<1>1. /\ UnitType /\ Emissions /\ Judged /\ Coded /\ Flushed /\ U!TicksAccounted
  BY DEF UnitInv
<1>2. U!EventPerUnit
  BY <1>1 DEF UnitType, Emissions, Flushed, U!Flushes, U!EventPerUnit
<1>3. U!ExitTells
  <2>1. exit # None => uevent.code = exit \/ after
    BY <1>1 DEF Coded
  <2>2. exit \notin {None, 0} /\ unamed = None /\ uoutcome # "hook1" => uevent.level # "info"
    BY <1>1 DEF Coded, Judged
  <2>3. upc = "gone" /\ uoutcome = "nil" => uevent.level = IF unamed = None THEN "info" ELSE unamed
    BY <1>1, UnitsAssumption DEF UnitType, Emissions, Judged, U!UnitsAssumption
  <2>4. upc = "gone" /\ uoutcome = "panic" /\ uemitted = 1 /\ unamed = None => uevent.level = "error"
    BY <1>1 DEF Judged
  <2> QED  BY <2>1, <2>2, <2>3, <2>4 DEF U!ExitTells
<1> QED  BY <1>1, <1>2, <1>3

----------------------------------------------------------------------------
(* In every behaviour of the composition, whichever scene it plays. *)

UnitsInv ==
    /\ scene = "consumers" => ConsumersInv
    /\ scene = "units" => UnitInv

LEMMA UnitsInvariant == Spec => []UnitsInv
<1>1. Init => UnitsInv
  BY ConsumersStarts, UnitStarts DEF Init, Plays, UnitsInv
<1>2. UnitsInv /\ [Next]_vars => UnitsInv'
  <2> SUFFICES ASSUME UnitsInv, [Next]_vars PROVE UnitsInv'
    OBVIOUS
  <2>1. scene' = scene
    BY DEF Next, vars
  <2>2. CASE scene = "consumers"
    <3>1. [Q!Next]_Q!vars
      BY <2>2 DEF Next, vars, consumers, Consuming, Q!vars, Q!broker, Q!worker, Q!history
    <3> QED  BY <2>1, <2>2, <3>1, ConsumersNext DEF UnitsInv
  <2>3. CASE scene = "units"
    <3>1. [U!Next]_U!vars
      BY <2>3 DEF Next, vars, unit, Consuming, U!vars, U!progress, U!record, U!delivery, U!ticker
    <3> QED  BY <2>1, <2>3, <3>1, UnitNext DEF UnitsInv
  <2>4. CASE scene \notin {"consumers", "units"}
    BY <2>1, <2>4 DEF UnitsInv
  <2> QED  BY <2>2, <2>3, <2>4
<1> QED  BY <1>1, <1>2, PTL DEF Spec

(* queue, job and faas/lambda on work.Run, for any number of workers, messages  *)
(* and faults: a message leaves the broker only after a run returned nil for it *)
(* or gave it up, every run has its one event before its message settles, the   *)
(* result of a job's event is what becomes of the job, and an invocation        *)
(* answers only after its events were flushed or the flush ran out of time.     *)
THEOREM Leaves == Spec => []LeavesHandled
<1>1. UnitsInv => LeavesHandled
  BY ConsumersTell DEF UnitsInv, LeavesHandled
<1> QED  BY <1>1, UnitsInvariant, PTL

(* work.Run, the command and RPC adapters and work.Ticker, whatever the handler  *)
(* does: the unit has its one event, out and flushed before control leaves;      *)
(* its level and the exit code agree with the outcome; and each firing is a run, *)
(* a skip that an event tells, or met a full channel.                            *)
THEOREM UnitsTold == Spec => []UnitsTell
<1>1. UnitsInv => UnitsTell
  BY UnitTells DEF UnitsInv, UnitsTell
<1> QED  BY <1>1, UnitsInvariant, PTL
=============================================================================
