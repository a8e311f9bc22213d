----------------------------- MODULE WriterProofs -----------------------------
(***************************************************************************)
(* What holds of Writer for every queue size, every number of lines and    *)
(* any set of goroutines.                                                  *)
(***************************************************************************)
EXTENDS Writer, FiniteSetTheorems, TLAPS

(* A queue: a sequence without repetition. *)
NoRepeats(q) == \A i, j \in 1..Len(q) : q[i] = q[j] => i = j

(* Queueing a new event adds exactly that event. *)
LEMMA AppendElems ==
    ASSUME NEW S, NEW q \in Seq(S), NEW e \in S, NoRepeats(q), e \notin Elems(q)
    PROVE  /\ Append(q, e) \in Seq(S) /\ Len(Append(q, e)) = Len(q) + 1
           /\ Elems(Append(q, e)) = Elems(q) \cup {e}
           /\ NoRepeats(Append(q, e))
<1>1. /\ Append(q, e) \in Seq(S) /\ Len(Append(q, e)) = Len(q) + 1 /\ Len(q) \in Nat
      /\ \A i \in 1..Len(q) : Append(q, e)[i] = q[i]
      /\ Append(q, e)[Len(q) + 1] = e
  OBVIOUS
<1>2. NoRepeats(Append(q, e))
  BY <1>1 DEF NoRepeats, Elems
<1>3. \A i \in 1..Len(q) + 1 : i \in 1..Len(q) \/ i = Len(q) + 1
  BY <1>1
<1>4. Elems(Append(q, e)) = Elems(q) \cup {e}
  BY <1>1, <1>3 DEF Elems
<1> QED  BY <1>1, <1>2, <1>4

(* Each line is begun once and queued once, by the goroutine that has it. *)
BegunOnce ==
    /\ NoRepeats(queued)
    /\ fresh \cap Elems(queued) = {}
    /\ \A e \in Emitters : line[e] \cap (fresh \cup Elems(queued)) = {}
    /\ \A e, f \in Emitters : e # f => line[e] \cap line[f] = {}

(* Where a line is in a list of lines. *)
At(q, l) == CHOOSE i \in 1..Len(q) : q[i] = l

(* Where the queued lines are. *)
QueuedLines == Elems(queue) \cap Lines
Placed ==
    /\ Elems(queued) = QueuedLines \cup writing \cup Over
    /\ evicted \cap (writing \cup Elems(written)) = {}
    /\ worker # "write" => writing = {}
    /\ \A l, m \in writing : l = m

(* The order in which lines were queued, everywhere: what is strictly ordered does *)
(* not repeat, so most of LinesAccounted follows from it.                          *)
Precede(A, B) == \A l \in A : \A m \in B : At(queued, l) < At(queued, m)
Ordered ==
    /\ \A i, j \in 1..Len(queue) : i < j /\ queue[i] \in Lines /\ queue[j] \in Lines
                                       => At(queued, queue[i]) < At(queued, queue[j])
    /\ \A i, j \in 1..Len(written) : i < j => At(queued, written[i]) < At(queued, written[j])
    /\ Precede(Over \cup writing, QueuedLines)
    /\ Precede(Elems(written), writing)

Counted == IsFiniteSet(evicted) /\ Cardinality(evicted) <= dropped

(* A waiter has one marker at most, and none once it was read; what was ahead of it *)
(* then is ahead of it still, or the writer is done with it.                        *)
MarkerOf(item, t) == item \in Markers /\ item[2] = t
Waiting == {"await", "stopping"}
OneMarker(t) == \A i, j \in 1..Len(queue) : MarkerOf(queue[i], t) /\ MarkerOf(queue[j], t) => i = j
Awaited(t)   == \A i \in 1..Len(queue) : MarkerOf(queue[i], t) => pc[t] \in Waiting /\ t \notin done
Preceded(t)  == \A i \in 1..Len(queue) : MarkerOf(queue[i], t) =>
                    \A l \in ahead[t] : \/ l \in Over \cup writing
                                        \/ \E j \in 1..Len(queue) : j < i /\ queue[j] = l
Settled(t)   == t \in done => pc[t] \in Waiting /\ ahead[t] \subseteq Over
Waited == \A t \in Waiters : OneMarker(t) /\ Awaited(t) /\ Preceded(t) /\ Settled(t)

WriterInv == TypeOK /\ BegunOnce /\ Placed /\ Ordered /\ Counted /\ Waited

----------------------------------------------------------------------------
LEMMA Names ==
    /\ Size \in Nat \ {0} /\ Waiters \subseteq Threads /\ Emitters \subseteq Threads
    /\ Emitters \cap Waiters = {} /\ Nobody \notin Threads /\ Closers \subseteq Waiters
    /\ Flushers \subseteq Waiters /\ Lines \cap Markers = {}
    /\ \A t \in Waiters : /\ Marker("flush", t) \in Markers /\ Marker("stop", t) \in Markers
                          /\ Marker("flush", t)[2] = t /\ Marker("stop", t)[2] = t
<1>1. \A t \in Waiters : /\ Marker("flush", t) \in Markers /\ Marker("stop", t) \in Markers
                         /\ Marker("flush", t)[2] = t /\ Marker("stop", t)[2] = t
  BY DEF Marker, Markers
<1>2. Lines \cap Markers = {}
  <2> SUFFICES ASSUME NEW x \in Lines, x \in Markers PROVE FALSE
    OBVIOUS
  <2>1. x[1] = "line"
    BY DEF Lines
  <2>2. x[1] \in {"flush", "stop"}
    BY DEF Markers
  <2> QED  BY <2>1, <2>2
<1> QED  BY <1>1, <1>2, WriterAssumption DEF Threads, Waiters

(* Positions in a sequence that names each element once. *)
LEMMA PositionIs ==
    ASSUME TypeOK, BegunOnce, NEW l \in Elems(queued)
    PROVE  At(queued, l) \in 1..Len(queued) /\ queued[At(queued, l)] = l /\ At(queued, l) \in Nat
<1>1. \E i \in 1..Len(queued) : queued[i] = l
  BY DEF Elems
<1>2. At(queued, l) \in 1..Len(queued) /\ queued[At(queued, l)] = l
  BY <1>1 DEF At
<1> QED  BY <1>2

(* A line begins to be queued. *)
LEMMA QueueingIs ==
    ASSUME WriterInv, NEW e \in Emitters, WriteQueue(e)
    PROVE  \E l \in line[e] \cap Lines :
              /\ queue' = Append(queue, l) /\ queued' = Append(queued, l)
              /\ queued' \in Seq(Lines) /\ Len(queued') = Len(queued) + 1
              /\ Elems(queued') = Elems(queued) \cup {l} /\ l \notin Elems(queued)
              /\ NoRepeats(queued')
              /\ \A x \in Elems(queued) : At(queued', x) = At(queued, x) /\ At(queued, x) < At(queued', l)
<1> USE Names
<1>1. PICK l \in line[e] : queue' = Append(queue, l) /\ queued' = Append(queued, l)
  BY DEF WriteQueue
<1>2. l \in Lines /\ l \notin Elems(queued) /\ queued \in Seq(Lines) /\ NoRepeats(queued) /\ Len(queued) \in Nat
  BY <1>1 DEF WriterInv, TypeOK, BegunOnce
<1>3. /\ queued' \in Seq(Lines) /\ Len(queued') = Len(queued) + 1
      /\ Elems(queued') = Elems(queued) \cup {l} /\ NoRepeats(queued')
  BY <1>1, <1>2, AppendElems DEF Elems
<1>4. /\ \A i \in 1..Len(queued) : queued'[i] = queued[i]
      /\ queued'[Len(queued) + 1] = l
  BY <1>1, <1>2
<1>5. ASSUME NEW x \in Elems(queued) PROVE At(queued', x) = At(queued, x) /\ At(queued, x) \in 1..Len(queued)
  <2>1. At(queued, x) \in 1..Len(queued) /\ queued[At(queued, x)] = x
    BY PositionIs DEF WriterInv
  <2>2. At(queued, x) \in 1..Len(queued') /\ queued'[At(queued, x)] = x
    BY <1>2, <1>3, <1>4, <2>1
  <2>3. \A i \in 1..Len(queued') : queued'[i] = x => i = At(queued, x)
    BY <1>3, <2>2 DEF NoRepeats
  <2>4. At(queued', x) \in 1..Len(queued') /\ queued'[At(queued', x)] = x
    BY <2>2 DEF At
  <2> QED  BY <2>1, <2>3, <2>4
<1>6. At(queued', l) = Len(queued) + 1
  <2>1. Len(queued) + 1 \in 1..Len(queued') /\ queued'[Len(queued) + 1] = l
    BY <1>2, <1>3, <1>4
  <2>2. \A i \in 1..Len(queued') : queued'[i] = l => i = Len(queued) + 1
    BY <1>3, <2>1 DEF NoRepeats
  <2>3. At(queued', l) \in 1..Len(queued') /\ queued'[At(queued', l)] = l
    BY <2>1 DEF At
  <2> QED  BY <2>2, <2>3
<1>7. \A x \in Elems(queued) : At(queued, x) < At(queued', l)
  BY <1>2, <1>5, <1>6
<1> QED  BY <1>1, <1>2, <1>3, <1>5, <1>7 DEF Elems

(* What the four ways to change the queue do to it. *)
Items == Lines \cup Markers

LEMMA PushIs ==
    ASSUME TypeOK, Room, NEW x \in Items, queue' = Append(queue, x)
    PROVE  /\ queue' \in Seq(Items) /\ Len(queue') = Len(queue) + 1 /\ Len(queue') <= Size
           /\ Len(queue) \in Nat /\ queue'[Len(queue) + 1] = x
           /\ \A i \in 1..Len(queue) : queue'[i] = queue[i]
           /\ Elems(queue') = Elems(queue) \cup {x}
<1> USE Names DEF Items
<1>1. queue \in Seq(Items) /\ Len(queue) \in Nat /\ Len(queue) < Size
  BY DEF TypeOK, Room
<1>2. /\ queue' \in Seq(Items) /\ Len(queue') = Len(queue) + 1
      /\ queue'[Len(queue) + 1] = x /\ \A i \in 1..Len(queue) : queue'[i] = queue[i]
  BY <1>1
<1>3. \A y : y \in Elems(queue') <=> y \in Elems(queue) \cup {x}
  <2> SUFFICES ASSUME NEW y PROVE y \in Elems(queue') <=> y \in Elems(queue) \cup {x}
    OBVIOUS
  <2>1. ASSUME NEW i \in 1..Len(queue') PROVE i \in 1..Len(queue) \/ i = Len(queue) + 1
    BY <1>1, <1>2
  <2>2. \A i \in 1..Len(queue) : i \in 1..Len(queue')
    BY <1>1, <1>2
  <2>3. Len(queue) + 1 \in 1..Len(queue')
    BY <1>1, <1>2
  <2> QED  BY <1>2, <2>1, <2>2, <2>3 DEF Elems
<1> QED  BY <1>1, <1>2, <1>3

(* The head is taken, by the writer or by an emitter that needs room. *)
Popped ==
    /\ queue # <<>> /\ queue' \in Seq(Items) /\ Len(queue) \in Nat \ {0} /\ Len(queue') = Len(queue) - 1
    /\ \A i \in 1..Len(queue') : queue'[i] = queue[i + 1] /\ i + 1 \in 1..Len(queue)
    /\ Elems(queue) = {queue[1]} \cup Elems(queue') /\ queue[1] \in Items /\ 1 \in 1..Len(queue)
    /\ Len(queue') <= Size

LEMMA PopIs ==
    ASSUME TypeOK, queue # <<>>, queue' = Tail(queue) \/ queue' = Without(Oldest)
    PROVE  Popped
<1> USE Names DEF Items
<1>1. queue \in Seq(Items) /\ Len(queue) \in Nat \ {0} /\ Len(queue) <= Size
  BY DEF TypeOK
<1>2. 1 \in 1..Len(queue) /\ queue[1] \in Items
  BY <1>1
<1>3. /\ queue' \in Seq(Items) /\ Len(queue') = Len(queue) - 1
      /\ \A i \in 1..Len(queue') : queue'[i] = queue[i + 1] /\ i + 1 \in 1..Len(queue)
  <2>1. CASE queue' = Tail(queue)
    BY <1>1, <2>1
  <2>2. CASE queue' = Without(Oldest)
    <3>1. queue' = [j \in 1..Len(queue) - 1 |-> queue[IF j < 1 THEN j ELSE j + 1]]
      BY <2>2 DEF Without, Oldest
    <3>2. \A j \in 1..Len(queue) - 1 : (IF j < 1 THEN j ELSE j + 1) = j + 1 /\ j + 1 \in 1..Len(queue)
      BY <1>1
    <3>3. queue' = [j \in 1..Len(queue) - 1 |-> queue[j + 1]]
      BY <3>1, <3>2
    <3>4. Len(queue) - 1 \in Nat /\ \A j \in 1..Len(queue) - 1 : queue[j + 1] \in Items
      BY <1>1, <3>2
    <3>5. queue' \in Seq(Items) /\ Len(queue') = Len(queue) - 1
      BY <3>3, <3>4
    <3>6. \A i \in 1..Len(queue') : queue'[i] = queue[i + 1]
      BY <3>3, <3>4, <3>5
    <3> QED  BY <3>2, <3>5, <3>6
  <2> QED  BY <2>1, <2>2
<1>4. \A y : y \in Elems(queue) <=> y = queue[1] \/ y \in Elems(queue')
  <2> SUFFICES ASSUME NEW y PROVE y \in Elems(queue) <=> y = queue[1] \/ y \in Elems(queue')
    OBVIOUS
  <2>1. ASSUME y \in Elems(queue) PROVE y = queue[1] \/ y \in Elems(queue')
    <3>1. PICK i \in 1..Len(queue) : y = queue[i]
      BY <2>1 DEF Elems
    <3>2. CASE i # 1
      <4>1. i - 1 \in 1..Len(queue') /\ (i - 1) + 1 = i
        BY <1>1, <1>3, <3>2
      <4>2. queue'[i - 1] = y
        BY <1>3, <3>1, <4>1
      <4> QED  BY <4>1, <4>2 DEF Elems
    <3> QED  BY <3>1, <3>2
  <2>2. ASSUME y = queue[1] \/ y \in Elems(queue') PROVE y \in Elems(queue)
    BY <1>2, <1>3, <2>2 DEF Elems
  <2> QED  BY <2>1, <2>2
<1>5. Len(queue') <= Size
  BY <1>1, <1>3
<1> QED  BY <1>1, <1>2, <1>3, <1>4, <1>5 DEF Popped

(* A waiter goes and leaves its marker to nobody. *)
Deserted(t) ==
    /\ queue' \in Seq(Items) /\ Len(queue') = Len(queue) /\ Len(queue) \in Nat
    /\ \A i \in 1..Len(queue) : queue[i] \in Lines \/ queue'[i] \in Lines => queue'[i] = queue[i]
    /\ QueuedLines' = QueuedLines
    /\ \A i \in 1..Len(queue) : \A u \in Waiters : MarkerOf(queue'[i], u) <=> MarkerOf(queue[i], u) /\ u # t

LEMMA AbandonIs ==
    ASSUME TypeOK, NEW t \in Waiters, Abandon(t)
    PROVE  Deserted(t)
<1> USE Names DEF Items
<1>1. queue \in Seq(Items) /\ Len(queue) \in Nat
  BY DEF TypeOK
<1> DEFINE new(i) == IF queue[i] \in Markers /\ queue[i][2] = t THEN Marker(queue[i][1], Nobody) ELSE queue[i]
<1>2. ASSUME NEW i \in 1..Len(queue) PROVE new(i) \in Items
  <2>1. queue[i] \in Items
    BY <1>1
  <2>2. CASE queue[i] \in Markers /\ queue[i][2] = t
    BY <2>2 DEF Markers, Marker
  <2> QED  BY <2>1, <2>2
<1>3. queue' = [i \in 1..Len(queue) |-> new(i)]
  BY DEF Abandon
<1>4. queue' \in Seq(Items) /\ Len(queue') = Len(queue)
  BY <1>1, <1>2, <1>3
<1>5. ASSUME NEW i \in 1..Len(queue)
      PROVE  /\ queue[i] \in Lines => queue'[i] = queue[i]
             /\ queue'[i] \in Lines => queue'[i] = queue[i]
             /\ \A u \in Waiters : MarkerOf(queue'[i], u) <=> MarkerOf(queue[i], u) /\ u # t
  <2>1. queue'[i] = new(i)
    BY <1>3
  <2>2. CASE queue[i] \in Markers /\ queue[i][2] = t
    <3>1. queue'[i] \in Markers /\ queue'[i][2] = Nobody
      BY <2>1, <2>2 DEF Markers, Marker
    <3> QED  BY <2>2, <3>1 DEF MarkerOf
  <2>3. CASE ~(queue[i] \in Markers /\ queue[i][2] = t)
    BY <2>1, <2>3 DEF MarkerOf
  <2> QED  BY <2>2, <2>3
<1>6. QueuedLines' = QueuedLines
  <2>1. \A y \in Lines : y \in Elems(queue') <=> y \in Elems(queue)
    BY <1>4, <1>5 DEF Elems
  <2> QED  BY <2>1 DEF QueuedLines
<1> QED  BY <1>1, <1>4, <1>5, <1>6 DEF Deserted

----------------------------------------------------------------------------
(* What a step is, as far as the proofs tell steps apart. *)

Still == UNCHANGED <<queue, worker, writing, dropped, queued, written, evicted>>

(* A goroutine begins something, or a waiter whose marker was read goes on. *)
Quiet == /\ Still /\ UNCHANGED <<done, ahead>>
         /\ \A t \in Waiters : pc[t] \in Waiting => pc'[t] = pc[t]
Returns(t) == /\ Still /\ t \in done /\ done' = done \ {t} /\ ahead' = [ahead EXCEPT ![t] = {}]
              /\ \A u \in Waiters \ {t} : pc'[u] = pc[u]

(* A flush or a stop queues its marker, or its context ends. *)
Marks(t) == /\ pc[t] \notin Waiting /\ pc'[t] \in Waiting /\ Room
            /\ \A u \in Waiters \ {t} : pc'[u] = pc[u]
            /\ queue' \in {Append(queue, Marker("flush", t)), Append(queue, Marker("stop", t))}
            /\ ahead' = [ahead EXCEPT ![t] = Ahead]
            /\ UNCHANGED <<worker, writing, dropped, done, queued, written, evicted>>
Leaves(t) == /\ Abandon(t)
             /\ \A u \in Waiters \ {t} : pc'[u] = pc[u]
             /\ UNCHANGED <<worker, writing, dropped, queued, written, evicted>>

LEMMA FlushSteps ==
    ASSUME TypeOK, NEW t \in Waiters
    PROVE  /\ FlushStart(t) => Quiet
           /\ FlushQueue(t) => Marks(t)
           /\ FlushDone(t) => Returns(t)
           /\ FlushTimeout(t) => Leaves(t)
<1> USE Names DEF TypeOK, Waiting, Still, state, history
<1>1. ASSUME FlushStart(t) PROVE Quiet
  BY <1>1 DEF FlushStart, Quiet
<1>2. ASSUME FlushQueue(t) PROVE Marks(t)
  BY <1>2 DEF FlushQueue, Marks
<1>3. ASSUME FlushDone(t) PROVE Returns(t)
  BY <1>3 DEF FlushDone, Returns
<1>4. ASSUME FlushTimeout(t) PROVE Leaves(t)
  BY <1>4 DEF FlushTimeout, Leaves
<1> QED  BY <1>1, <1>2, <1>3, <1>4

LEMMA StopSteps ==
    ASSUME TypeOK, NEW c \in Closers
    PROVE  /\ StopStart(c) \/ StopBehind(c) \/ StopFollows(c) => Quiet
           /\ StopQueue(c) => Marks(c)
           /\ StopDone(c) => Returns(c)
           /\ StopTimeout(c) => Leaves(c)
<1> USE Names DEF TypeOK, Waiting, Still, state, history
<1>1. ASSUME StopStart(c) \/ StopBehind(c) \/ StopFollows(c) PROVE Quiet
  BY <1>1 DEF StopStart, StopBehind, StopFollows, Quiet
<1>2. ASSUME StopQueue(c) PROVE Marks(c)
  BY <1>2 DEF StopQueue, Marks
<1>3. ASSUME StopDone(c) PROVE Returns(c)
  BY <1>3 DEF StopDone, Returns
<1>4. ASSUME StopTimeout(c) PROVE Leaves(c)
  BY <1>4 DEF StopTimeout, Leaves
<1> QED  BY <1>1, <1>2, <1>3, <1>4

LEMMA WriteSteps ==
    ASSUME TypeOK, NEW e \in Emitters
    PROVE  /\ \A l \in Lines : WriteStart(e, l) => Quiet
           /\ WriteFull(e) => Quiet
<1> USE Names DEF TypeOK, Waiting, Still, state, history
<1>1. ASSUME NEW l \in Lines, WriteStart(e, l) PROVE Quiet
  BY <1>1 DEF WriteStart, Quiet
<1>2. ASSUME WriteFull(e) PROVE Quiet
  BY <1>2 DEF WriteFull, Quiet
<1> QED  BY <1>1, <1>2

LEMMA StepCases ==
    ASSUME TypeOK, [Next]_vars, NEW P,
           Quiet => P,
           \A t \in Waiters : Returns(t) => P,
           \A t \in Waiters : Marks(t) => P,
           \A t \in Waiters : Leaves(t) => P,
           \A e \in Emitters : WriteQueue(e) => P,
           \A e \in Emitters : Evict(e) => P,
           WorkerRecv => P,
           WorkerWrite => P
    PROVE  P
<1>1. CASE UNCHANGED vars
  BY <1>1 DEF vars, state, history, Quiet, Still
<1>2. CASE \E e \in Emitters : Write(e)
  BY <1>2, WriteSteps, Zenon DEF Write
<1>3. CASE \E f \in Flushers : FlushStart(f)
  BY <1>3, FlushSteps, Names
<1>4. CASE \E t \in Waiters : Flush(t)
  BY <1>4, FlushSteps, Zenon DEF Flush
<1>5. CASE \E c \in Closers : Stop(c)
  <2>1. PICK c \in Closers : Stop(c)
    BY <1>5
  <2>2. c \in Waiters
    BY Names
  <2> QED  BY <2>1, <2>2, StopSteps, Zenon DEF Stop
<1>6. CASE Run
  BY <1>6 DEF Run
<1> QED  BY <1>1, <1>2, <1>3, <1>4, <1>5, <1>6, Zenon DEF Next

----------------------------------------------------------------------------
(* What the strict order says of where a line is. *)
LEMMA Apart ==
    ASSUME WriterInv
    PROVE  /\ (Over \cup writing) \cap QueuedLines = {} /\ Elems(written) \cap writing = {}
           /\ \A i, j \in 1..Len(queue) : i # j /\ queue[i] \in Lines => queue[i] # queue[j]
           /\ \A i, j \in 1..Len(written) : i # j => written[i] # written[j]
<1>1. \A l \in Elems(queued) : At(queued, l) \in Nat
  BY PositionIs DEF WriterInv
<1>2. Over \cup writing \cup QueuedLines \subseteq Elems(queued) /\ Elems(written) \subseteq Elems(queued)
  BY DEF WriterInv, Placed, Over
<1>3. \A l \in Elems(queued) : ~(At(queued, l) < At(queued, l))
  BY <1>1
<1>4. (Over \cup writing) \cap QueuedLines = {} /\ Elems(written) \cap writing = {}
  BY <1>2, <1>3 DEF WriterInv, Ordered, Precede
<1>5. ASSUME NEW i \in 1..Len(queue), NEW j \in 1..Len(queue), i # j, queue[i] \in Lines
      PROVE  queue[i] # queue[j]
  <2>1. queue[i] \in Elems(queued)
    BY <1>2, <1>5 DEF QueuedLines, Elems
  <2>2. i \in Nat /\ j \in Nat /\ (i < j \/ j < i)
    BY <1>5 DEF WriterInv, TypeOK
  <2> QED  BY <1>3, <1>5, <2>1, <2>2 DEF WriterInv, Ordered
<1>6. ASSUME NEW i \in 1..Len(written), NEW j \in 1..Len(written), i # j
      PROVE  written[i] # written[j]
  <2>1. written[i] \in Elems(queued)
    BY <1>2, <1>6 DEF Elems
  <2>2. i \in Nat /\ j \in Nat /\ (i < j \/ j < i)
    BY <1>6 DEF WriterInv, TypeOK
  <2> QED  BY <1>3, <1>6, <2>1, <2>2 DEF WriterInv, Ordered
<1> QED  BY <1>4, <1>5, <1>6

(* The line that goes out of the queue, to the writer or away. *)
Gone == {queue[1]} \cap Lines
LEMMA HeadIs ==
    ASSUME WriterInv, Popped
    PROVE  /\ QueuedLines = Gone \cup QueuedLines' /\ Gone \cap QueuedLines' = {}
           /\ Gone \cap (Over \cup writing) = {} /\ Precede(Gone, QueuedLines')
<1>1. QueuedLines = Gone \cup QueuedLines'
  BY DEF Popped, QueuedLines, Gone
<1>2. ASSUME NEW l \in Gone, NEW m \in QueuedLines' PROVE l # m /\ At(queued, l) < At(queued, m)
  <2>1. PICK i \in 1..Len(queue') : queue'[i] = m
    BY DEF QueuedLines, Elems
  <2>2. queue[i + 1] = m /\ i + 1 \in 1..Len(queue) /\ 1 \in 1..Len(queue) /\ 1 < i + 1
    BY <2>1 DEF Popped
  <2>3. l = queue[1] /\ queue[1] \in Lines /\ queue[i + 1] \in Lines
    BY <2>2 DEF Gone, QueuedLines
  <2> QED  BY <2>2, <2>3, Apart DEF WriterInv, Ordered
<1>3. Gone \cap (Over \cup writing) = {}
  BY <1>1, Apart
<1> QED  BY <1>1, <1>2, <1>3 DEF Precede

(* The writer takes the head, or an emitter evicts it. *)
LEMMA RecvIs ==
    ASSUME WriterInv, WorkerRecv
    PROVE  /\ Popped /\ queue' = Tail(queue) /\ writing = {} /\ writing' = Gone
           /\ worker' # "write" => writing' = {}
           /\ worker' \in {"recv", "write", "exited"}
           /\ done' \subseteq Waiters /\ done \subseteq done'
           /\ \A t \in Waiters : t \in done' => t \in done \/ MarkerOf(queue[1], t)
           /\ \A t \in Waiters : MarkerOf(queue[1], t) => t \in done'
           /\ UNCHANGED <<pc, line, once, stopped, dropped, fresh, queued, written, evicted, ahead>>
<1>1. queue # <<>> /\ queue' = Tail(queue) /\ worker = "recv"
  BY DEF WorkerRecv
<1>2. Popped
  BY <1>1, PopIs DEF WriterInv
<1>3. writing = {} /\ Head(queue) = queue[1] /\ queue[1] \in Items
  BY <1>1, <1>2 DEF WriterInv, Placed, Popped
<1>4. CASE queue[1] \in Lines
  <2>1. worker' = "write" /\ writing' = {queue[1]} /\ done' = done
    BY <1>3, <1>4 DEF WorkerRecv
  <2>2. \A t \in Waiters : ~MarkerOf(queue[1], t)
    BY <1>4, Names DEF MarkerOf
  <2> QED  BY <1>1, <1>2, <1>3, <1>4, <2>1, <2>2 DEF WorkerRecv, history, Gone, WriterInv, TypeOK
<1>5. CASE queue[1] \notin Lines
  <2>1. /\ worker' = IF Stops(queue[1]) THEN "exited" ELSE "recv"
        /\ done' = done \cup ({queue[1][2]} \ {Nobody}) /\ writing' = writing
    BY <1>3, <1>5 DEF WorkerRecv
  <2>2. queue[1] \in Markers /\ queue[1][2] \in Waiters \cup {Nobody}
    BY <1>3, <1>5 DEF Items, Markers
  <2>3. worker' \in {"recv", "exited"}
    BY <2>1
  <2>4. \A t \in Waiters : MarkerOf(queue[1], t) <=> queue[1][2] = t
    BY <2>2 DEF MarkerOf
  <2>5. done' \subseteq Waiters /\ done \subseteq done'
    BY <2>1, <2>2 DEF WriterInv, TypeOK
  <2>6. /\ \A t \in Waiters : t \in done' => t \in done \/ MarkerOf(queue[1], t)
        /\ \A t \in Waiters : MarkerOf(queue[1], t) => t \in done'
    BY <2>1, <2>4, Names
  <2> QED  BY <1>1, <1>2, <1>3, <1>5, <2>1, <2>3, <2>5, <2>6 DEF WorkerRecv, history, Gone
<1> QED  BY <1>4, <1>5

LEMMA EvictIs ==
    ASSUME WriterInv, NEW e \in Emitters, Evict(e)
    PROVE  /\ \/ UNCHANGED <<queue, dropped, evicted>>
              \/ Popped /\ dropped' = dropped + 1 /\ evicted' = evicted \cup Gone
           /\ UNCHANGED <<worker, writing, line, done, once, stopped, fresh, queued, written, ahead>>
           /\ \A t \in Waiters : pc'[t] = pc[t]
           /\ pc' = [pc EXCEPT ![e] = "write"]
<1>1. CASE queue = <<>>
  BY <1>1, Names DEF Evict, WriterInv, TypeOK
<1>2. CASE queue # <<>>
  BY <1>2, Names, PopIs DEF Evict, WriterInv, TypeOK, Gone, Oldest
<1> QED  BY <1>1, <1>2

LEMMA WriteIs ==
    ASSUME WriterInv, WorkerWrite
    PROVE  \E l \in Lines :
              /\ writing = {l} /\ writing' = {} /\ worker' = "recv"
              /\ written' \in Seq(Lines) /\ Len(written') = Len(written) + 1 /\ Len(written) \in Nat
              /\ written'[Len(written) + 1] = l
              /\ \A i \in 1..Len(written) : written'[i] = written[i]
              /\ Elems(written') = Elems(written) \cup {l}
              /\ UNCHANGED <<queue, pc, line, done, once, stopped, dropped, fresh, queued, evicted, ahead>>
<1>1. PICK l \in writing : written' = Append(written, l)
  BY DEF WorkerWrite
<1>2. l \in Lines /\ writing = {l} /\ written \in Seq(Lines) /\ Len(written) \in Nat
  BY DEF WriterInv, TypeOK, Placed
<1>3. /\ written' \in Seq(Lines) /\ Len(written') = Len(written) + 1
      /\ written'[Len(written) + 1] = l
      /\ \A i \in 1..Len(written) : written'[i] = written[i]
  BY <1>1, <1>2
<1>4. \A i \in 1..Len(written') : i \in 1..Len(written) \/ i = Len(written) + 1
  BY <1>2, <1>3
<1>5. Elems(written') = Elems(written) \cup {l}
  <2>1. \A y : y \in Elems(written') => y \in Elems(written) \cup {l}
    BY <1>3, <1>4 DEF Elems
  <2>2. 1..Len(written) \subseteq 1..Len(written') /\ Len(written) + 1 \in 1..Len(written')
    BY <1>2, <1>3
  <2>3. \A y : y \in Elems(written) \cup {l} => y \in Elems(written')
    BY <1>3, <2>2 DEF Elems
  <2> QED  BY <2>1, <2>3
<1> QED  BY <1>2, <1>3, <1>5 DEF WorkerWrite

(* A marker is no line. *)
LEMMA MarkIs ==
    ASSUME WriterInv, NEW t \in Waiters, Marks(t)
    PROVE  \E m \in Markers :
              /\ MarkerOf(m, t) /\ m \notin Lines /\ \A u \in Waiters : MarkerOf(m, u) => u = t
              /\ queue' \in Seq(Items) /\ Len(queue') = Len(queue) + 1 /\ Len(queue') <= Size
              /\ Len(queue) \in Nat /\ queue'[Len(queue) + 1] = m
              /\ \A i \in 1..Len(queue) : queue'[i] = queue[i]
              /\ QueuedLines' = QueuedLines
<1>1. PICK m \in {Marker("flush", t), Marker("stop", t)} : queue' = Append(queue, m)
  BY DEF Marks
<1>2. m \in Markers /\ m[2] = t /\ m \notin Lines /\ m \in Items
  BY Names DEF Items
<1>3. /\ queue' \in Seq(Items) /\ Len(queue') = Len(queue) + 1 /\ Len(queue') <= Size
      /\ Len(queue) \in Nat /\ queue'[Len(queue) + 1] = m
      /\ \A i \in 1..Len(queue) : queue'[i] = queue[i]
      /\ Elems(queue') = Elems(queue) \cup {m}
  BY <1>1, <1>2, PushIs DEF WriterInv, Marks
<1>4. QueuedLines' = QueuedLines
  BY <1>2, <1>3 DEF QueuedLines
<1> QED  BY <1>2, <1>3, <1>4 DEF MarkerOf

(* A line that is queued is pushed, and has room. *)
LEMMA LineIs ==
    ASSUME WriterInv, NEW e \in Emitters, WriteQueue(e)
    PROVE  \E l \in line[e] \cap Lines :
              /\ queue' \in Seq(Items) /\ Len(queue') = Len(queue) + 1 /\ Len(queue') <= Size
              /\ Len(queue) \in Nat /\ queue'[Len(queue) + 1] = l
              /\ \A i \in 1..Len(queue) : queue'[i] = queue[i]
              /\ QueuedLines' = QueuedLines \cup {l}
              /\ queued' \in Seq(Lines) /\ NoRepeats(queued')
              /\ Elems(queued') = Elems(queued) \cup {l} /\ l \notin Elems(queued)
              /\ \A x \in Elems(queued) : At(queued', x) = At(queued, x) /\ At(queued, x) < At(queued', l)
<1>1. PICK l \in line[e] \cap Lines :
              /\ queue' = Append(queue, l) /\ queued' = Append(queued, l)
              /\ queued' \in Seq(Lines) /\ Len(queued') = Len(queued) + 1
              /\ Elems(queued') = Elems(queued) \cup {l} /\ l \notin Elems(queued)
              /\ NoRepeats(queued')
              /\ \A x \in Elems(queued) : At(queued', x) = At(queued, x) /\ At(queued, x) < At(queued', l)
  BY QueueingIs
<1>2. /\ queue' \in Seq(Items) /\ Len(queue') = Len(queue) + 1 /\ Len(queue') <= Size
      /\ Len(queue) \in Nat /\ queue'[Len(queue) + 1] = l
      /\ \A i \in 1..Len(queue) : queue'[i] = queue[i]
      /\ Elems(queue') = Elems(queue) \cup {l}
  BY <1>1, PushIs DEF WriterInv, WriteQueue, Items
<1>3. QueuedLines' = QueuedLines \cup {l}
  BY <1>2 DEF QueuedLines
<1> QED  BY <1>1, <1>2, <1>3

----------------------------------------------------------------------------
(* The parts of the invariant, one by one. *)

Places == {"idle", "write", "evict", "flush", "await", "once", "stop", "stopping", "ended"}

LEMMA Initially == Init => WriterInv
<1> SUFFICES ASSUME Init PROVE WriterInv
  OBVIOUS
<1> USE Names
<1>1. TypeOK
  <2>1. /\ queue = <<>> /\ queued = <<>> /\ written = <<>> /\ Len(queue) = 0 /\ 0 <= Size
        /\ pc = [t \in Threads |-> "idle"] /\ line = [e \in Emitters |-> {}]
        /\ ahead = [t \in Waiters |-> {}]
    BY DEF Init
  <2>2. /\ worker = "recv" /\ writing = {} /\ done = {} /\ once = "free" /\ stopped = FALSE
        /\ dropped = 0 /\ fresh = Lines /\ evicted = {}
    BY DEF Init
  <2>3. queue \in Seq(Lines \cup Markers) /\ queued \in Seq(Lines) /\ written \in Seq(Lines)
    BY <2>1
  <2>4. pc \in [Threads -> Places]
    BY <2>1 DEF Places
  <2>5. line \in [Emitters -> SUBSET Lines] /\ ahead \in [Waiters -> SUBSET Lines]
    BY <2>1
  <2> QED  BY <2>1, <2>2, <2>3, <2>4, <2>5 DEF TypeOK, Places
<1>2. Elems(queue) = {} /\ Elems(queued) = {} /\ Elems(written) = {}
  BY DEF Init, Elems
<1>3. BegunOnce
  BY <1>2 DEF Init, BegunOnce, NoRepeats
<1>4. Placed /\ Ordered
  BY <1>2 DEF Init, Placed, Ordered, Precede, QueuedLines, Over
<1>5. Counted
  BY FS_EmptySet DEF Init, Counted
<1>6. Waited
  BY DEF Init, Waited, OneMarker, Awaited, Preceded, Settled
<1> QED  BY <1>1, <1>3, <1>4, <1>5, <1>6 DEF WriterInv

(* Everything but the queue, the writer and the lists of lines. *)
TypeOfCalls ==
    /\ pc \in [Threads -> Places] /\ line \in [Emitters -> SUBSET Lines]
    /\ once \in {"free", "running", "ran"} /\ stopped \in BOOLEAN
    /\ fresh \subseteq Lines

LEMMA CallsStep ==
    ASSUME TypeOK, [Next]_vars
    PROVE  TypeOfCalls'
<1>0. TypeOfCalls
  BY DEF TypeOK, TypeOfCalls, Places
<1> USE Names DEF TypeOfCalls
<1>1. ASSUME NEW t \in Threads, NEW p \in Places, pc' = [pc EXCEPT ![t] = p],
             UNCHANGED <<line, fresh>>,
             once' \in {"free", "running", "ran"}, stopped' \in BOOLEAN
      PROVE  TypeOfCalls'
  BY <1>0, <1>1
<1>2. ASSUME NEW e \in Emitters, Write(e) PROVE TypeOfCalls'
  <2>1. ASSUME NEW l \in Lines, WriteStart(e, l) PROVE TypeOfCalls'
    <3>1. pc' = pc \/ pc' = [pc EXCEPT ![e] = "write"]
      BY <2>1 DEF WriteStart
    <3>2. line' = line \/ line' = [line EXCEPT ![e] = {l}]
      BY <2>1 DEF WriteStart
    <3>3. pc' \in [Threads -> Places] /\ line' \in [Emitters -> SUBSET Lines]
      BY <1>0, <3>1, <3>2 DEF Places
    <3>4. fresh' \subseteq Lines /\ once' = once /\ stopped' = stopped
      BY <1>0, <2>1 DEF WriteStart
    <3> QED  BY <1>0, <3>3, <3>4
  <2>2. ASSUME WriteQueue(e) PROVE TypeOfCalls'
    <3>1. pc' = [pc EXCEPT ![e] = "idle"] /\ line' = [line EXCEPT ![e] = {}]
      BY <2>2 DEF WriteQueue
    <3>2. fresh' = fresh /\ once' = once /\ stopped' = stopped
      BY <2>2 DEF WriteQueue
    <3>3. pc' \in [Threads -> Places] /\ line' \in [Emitters -> SUBSET Lines]
      BY <1>0, <3>1 DEF Places
    <3> QED  BY <1>0, <3>2, <3>3
  <2>3. ASSUME WriteFull(e) \/ Evict(e) PROVE TypeOfCalls'
    <3>1. \E p \in Places : pc' = [pc EXCEPT ![e] = p]
      BY <2>3 DEF WriteFull, Evict, Places
    <3>2. UNCHANGED <<line, fresh, once, stopped>>
      BY <2>3 DEF WriteFull, Evict, history
    <3> QED  BY <1>0, <1>1, <3>1, <3>2
  <2> QED  BY <1>2, <2>1, <2>2, <2>3, Zenon DEF Write
<1>3. ASSUME NEW f \in Flushers, FlushStart(f) PROVE TypeOfCalls'
  <2>1. \E p \in Places : pc' = [pc EXCEPT ![f] = p]
    BY <1>3 DEF FlushStart, Places
  <2>2. UNCHANGED <<line, fresh, once, stopped>>
    BY <1>3 DEF FlushStart, history
  <2> QED  BY <1>0, <1>1, <2>1, <2>2
<1>4. ASSUME NEW t \in Waiters, Flush(t) PROVE TypeOfCalls'
  <2>1. \E p \in Places : pc' = [pc EXCEPT ![t] = p]
    BY <1>4 DEF Flush, FlushQueue, FlushDone, FlushTimeout, After, Places
  <2>2. UNCHANGED <<line, fresh, once, stopped>>
    BY <1>4 DEF Flush, FlushQueue, FlushDone, FlushTimeout
  <2> QED  BY <1>0, <1>1, <2>1, <2>2
<1>5. ASSUME NEW c \in Closers, Stop(c) PROVE TypeOfCalls'
  <2>1. \E p \in Places : pc' = [pc EXCEPT ![c] = p]
    BY <1>5 DEF Stop, StopStart, StopBehind, StopFollows, StopQueue, StopDone, StopTimeout, Places
  <2>2. /\ UNCHANGED <<line, fresh>>
        /\ once' \in {once, "running", "ran"} /\ (stopped' = stopped \/ stopped' = TRUE)
    BY <1>5 DEF Stop, StopStart, StopBehind, StopFollows, StopQueue, StopDone, StopTimeout, history
  <2> QED  BY <1>0, <1>1, <2>1, <2>2
<1>6. CASE Run
  BY <1>0, <1>6 DEF Run, WorkerRecv, WorkerWrite, history
<1>7. CASE UNCHANGED vars
  BY <1>0, <1>7 DEF vars, state, history
<1> QED  BY <1>2, <1>3, <1>4, <1>5, <1>6, <1>7, Zenon DEF Next

(* The rest of the types. *)
TypeOfLines ==
    /\ queue \in Seq(Items) /\ Len(queue) <= Size
    /\ worker \in {"recv", "write", "exited"} /\ writing \subseteq Lines
    /\ done \subseteq Waiters /\ dropped \in Nat /\ evicted \subseteq Lines
    /\ queued \in Seq(Lines) /\ written \in Seq(Lines)
    /\ ahead \in [Waiters -> SUBSET Lines]

LEMMA LinesStep ==
    ASSUME WriterInv, [Next]_vars
    PROVE  TypeOfLines'
<1> USE DEF TypeOfLines
<1>0. TypeOK /\ TypeOfLines
  BY DEF WriterInv, TypeOK, Items
<1>1. ASSUME Quiet PROVE TypeOfLines'
  BY <1>0, <1>1 DEF Quiet, Still
<1>2. ASSUME NEW t \in Waiters, Returns(t) PROVE TypeOfLines'
  BY <1>0, <1>2 DEF Returns, Still
<1>3. ASSUME NEW t \in Waiters, Marks(t) PROVE TypeOfLines'
  <2>1. Ahead \subseteq Lines
    BY <1>0 DEF Ahead
  <2> QED  BY <1>0, <1>3, <2>1, MarkIs DEF Marks
<1>4. ASSUME NEW t \in Waiters, Leaves(t) PROVE TypeOfLines'
  <2>1. queue' \in Seq(Items) /\ Len(queue') = Len(queue)
    BY <1>0, <1>4, AbandonIs DEF Leaves, Deserted
  <2>2. done' \subseteq Waiters /\ ahead' \in [Waiters -> SUBSET Lines]
    BY <1>0, <1>4 DEF Leaves, Abandon
  <2> QED  BY <1>0, <1>4, <2>1, <2>2 DEF Leaves
<1>5. ASSUME NEW e \in Emitters, WriteQueue(e) PROVE TypeOfLines'
  BY <1>0, <1>5, LineIs DEF WriteQueue
<1>6. ASSUME NEW e \in Emitters, Evict(e) PROVE TypeOfLines'
  <2>1. done' = done
    BY <1>6 DEF Evict
  <2> QED  BY <1>0, <1>6, <2>1, EvictIs DEF Popped, Gone
<1>7. ASSUME WorkerRecv PROVE TypeOfLines'
  BY <1>0, <1>7, RecvIs DEF Popped, Gone
<1>8. ASSUME WorkerWrite PROVE TypeOfLines'
  BY <1>0, <1>8, WriteIs
<1> QED  BY <1>0, <1>1, <1>2, <1>3, <1>4, <1>5, <1>6, <1>7, <1>8, StepCases

LEMMA TypeStep ==
    ASSUME WriterInv, [Next]_vars
    PROVE  TypeOK'
<1>1. TypeOfCalls' /\ TypeOfLines'
  BY CallsStep, LinesStep DEF WriterInv
<1> QED  BY <1>1 DEF TypeOK, TypeOfCalls, TypeOfLines, Places, Items

LEMMA BegunOnceStep ==
    ASSUME WriterInv, [Next]_vars
    PROVE  BegunOnce'
<1>0. BegunOnce /\ line \in [Emitters -> SUBSET Lines] /\ TypeOK
  BY DEF WriterInv, TypeOK
<1>1. ASSUME UNCHANGED <<fresh, line, queued>> PROVE BegunOnce'
  BY <1>0, <1>1 DEF BegunOnce, Elems, NoRepeats
<1>2. ASSUME NEW e \in Emitters, NEW l \in Lines, WriteStart(e, l) PROVE BegunOnce'
  <2>1. queued' = queued /\ fresh' = fresh \ {l} /\ l \in fresh
    BY <1>2 DEF WriteStart
  <2>2. line' = line \/ line' = [line EXCEPT ![e] = {l}]
    BY <1>2 DEF WriteStart
  <2> QED  BY <1>0, <2>1, <2>2 DEF BegunOnce, Elems, NoRepeats
<1>3. ASSUME NEW e \in Emitters, WriteQueue(e) PROVE BegunOnce'
  <2>1. PICK l \in line[e] : /\ NoRepeats(queued') /\ Elems(queued') = Elems(queued) \cup {l}
    BY <1>3, LineIs
  <2>2. line' = [line EXCEPT ![e] = {}] /\ fresh' = fresh
    BY <1>3 DEF WriteQueue
  <2> QED  BY <1>0, <2>1, <2>2 DEF BegunOnce
<1>4. ASSUME NEW e \in Emitters, Write(e) PROVE BegunOnce'
  <2>1. ASSUME WriteFull(e) \/ Evict(e) PROVE UNCHANGED <<fresh, line, queued>>
    BY <2>1 DEF WriteFull, Evict, history
  <2> QED  BY <1>1, <1>2, <1>3, <1>4, <2>1 DEF Write
<1>5. ASSUME NEW t \in Waiters, FlushStart(t) \/ Flush(t) PROVE UNCHANGED <<fresh, line, queued>>
  BY <1>5 DEF FlushStart, Flush, FlushQueue, FlushDone, FlushTimeout, history
<1>6. ASSUME NEW c \in Closers, Stop(c) PROVE UNCHANGED <<fresh, line, queued>>
  BY <1>6 DEF Stop, StopStart, StopBehind, StopFollows, StopQueue, StopDone, StopTimeout, history
<1>7. ASSUME Run \/ UNCHANGED vars PROVE UNCHANGED <<fresh, line, queued>>
  BY <1>7 DEF Run, WorkerRecv, WorkerWrite, vars, state, history
<1> QED  BY <1>1, <1>4, <1>5, <1>6, <1>7, Names DEF Next

LEMMA PlacedStep ==
    ASSUME WriterInv, [Next]_vars
    PROVE  Placed'
<1> USE DEF Placed, Over
<1>0. TypeOK /\ Placed
  BY DEF WriterInv
<1>1. ASSUME UNCHANGED <<worker, writing, queued, written, evicted>>, QueuedLines' = QueuedLines
      PROVE  Placed'
  BY <1>0, <1>1 DEF Elems
<1>2. ASSUME Still PROVE Placed'
  BY <1>1, <1>2 DEF Still, QueuedLines, Elems
<1>3. ASSUME NEW t \in Waiters, Marks(t) PROVE Placed'
  BY <1>1, <1>3, MarkIs DEF Marks
<1>4. ASSUME NEW t \in Waiters, Leaves(t) PROVE Placed'
  BY <1>0, <1>1, <1>4, AbandonIs DEF Leaves, Deserted
<1>5. ASSUME NEW e \in Emitters, WriteQueue(e) PROVE Placed'
  <2>1. \E l \in Lines : /\ QueuedLines' = QueuedLines \cup {l}
                         /\ Elems(queued') = Elems(queued) \cup {l}
    BY <1>5, LineIs
  <2>2. UNCHANGED <<worker, writing, written, evicted>>
    BY <1>5 DEF WriteQueue
  <2>3. Elems(written') = Elems(written)
    BY <2>2 DEF Elems
  <2> QED  BY <1>0, <2>1, <2>2, <2>3
<1>6. ASSUME NEW e \in Emitters, Evict(e) PROVE Placed'
  <2>1. UNCHANGED <<worker, writing, queued, written>>
    BY <1>6, EvictIs
  <2>2. CASE UNCHANGED <<queue, evicted>>
    BY <1>1, <2>1, <2>2 DEF QueuedLines, Elems
  <2>3. CASE Popped /\ evicted' = evicted \cup Gone
    <3>1. Elems(queued') = Elems(queued) /\ Elems(written') = Elems(written)
      BY <2>1 DEF Elems
    <3> QED  BY <1>0, <2>1, <2>3, <3>1, HeadIs
  <2> QED  BY <1>6, <2>2, <2>3, EvictIs
<1>7. ASSUME WorkerRecv PROVE Placed'
  <2>1. /\ Popped /\ writing = {} /\ writing' = Gone
        /\ (worker' # "write" => writing' = {})
        /\ UNCHANGED <<queued, written, evicted>>
    BY <1>7, RecvIs
  <2>2. Elems(queued') = Elems(queued) /\ Elems(written') = Elems(written)
    BY <2>1 DEF Elems
  <2>3. \A l \in writing' : l = queue[1]
    <3>1. writing' = Gone
      BY <2>1
    <3> QED  BY <3>1, Zenon DEF Gone
  <2>4. \A l, m \in writing' : l = m
    BY <2>3, Zenon
  <2>5. QueuedLines = Gone \cup QueuedLines' /\ Gone \cap (Over \cup writing) = {}
    BY <2>1, HeadIs
  <2>6. Elems(queued') = QueuedLines' \cup writing' \cup Elems(written') \cup evicted'
    BY <1>0, <2>1, <2>2, <2>5
  <2>7. evicted' \cap (writing' \cup Elems(written')) = {}
    BY <1>0, <2>1, <2>2, <2>5
  <2> QED  BY <2>1, <2>4, <2>6, <2>7, Zenon
<1>8. ASSUME WorkerWrite PROVE Placed'
  <2>1. PICK l \in Lines : /\ writing = {l} /\ writing' = {} /\ Elems(written') = Elems(written) \cup {l}
                           /\ UNCHANGED <<queue, queued, evicted>>
    BY <1>8, WriteIs
  <2>2. Elems(queued') = Elems(queued) /\ QueuedLines' = QueuedLines
    BY <2>1 DEF Elems, QueuedLines
  <2> QED  BY <1>0, <2>1, <2>2
<1>9. (Quiet \/ \E t \in Waiters : Returns(t)) => Still
  BY DEF Quiet, Returns
<1> QED  BY <1>0, <1>2, <1>3, <1>4, <1>5, <1>6, <1>7, <1>8, <1>9, StepCases

(* A line keeps its position once it has one. *)
LEMMA PositionKept ==
    ASSUME WriterInv, [Next]_vars
    PROVE  \A x \in Elems(queued) : At(queued', x) = At(queued, x) /\ At(queued, x) \in Nat
<1>1. ASSUME queued' = queued PROVE \A x : At(queued', x) = At(queued, x)
  BY <1>1 DEF At
<1>2. (Quiet \/ \E t \in Waiters : Returns(t) \/ Marks(t) \/ Leaves(t)) => queued' = queued
  BY DEF Quiet, Returns, Marks, Leaves, Still
<1>3. ASSUME NEW e \in Emitters, Evict(e) PROVE queued' = queued
  BY <1>3, EvictIs
<1>4. ASSUME WorkerRecv PROVE queued' = queued
  BY <1>4, RecvIs
<1>5. ASSUME WorkerWrite PROVE queued' = queued
  BY <1>5, WriteIs
<1>6. ASSUME NEW e \in Emitters, WriteQueue(e) PROVE \A x \in Elems(queued) : At(queued', x) = At(queued, x)
  BY <1>6, LineIs
<1>7. queued' = queued \/ \E e \in Emitters : WriteQueue(e)
  BY <1>2, <1>3, <1>4, <1>5, StepCases DEF WriterInv
<1> QED  BY <1>1, <1>6, <1>7, PositionIs DEF WriterInv

(* The four orders, apart. *)
InQueue == \A i, j \in 1..Len(queue) : i < j /\ queue[i] \in Lines /\ queue[j] \in Lines
                                          => At(queued, queue[i]) < At(queued, queue[j])
InOutput == \A i, j \in 1..Len(written) : i < j => At(queued, written[i]) < At(queued, written[j])

LEMMA OrderedIs ==
    /\ Ordered <=> /\ InQueue /\ InOutput
                   /\ Precede(Over \cup writing, QueuedLines)
                   /\ Precede(Elems(written), writing)
    /\ Ordered' <=> /\ InQueue' /\ InOutput'
                    /\ Precede(Over \cup writing, QueuedLines)'
                    /\ Precede(Elems(written), writing)'
  BY DEF Ordered, InQueue, InOutput

LEMMA PrecedeKept ==
    ASSUME WriterInv, [Next]_vars, NEW A, NEW B, Precede(A, B),
           A \subseteq Elems(queued), B \subseteq Elems(queued)
    PROVE  \A l \in A : \A m \in B : At(queued', l) < At(queued', m)
  BY PositionKept DEF Precede

LEMMA InQueueStep ==
    ASSUME WriterInv, [Next]_vars
    PROVE  InQueue'
<1>0. InQueue /\ QueuedLines \subseteq Elems(queued) /\ queue \in Seq(Items) /\ Len(queue) \in Nat
  BY OrderedIs DEF WriterInv, Placed, TypeOK, Items
<1>1. \A i \in 1..Len(queue) : queue[i] \in Lines => queue[i] \in Elems(queued)
  BY <1>0 DEF QueuedLines, Elems
<1>2. \A i, j \in 1..Len(queue) : i < j /\ queue[i] \in Lines /\ queue[j] \in Lines
          => At(queued', queue[i]) < At(queued', queue[j])
  BY <1>0, <1>1, PositionKept DEF InQueue
<1>3. ASSUME queue' = queue PROVE InQueue'
  BY <1>2, <1>3 DEF InQueue
<1>4. ASSUME Popped PROVE InQueue'
  <2>1. Len(queue') \in Nat /\ \A i \in 1..Len(queue') : queue'[i] = queue[i + 1] /\ i + 1 \in 1..Len(queue)
    BY <1>4 DEF Popped
  <2> SUFFICES ASSUME NEW i \in 1..Len(queue'), NEW j \in 1..Len(queue'),
                      i < j, queue'[i] \in Lines, queue'[j] \in Lines
               PROVE  At(queued', queue'[i]) < At(queued', queue'[j])
    BY DEF InQueue
  <2>2. i + 1 < j + 1 /\ i + 1 \in 1..Len(queue) /\ j + 1 \in 1..Len(queue)
    BY <2>1
  <2> QED  BY <1>2, <2>1, <2>2
<1>5. ASSUME NEW t \in Waiters, Marks(t) PROVE InQueue'
  <2>1. /\ Len(queue') = Len(queue) + 1 /\ queue'[Len(queue) + 1] \notin Lines
        /\ \A i \in 1..Len(queue) : queue'[i] = queue[i]
    BY <1>5, MarkIs
  <2> SUFFICES ASSUME NEW i \in 1..Len(queue'), NEW j \in 1..Len(queue'),
                      i < j, queue'[i] \in Lines, queue'[j] \in Lines
               PROVE  At(queued', queue'[i]) < At(queued', queue'[j])
    BY DEF InQueue
  <2>2. i \in 1..Len(queue) /\ j \in 1..Len(queue)
    BY <1>0, <2>1
  <2> QED  BY <1>2, <2>1, <2>2
<1>6. ASSUME NEW t \in Waiters, Leaves(t) PROVE InQueue'
  <2>1. /\ Len(queue') = Len(queue)
        /\ \A i \in 1..Len(queue) : queue'[i] \in Lines => queue'[i] = queue[i]
    <3>1. Deserted(t)
      BY <1>6, AbandonIs DEF Leaves, WriterInv
    <3> QED  BY <3>1 DEF Deserted
  <2> SUFFICES ASSUME NEW i \in 1..Len(queue'), NEW j \in 1..Len(queue'),
                      i < j, queue'[i] \in Lines, queue'[j] \in Lines
               PROVE  At(queued', queue'[i]) < At(queued', queue'[j])
    BY DEF InQueue
  <2> QED  BY <1>2, <2>1
<1>7. ASSUME NEW e \in Emitters, WriteQueue(e) PROVE InQueue'
  <2>1. PICK l \in Lines :
            /\ Len(queue') = Len(queue) + 1 /\ queue'[Len(queue) + 1] = l
            /\ \A i \in 1..Len(queue) : queue'[i] = queue[i]
            /\ \A x \in Elems(queued) : At(queued', x) < At(queued', l)
    BY <1>7, LineIs
  <2> SUFFICES ASSUME NEW i \in 1..Len(queue'), NEW j \in 1..Len(queue'),
                      i < j, queue'[i] \in Lines, queue'[j] \in Lines
               PROVE  At(queued', queue'[i]) < At(queued', queue'[j])
    BY DEF InQueue
  <2>2. i \in 1..Len(queue)
    BY <1>0, <2>1
  <2>3. CASE j \in 1..Len(queue)
    BY <1>2, <2>1, <2>2, <2>3
  <2>4. CASE j = Len(queue) + 1
    BY <1>1, <2>1, <2>2, <2>4
  <2> QED  BY <1>0, <2>1, <2>3, <2>4
<1>8. (Quiet \/ \E t \in Waiters : Returns(t)) => queue' = queue
  BY DEF Quiet, Returns, Still
<1>9. ASSUME NEW e \in Emitters, Evict(e) PROVE InQueue'
  BY <1>3, <1>4, <1>9, EvictIs
<1>10. ASSUME WorkerRecv PROVE InQueue'
  BY <1>4, <1>10, RecvIs
<1>11. ASSUME WorkerWrite PROVE InQueue'
  BY <1>3, <1>11, WriteIs
<1> QED  BY <1>3, <1>5, <1>6, <1>7, <1>8, <1>9, <1>10, <1>11, StepCases DEF WriterInv

(* Only the writer's write adds to the output, and it adds the line in its hands. *)
LEMMA WrittenIs ==
    ASSUME WriterInv, [Next]_vars
    PROVE  \/ written' = written
           \/ WorkerWrite
<1>1. (Quiet \/ \E t \in Waiters : Returns(t) \/ Marks(t) \/ Leaves(t)) => written' = written
  BY DEF Quiet, Returns, Marks, Leaves, Still
<1>2. ASSUME NEW e \in Emitters, WriteQueue(e) \/ Evict(e) PROVE written' = written
  BY <1>2 DEF WriteQueue, Evict
<1>3. ASSUME WorkerRecv PROVE written' = written
  BY <1>3, RecvIs
<1> QED  BY <1>1, <1>2, <1>3, StepCases DEF WriterInv

LEMMA InOutputStep ==
    ASSUME WriterInv, [Next]_vars
    PROVE  InOutput'
<1>0. /\ InOutput /\ Elems(written) \subseteq Elems(queued) /\ writing \subseteq Elems(queued)
      /\ Precede(Elems(written), writing) /\ Len(written) \in Nat
  BY OrderedIs DEF WriterInv, Placed, Over, TypeOK
<1>1. \A i \in 1..Len(written) : written[i] \in Elems(written)
  BY DEF Elems
<1>2. \A i, j \in 1..Len(written) : i < j => At(queued', written[i]) < At(queued', written[j])
  BY <1>0, <1>1, PositionKept DEF InOutput
<1>3. CASE written' = written
  BY <1>2, <1>3 DEF InOutput
<1>4. CASE WorkerWrite
  <2>1. PICK l \in writing :
            /\ Len(written') = Len(written) + 1 /\ written'[Len(written) + 1] = l
            /\ \A i \in 1..Len(written) : written'[i] = written[i]
    BY <1>4, WriteIs
  <2>2. \A x \in Elems(written) : At(queued', x) < At(queued', l)
    BY <1>0, PrecedeKept
  <2> SUFFICES ASSUME NEW i \in 1..Len(written'), NEW j \in 1..Len(written'), i < j
               PROVE  At(queued', written'[i]) < At(queued', written'[j])
    BY DEF InOutput
  <2>3. i \in 1..Len(written)
    BY <1>0, <2>1
  <2>4. CASE j \in 1..Len(written)
    BY <1>2, <2>1, <2>3, <2>4
  <2>5. CASE j = Len(written) + 1
    BY <1>1, <2>1, <2>2, <2>3, <2>5
  <2> QED  BY <1>0, <2>1, <2>4, <2>5
<1> QED  BY <1>3, <1>4, WrittenIs

(* What was given up or written, or is in the writer's hands, is older than what is *)
(* queued; what was written is older than what is in hand.                          *)
LEMMA PrecedeStep ==
    ASSUME WriterInv, [Next]_vars
    PROVE  Precede(Over \cup writing, QueuedLines)' /\ Precede(Elems(written), writing)'
<1> DEFINE Before(A, B) == \A l \in A : \A m \in B : At(queued', l) < At(queued', m)
           Goal == /\ Before(Over' \cup writing', QueuedLines')
                   /\ Before(Elems(written'), writing')
<1>0. /\ Precede(Over \cup writing, QueuedLines) /\ Precede(Elems(written), writing)
      /\ Over \cup writing \subseteq Elems(queued) /\ QueuedLines \subseteq Elems(queued)
      /\ Elems(written) \subseteq Over /\ TypeOK
  BY OrderedIs DEF WriterInv, Placed, Over
<1>1. Before(Over \cup writing, QueuedLines) /\ Before(Elems(written), writing)
  BY <1>0, PrecedeKept
<1>2. SUFFICES Goal
  BY DEF Precede
<1> HIDE DEF Goal
<1>3. ASSUME UNCHANGED <<writing, written, evicted>>, QueuedLines' = QueuedLines PROVE Goal
  <2>1. Over' = Over /\ Elems(written') = Elems(written)
    BY <1>3 DEF Over, Elems
  <2> QED  BY <1>1, <1>3, <2>1 DEF Goal
<1>4. ASSUME Quiet \/ \E t \in Waiters : Returns(t) PROVE Goal
  <2>1. UNCHANGED <<queue, writing, written, evicted>>
    BY <1>4 DEF Quiet, Returns, Still
  <2> QED  BY <1>3, <2>1 DEF QueuedLines, Elems
<1>5. ASSUME NEW t \in Waiters, Marks(t) PROVE Goal
  BY <1>3, <1>5, MarkIs DEF Marks
<1>6. ASSUME NEW t \in Waiters, Leaves(t) PROVE Goal
  <2>1. Deserted(t)
    BY <1>0, <1>6, AbandonIs DEF Leaves
  <2> QED  BY <1>3, <1>6, <2>1 DEF Leaves, Deserted
<1>7. ASSUME NEW e \in Emitters, WriteQueue(e) PROVE Goal
  <2>1. PICK l \in Lines : /\ QueuedLines' = QueuedLines \cup {l}
                           /\ \A x \in Elems(queued) : At(queued', x) < At(queued', l)
    BY <1>7, LineIs
  <2>2. UNCHANGED <<writing, written, evicted>>
    BY <1>7 DEF WriteQueue
  <2>3. Over' = Over /\ Elems(written') = Elems(written)
    BY <2>2 DEF Over, Elems
  <2>4. Before(Over \cup writing, {l})
    BY <1>0, <2>1
  <2> QED  BY <1>1, <2>1, <2>2, <2>3, <2>4 DEF Goal
<1>8. ASSUME NEW e \in Emitters, Evict(e) PROVE Goal
  <2>1. UNCHANGED <<writing, written>> /\ Elems(written') = Elems(written)
    BY <1>8, EvictIs DEF Elems
  <2>2. CASE UNCHANGED <<queue, evicted>>
    BY <1>3, <2>1, <2>2 DEF QueuedLines, Elems
  <2>3. CASE Popped /\ evicted' = evicted \cup Gone
    <3>1. /\ QueuedLines = Gone \cup QueuedLines' /\ Precede(Gone, QueuedLines')
          /\ Gone \subseteq Elems(queued) /\ QueuedLines' \subseteq Elems(queued)
      BY <1>0, <2>3, HeadIs
    <3>2. Before(Gone, QueuedLines')
      BY <3>1, PrecedeKept
    <3>3. Over' = Over \cup Gone
      BY <2>1, <2>3 DEF Over
    <3> QED  BY <1>1, <2>1, <3>1, <3>2, <3>3 DEF Goal
  <2> QED  BY <1>8, <2>2, <2>3, EvictIs
<1>9. ASSUME WorkerRecv PROVE Goal
  <2>1. Popped /\ writing = {} /\ writing' = Gone /\ UNCHANGED <<written, evicted>>
    BY <1>9, RecvIs
  <2>2. /\ QueuedLines = Gone \cup QueuedLines' /\ Precede(Gone, QueuedLines')
        /\ Gone \subseteq Elems(queued) /\ QueuedLines' \subseteq Elems(queued)
    BY <1>0, <2>1, HeadIs
  <2>3. Before(Gone, QueuedLines')
    BY <2>2, PrecedeKept
  <2>4. Over' = Over /\ Elems(written') = Elems(written)
    BY <2>1 DEF Over, Elems
  <2> QED  BY <1>0, <1>1, <2>1, <2>2, <2>3, <2>4 DEF Goal
<1>10. ASSUME WorkerWrite PROVE Goal
  <2>1. PICK l \in Lines : /\ writing = {l} /\ writing' = {} /\ Elems(written') = Elems(written) \cup {l}
                           /\ UNCHANGED <<queue, evicted>>
    BY <1>10, WriteIs
  <2>2. QueuedLines' = QueuedLines /\ Over' \cup writing' = Over \cup writing
    BY <2>1 DEF Over, QueuedLines, Elems
  <2> QED  BY <1>1, <2>1, <2>2 DEF Goal
<1> QED  BY <1>0, <1>4, <1>5, <1>6, <1>7, <1>8, <1>9, <1>10, StepCases

LEMMA OrderedStep ==
    ASSUME WriterInv, [Next]_vars
    PROVE  Ordered'
  BY InQueueStep, InOutputStep, PrecedeStep, OrderedIs

LEMMA CountedStep ==
    ASSUME WriterInv, [Next]_vars
    PROVE  Counted'
<1>0. IsFiniteSet(evicted) /\ Cardinality(evicted) <= dropped /\ dropped \in Nat /\ Cardinality(evicted) \in Nat
  BY FS_CardinalityType DEF WriterInv, Counted, TypeOK
<1>1. ASSUME UNCHANGED <<dropped, evicted>> PROVE Counted'
  BY <1>0, <1>1 DEF Counted
<1>2. (Quiet \/ \E t \in Waiters : Returns(t) \/ Marks(t) \/ Leaves(t)) => UNCHANGED <<dropped, evicted>>
  BY DEF Quiet, Returns, Marks, Leaves, Still
<1>3. ASSUME NEW e \in Emitters, Evict(e) PROVE Counted'
  <2>1. CASE dropped' = dropped + 1 /\ evicted' = evicted \cup Gone
    <3>1. CASE Gone = {}
      BY <1>0, <2>1, <3>1 DEF Counted
    <3>2. CASE Gone # {}
      <4>1. Gone = {queue[1]}
        BY <3>2 DEF Gone
      <4>2. /\ IsFiniteSet(evicted \cup {queue[1]})
            /\ \/ Cardinality(evicted \cup {queue[1]}) = Cardinality(evicted) + 1
               \/ evicted \cup {queue[1]} = evicted
        BY <1>0, FS_AddElement
      <4>3. evicted' = evicted \cup {queue[1]}
        BY <2>1, <4>1
      <4> QED  BY <1>0, <2>1, <4>2, <4>3 DEF Counted
    <3> QED  BY <3>1, <3>2
  <2> QED  BY <1>1, <1>3, <2>1, EvictIs
<1>4. ASSUME NEW e \in Emitters, WriteQueue(e) PROVE Counted'
  BY <1>1, <1>4 DEF WriteQueue
<1>5. ASSUME WorkerRecv \/ WorkerWrite PROVE Counted'
  BY <1>1, <1>5, RecvIs, WriteIs
<1> QED  BY <1>1, <1>2, <1>3, <1>4, <1>5, StepCases DEF WriterInv

(* The writer is never less done with a line. *)
LEMMA OverGrows ==
    ASSUME WriterInv, [Next]_vars
    PROVE  Over \subseteq Over' /\ writing \subseteq Over' \cup writing'
<1>1. ASSUME UNCHANGED <<writing, written, evicted>>
      PROVE  Over \subseteq Over' /\ writing \subseteq Over' \cup writing'
  BY <1>1 DEF Over, Elems
<1>2. (Quiet \/ \E t \in Waiters : Returns(t) \/ Marks(t) \/ Leaves(t)) => UNCHANGED <<writing, written, evicted>>
  BY DEF Quiet, Returns, Marks, Leaves, Still
<1>3. ASSUME NEW e \in Emitters, WriteQueue(e) PROVE UNCHANGED <<writing, written, evicted>>
  BY <1>3 DEF WriteQueue
<1>4. ASSUME NEW e \in Emitters, Evict(e) PROVE Over \subseteq Over' /\ writing' = writing
  <2>1. writing' = writing /\ Elems(written') = Elems(written) /\ evicted \subseteq evicted'
    BY <1>4, EvictIs DEF Elems
  <2> QED  BY <2>1 DEF Over
<1>5. ASSUME WorkerRecv PROVE Over' = Over /\ writing = {}
  BY <1>5, RecvIs DEF Over, Elems
<1>6. ASSUME WorkerWrite PROVE Over' = Over \cup writing
  BY <1>6, WriteIs DEF Over
<1> QED  BY <1>1, <1>2, <1>3, <1>4, <1>5, <1>6, StepCases DEF WriterInv

(* What holds of one waiter, after the four changes to the queue. *)
Kept(t) == pc'[t] = pc[t] /\ (t \in done' <=> t \in done) /\ ahead'[t] = ahead[t]
Waits(t) == OneMarker(t) /\ Awaited(t) /\ Preceded(t) /\ Settled(t)

LEMMA SameQueue ==
    ASSUME WriterInv, [Next]_vars, NEW t \in Waiters, queue' = queue, Kept(t)
    PROVE  Waits(t)'
<1>1. OneMarker(t)' /\ Awaited(t)'
  BY DEF WriterInv, Waited, OneMarker, Awaited, Kept
<1>2. Preceded(t)' /\ Settled(t)'
  BY OverGrows DEF WriterInv, Waited, Preceded, Settled, Kept
<1> QED  BY <1>1, <1>2 DEF Waits

LEMMA LongerQueue ==
    ASSUME WriterInv, [Next]_vars, NEW t \in Waiters, Kept(t), Len(queue) \in Nat,
           Len(queue') = Len(queue) + 1, ~MarkerOf(queue'[Len(queue) + 1], t),
           \A i \in 1..Len(queue) : queue'[i] = queue[i]
    PROVE  Waits(t)'
<1>0. OneMarker(t) /\ Awaited(t) /\ Preceded(t) /\ Settled(t)
  BY DEF WriterInv, Waited
<1>1. \A i \in 1..Len(queue') : MarkerOf(queue'[i], t) => i \in 1..Len(queue) /\ MarkerOf(queue[i], t)
  <2> SUFFICES ASSUME NEW i \in 1..Len(queue'), MarkerOf(queue'[i], t)
               PROVE  i \in 1..Len(queue) /\ MarkerOf(queue[i], t)
    OBVIOUS
  <2>1. i # Len(queue) + 1
    OBVIOUS
  <2>2. i \in 1..Len(queue)
    BY <2>1
  <2> QED  BY <2>2
<1>2. OneMarker(t)' /\ Awaited(t)'
  BY <1>0, <1>1, Zenon DEF OneMarker, Awaited, Kept
<1>3. Settled(t)'
  BY <1>0, OverGrows DEF Settled, Kept
<1>4. Preceded(t)'
  <2> SUFFICES ASSUME NEW i \in 1..Len(queue'), MarkerOf(queue'[i], t), NEW l \in ahead'[t]
               PROVE  \/ l \in Over' \cup writing'
                      \/ \E j \in 1..Len(queue') : j < i /\ queue'[j] = l
    BY DEF Preceded
  <2>1. i \in 1..Len(queue) /\ MarkerOf(queue[i], t) /\ l \in ahead[t]
    BY <1>1 DEF Kept
  <2>2. CASE l \in Over \cup writing
    BY <2>2, OverGrows
  <2>3. CASE \E j \in 1..Len(queue) : j < i /\ queue[j] = l
    <3>1. PICK j \in 1..Len(queue) : j < i /\ queue[j] = l
      BY <2>3
    <3>2. j \in 1..Len(queue') /\ queue'[j] = l
      BY <3>1
    <3> QED  BY <3>1, <3>2
  <2> QED  BY <1>0, <2>1, <2>2, <2>3 DEF Preceded
<1> QED  BY <1>2, <1>3, <1>4 DEF Waits

(* The head is gone: a line of it is in the writer's hands now, or given up. *)
LEMMA ShorterQueue ==
    ASSUME WriterInv, [Next]_vars, NEW t \in Waiters, Popped,
           pc'[t] = pc[t], ahead'[t] = ahead[t],
           t \in done' <=> t \in done \/ (MarkerOf(queue[1], t) /\ t \in done'),
           MarkerOf(queue[1], t) /\ t \in done' => writing = {},
           Gone \subseteq Over' \cup writing'
    PROVE  Waits(t)'
<1>0. OneMarker(t) /\ Awaited(t) /\ Preceded(t) /\ Settled(t) /\ ahead[t] \subseteq Lines
  BY DEF WriterInv, Waited, TypeOK
<1>1. /\ Len(queue) \in Nat \ {0} /\ Len(queue') = Len(queue) - 1 /\ 1 \in 1..Len(queue)
      /\ \A i \in 1..Len(queue') : queue'[i] = queue[i + 1] /\ i + 1 \in 1..Len(queue) /\ i + 1 # 1
  BY DEF Popped
<1>2. OneMarker(t)'
  <2> SUFFICES ASSUME NEW i \in 1..Len(queue'), NEW j \in 1..Len(queue'),
                      MarkerOf(queue'[i], t), MarkerOf(queue'[j], t)
               PROVE  i = j
    BY DEF OneMarker
  <2>1. i + 1 = j + 1
    BY <1>0, <1>1 DEF OneMarker
  <2> QED  BY <1>1, <2>1
<1>3. Awaited(t)'
  <2> SUFFICES ASSUME NEW i \in 1..Len(queue'), MarkerOf(queue'[i], t)
               PROVE  pc'[t] \in Waiting /\ t \notin done'
    BY DEF Awaited
  <2>1. MarkerOf(queue[i + 1], t) /\ i + 1 \in 1..Len(queue) /\ i + 1 # 1
    BY <1>1
  <2>2. ~MarkerOf(queue[1], t)
    BY <1>0, <1>1, <2>1 DEF OneMarker
  <2>3. pc[t] \in Waiting /\ t \notin done
    BY <1>0, <2>1 DEF Awaited
  <2> QED  BY <2>2, <2>3
<1>4. Preceded(t)'
  <2> SUFFICES ASSUME NEW i \in 1..Len(queue'), MarkerOf(queue'[i], t), NEW l \in ahead'[t]
               PROVE  \/ l \in Over' \cup writing'
                      \/ \E j \in 1..Len(queue') : j < i /\ queue'[j] = l
    BY DEF Preceded
  <2>1. i + 1 \in 1..Len(queue) /\ MarkerOf(queue[i + 1], t) /\ l \in ahead[t] /\ l \in Lines
    BY <1>0, <1>1
  <2>2. CASE l \in Over \cup writing
    BY <2>2, OverGrows
  <2>3. CASE \E j \in 1..Len(queue) : j < i + 1 /\ queue[j] = l
    <3>1. PICK j \in 1..Len(queue) : j < i + 1 /\ queue[j] = l
      BY <2>3
    <3>2. CASE j = 1
      BY <2>1, <3>1, <3>2 DEF Gone
    <3>3. CASE j # 1
      <4>1. j - 1 \in 1..Len(queue') /\ (j - 1) + 1 = j /\ j - 1 < i
        BY <1>1, <3>1, <3>3
      <4>2. queue'[j - 1] = l
        BY <1>1, <3>1, <4>1
      <4> QED  BY <4>1, <4>2
    <3> QED  BY <3>2, <3>3
  <2> QED  BY <1>0, <2>1, <2>2, <2>3 DEF Preceded
<1>5. Settled(t)'
  <2>1. CASE t \in done
    BY <1>0, <2>1, OverGrows DEF Settled
  <2>2. CASE MarkerOf(queue[1], t) /\ t \in done'
    <3>1. pc[t] \in Waiting /\ writing = {}
      BY <1>0, <1>1, <2>2 DEF Awaited
    <3>2. \A j \in 1..Len(queue) : ~(j < 1)
      BY <1>1
    <3>3. ahead[t] \subseteq Over
      BY <1>0, <1>1, <2>2, <3>1, <3>2 DEF Preceded
    <3> QED  BY <3>1, <3>3, OverGrows DEF Settled
  <2> QED  BY <2>1, <2>2 DEF Settled
<1> QED  BY <1>2, <1>3, <1>4, <1>5 DEF Waits

(* A waiter with no marker left, whatever becomes of the others'. *)
LEMMA NoMarker ==
    ASSUME NEW t \in Waiters, t \notin done', \A i \in 1..Len(queue') : ~MarkerOf(queue'[i], t)
    PROVE  Waits(t)'
  BY DEF Waits, OneMarker, Awaited, Preceded, Settled

(* Another waiter leaves its marker. *)
LEMMA DesertedQueue ==
    ASSUME WriterInv, [Next]_vars, NEW t \in Waiters, NEW u \in Waiters, t # u, Deserted(u), Kept(t)
    PROVE  Waits(t)'
<1>0. OneMarker(t) /\ Awaited(t) /\ Preceded(t) /\ Settled(t) /\ ahead[t] \subseteq Lines
  BY DEF WriterInv, Waited, TypeOK
<1>1. Len(queue') = Len(queue) /\ \A i \in 1..Len(queue) : MarkerOf(queue'[i], t) <=> MarkerOf(queue[i], t)
  BY DEF Deserted
<1>2. \A i \in 1..Len(queue) : queue[i] \in Lines => queue'[i] = queue[i]
  BY DEF Deserted
<1>3. OneMarker(t)' /\ Awaited(t)'
  BY <1>0, <1>1, Zenon DEF OneMarker, Awaited, Kept
<1>4. Settled(t)'
  BY <1>0, OverGrows DEF Settled, Kept
<1>5. Preceded(t)'
  <2> SUFFICES ASSUME NEW i \in 1..Len(queue'), MarkerOf(queue'[i], t), NEW l \in ahead'[t]
               PROVE  \/ l \in Over' \cup writing'
                      \/ \E j \in 1..Len(queue') : j < i /\ queue'[j] = l
    BY DEF Preceded
  <2>1. i \in 1..Len(queue) /\ MarkerOf(queue[i], t) /\ l \in ahead[t] /\ l \in Lines
    BY <1>0, <1>1 DEF Kept
  <2>2. CASE l \in Over \cup writing
    BY <2>2, OverGrows
  <2>3. CASE \E j \in 1..Len(queue) : j < i /\ queue[j] = l
    BY <1>1, <1>2, <2>1, <2>3
  <2> QED  BY <1>0, <2>1, <2>2, <2>3 DEF Preceded
<1> QED  BY <1>3, <1>4, <1>5 DEF Waits

(* A waiter queues its marker behind everything there is. *)
LEMMA OwnMarker ==
    ASSUME WriterInv, NEW t \in Waiters, Marks(t)
    PROVE  Waits(t)'
<1>0. OneMarker(t) /\ Awaited(t) /\ Preceded(t) /\ Settled(t)
  BY DEF WriterInv, Waited
<1>1. /\ pc[t] \notin Waiting /\ pc'[t] \in Waiting /\ done' = done
      /\ ahead'[t] = Ahead /\ UNCHANGED <<writing, written, evicted>>
  BY DEF Marks, WriterInv, TypeOK
<1>2. t \notin done /\ \A i \in 1..Len(queue) : ~MarkerOf(queue[i], t)
  BY <1>0, <1>1 DEF Settled, Awaited
<1>3. /\ Len(queue) \in Nat /\ Len(queue') = Len(queue) + 1
      /\ \A i \in 1..Len(queue) : queue'[i] = queue[i]
  BY MarkIs
<1>4. \A i \in 1..Len(queue') : MarkerOf(queue'[i], t) => i = Len(queue) + 1
  <2> SUFFICES ASSUME NEW i \in 1..Len(queue'), i # Len(queue) + 1
               PROVE  ~MarkerOf(queue'[i], t)
    OBVIOUS
  <2>1. i \in 1..Len(queue)
    BY <1>3
  <2> QED  BY <1>2, <1>3, <2>1
<1>5. OneMarker(t)' /\ Awaited(t)' /\ Settled(t)'
  BY <1>1, <1>2, <1>4 DEF OneMarker, Awaited, Settled
<1>6. Preceded(t)'
  <2> SUFFICES ASSUME NEW i \in 1..Len(queue'), MarkerOf(queue'[i], t), NEW l \in ahead'[t]
               PROVE  \/ l \in Over' \cup writing'
                      \/ \E j \in 1..Len(queue') : j < i /\ queue'[j] = l
    BY DEF Preceded
  <2>1. i = Len(queue) + 1 /\ l \in Ahead
    BY <1>1, <1>4
  <2>2. CASE l \in writing
    BY <1>1, <2>2
  <2>3. CASE l \in Elems(queue)
    <3>1. PICK j \in 1..Len(queue) : queue[j] = l
      BY <2>3 DEF Elems
    <3>2. j \in 1..Len(queue') /\ j < i /\ queue'[j] = l
      BY <1>3, <2>1, <3>1
    <3> QED  BY <3>2
  <2> QED  BY <2>1, <2>2, <2>3 DEF Ahead
<1> QED  BY <1>5, <1>6 DEF Waits

LEMMA WaitedStep ==
    ASSUME WriterInv, [Next]_vars
    PROVE  Waited'
<1> SUFFICES ASSUME NEW t \in Waiters PROVE Waits(t)'
  BY DEF Waited, Waits
<1>0. TypeOK /\ OneMarker(t) /\ Awaited(t) /\ ahead \in [Waiters -> SUBSET Lines]
  BY DEF WriterInv, Waited, TypeOK
<1>1. ASSUME Quiet PROVE Waits(t)'
  <2>1. queue' = queue /\ done' = done /\ ahead' = ahead /\ (pc[t] \in Waiting => pc'[t] = pc[t])
    BY <1>1 DEF Quiet, Still
  <2>2. CASE pc[t] \in Waiting
    BY <2>1, <2>2, SameQueue DEF Kept
  <2>3. CASE pc[t] \notin Waiting
    <3>1. t \notin done
      BY <2>3 DEF WriterInv, Waited, Settled
    <3> QED  BY <1>0, <2>1, <2>3, <3>1, NoMarker DEF Awaited
  <2> QED  BY <2>2, <2>3
<1>2. ASSUME NEW u \in Waiters, Returns(u) PROVE Waits(t)'
  <2>1. queue' = queue /\ u \in done /\ done' = done \ {u} /\ ahead' = [ahead EXCEPT ![u] = {}]
    BY <1>2 DEF Returns, Still
  <2>2. CASE t = u
    BY <1>0, <2>1, <2>2, NoMarker DEF Awaited
  <2>3. CASE t # u
    BY <1>0, <1>2, <2>1, <2>3, SameQueue DEF Returns, Kept
  <2> QED  BY <2>2, <2>3
<1>3. ASSUME NEW u \in Waiters, Marks(u) PROVE Waits(t)'
  <2>1. CASE t = u
    BY <1>3, <2>1, OwnMarker
  <2>2. CASE t # u
    <3>1. Kept(t)
      BY <1>0, <1>3, <2>2 DEF Marks, Kept
    <3> QED  BY <1>3, <2>2, <3>1, MarkIs, LongerQueue
  <2> QED  BY <2>1, <2>2
<1>4. ASSUME NEW u \in Waiters, Leaves(u) PROVE Waits(t)'
  <2>1. Deserted(u) /\ done' = done \ {u} /\ ahead' = [ahead EXCEPT ![u] = {}]
    BY <1>0, <1>4, AbandonIs DEF Leaves, Abandon
  <2>2. CASE t = u
    <3>1. t \notin done' /\ \A i \in 1..Len(queue') : ~MarkerOf(queue'[i], t)
      BY <2>1, <2>2 DEF Deserted
    <3> QED  BY <3>1, NoMarker
  <2>3. CASE t # u
    <3>1. Kept(t)
      BY <1>0, <1>4, <2>1, <2>3 DEF Leaves, Kept
    <3> QED  BY <2>1, <2>3, <3>1, DesertedQueue
  <2> QED  BY <2>2, <2>3
<1>5. ASSUME NEW e \in Emitters, WriteQueue(e) PROVE Waits(t)'
  <2>1. t # e /\ t \in Threads
    BY Names
  <2>2. Kept(t)
    BY <1>0, <1>5, <2>1 DEF WriteQueue, Kept, TypeOK
  <2>3. ~MarkerOf(queue'[Len(queue) + 1], t)
    BY <1>5, LineIs, Names DEF MarkerOf
  <2> QED  BY <1>5, <2>2, <2>3, LineIs, LongerQueue
<1>6. ASSUME NEW e \in Emitters, Evict(e) PROVE Waits(t)'
  <2>1. pc'[t] = pc[t] /\ ahead' = ahead /\ done' = done /\ UNCHANGED <<writing, written>>
    BY <1>6, EvictIs DEF Evict
  <2>2. CASE queue' = queue
    BY <2>1, <2>2, SameQueue DEF Kept
  <2>3. CASE Popped /\ evicted' = evicted \cup Gone
    <3>1. Gone \subseteq Over'
      BY <2>3 DEF Over
    <3>2. MarkerOf(queue[1], t) => t \notin done
      BY <1>0, <2>3 DEF Awaited, Popped
    <3> QED  BY <2>1, <2>3, <3>1, <3>2, ShorterQueue
  <2> QED  BY <1>6, <2>2, <2>3, EvictIs
<1>7. ASSUME WorkerRecv PROVE Waits(t)'
  <2>1. /\ Popped /\ writing = {} /\ writing' = Gone /\ pc' = pc /\ ahead' = ahead
        /\ t \in done' <=> t \in done \/ (MarkerOf(queue[1], t) /\ t \in done')
    BY <1>7, RecvIs
  <2> QED  BY <2>1, ShorterQueue
<1>8. ASSUME WorkerWrite PROVE Waits(t)'
  BY <1>8, WriteIs, SameQueue DEF Kept
<1> QED  BY <1>0, <1>1, <1>2, <1>3, <1>4, <1>5, <1>6, <1>7, <1>8, StepCases

LEMMA Invariance == Spec => []WriterInv
<1>1. ASSUME WriterInv, [Next]_vars PROVE WriterInv'
  BY <1>1, TypeStep, BegunOnceStep, PlacedStep, OrderedStep, CountedStep, WaitedStep DEF WriterInv
<1> QED  BY Initially, <1>1, PTL DEF Spec

----------------------------------------------------------------------------
LEMMA InvKeepsLines == WriterInv => LinesKept
<1> SUFFICES ASSUME WriterInv PROVE LinesKept
  OBVIOUS
<1>1. TypeOK /\ Cardinality(evicted) <= dropped
  BY DEF WriterInv, Counted
<1>2. \A i, j \in 1..Len(written) : written[i] = written[j] => i = j
  BY Apart
<1>3. Elems(written) \cap evicted = {} /\ evicted \cap writing = {} /\ Over \subseteq Lines
  BY DEF WriterInv, Placed, Over, TypeOK, Elems
<1>4. (Elems(queue) \cup writing) \cap Over = {}
  BY <1>3, Apart DEF Over, QueuedLines
<1>5. Elems(queued) = (Elems(queue) \cap Lines) \cup writing \cup Over
  BY DEF WriterInv, Placed, QueuedLines
<1>6. OldestFirst
  <2>1. \A x : Position(x) = At(queued, x)
    BY DEF Position, At
  <2> QED  BY <2>1 DEF WriterInv, Ordered, Precede, Over, QueuedLines, OldestFirst
<1> QED  BY <1>1, <1>2, <1>3, <1>4, <1>5, <1>6 DEF LinesKept, LinesAccounted

(* The two takers of the queue, the writer goroutine and an emitter that finds it   *)
(* full (writer.go dropOne), never both have a line, lose none that the counter     *)
(* does not show, keep the order of the rest, and give up the oldest first.         *)
THEOREM KeepsLines == Spec => []LinesKept
  BY Invariance, InvKeepsLines, PTL

(* A flush or a stop that was answered covers every line that was ahead of its      *)
(* marker: the writer closes a marker's channel only after it wrote those lines, or *)
(* they were evicted.                                                               *)
THEOREM Covers == Spec => FlushCovers
<1>1. ASSUME WriterInv, [Next]_vars
      PROVE  [\A t \in Waiters : pc[t] \in {"await", "stopping"} /\ t \in done /\ pc'[t] # pc[t]
                 => ahead[t] \subseteq Over']_vars
  <2>1. \A t \in Waiters : t \in done => ahead[t] \subseteq Over'
    BY <1>1, OverGrows DEF WriterInv, Waited, Settled
  <2> QED  BY <2>1
<1> QED  BY <1>1, Invariance, PTL DEF Spec, FlushCovers
=============================================================================
