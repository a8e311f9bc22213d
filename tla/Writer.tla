------------------------------- MODULE Writer -------------------------------
(***************************************************************************)
(* The async event writer of a Logger (writer.go): a bounded channel of    *)
(* rendered lines and one goroutine that writes them to the output.        *)
(*                                                                         *)
(*   - emitting goroutines queue lines, and take the oldest item out of a  *)
(*     full queue rather than wait;                                        *)
(*   - flush queues a marker and waits until the goroutine reads it;       *)
(*   - stop, which runs once, flushes, queues a stop marker and waits.     *)
(*                                                                         *)
(* A channel operation is one step.  Lines and markers share the channel,  *)
(* so whatever takes an item may take either.  The sync form has no queue  *)
(* and no goroutine, and is left out.                                      *)
(***************************************************************************)
EXTENDS Naturals, Sequences, FiniteSets

CONSTANTS Emitters,    \* goroutines that end events
          Flushers,    \* calls of Logger.Flush
          Closers,     \* calls of Logger.Close
          Patient,     \* the flushes and closes whose context never ends
          Nobody,      \* stands for a waiter that went away
          NLines,      \* how many lines are emitted
          Size         \* the capacity of the queue

Waiters == Flushers \cup Closers
Threads == Emitters \cup Waiters

ASSUME WriterAssumption ==
    /\ Size \in Nat \ {0} /\ NLines \in Nat
    /\ Patient \subseteq Waiters
    /\ Emitters \cap Waiters = {}
    /\ Flushers \cap Closers = {}
    /\ Nobody \notin Threads

(* The rendered lines: a line is named by when its write begins. *)
Lines == {"line"} \X (1..NLines)

(* A writeItem that is no line: a flush or a stop marker and who waits for it. *)
Marker(kind, t) == <<kind, t>>
Markers == {"flush", "stop"} \X (Waiters \cup {Nobody})

VARIABLES
    queue,      \* the channel: lines and markers, oldest first
    worker,     \* the writer goroutine: "recv", "write", "exited"
    writing,    \* the line it has taken and not written
    pc,         \* where each goroutine is
    line,       \* the line each emitter is queueing
    done,       \* the waiters whose marker was read
    once,       \* closeOnce: "free", "running", "ran"
    stopped,    \* the stopped flag
    dropped     \* the dropped counter

(* History: the lines not emitted yet, those queued in order, those written in  *)
(* order, those evicted, and what was ahead of each waiter's marker.            *)
VARIABLES fresh, queued, written, evicted, ahead

state   == <<queue, worker, writing, pc, line, done, once, stopped, dropped>>
history == <<fresh, queued, written, evicted, ahead>>
vars    == <<state, history>>

Elems(q) == {q[i] : i \in 1..Len(q)}
RoomForOne == Len(queue) <= Size                         \* mutant: one too many
Room == Len(queue) < Size
Over     == Elems(written) \cup evicted     \* the lines the writer is done with

Init ==
    /\ queue = <<>> /\ worker = "recv" /\ writing = {}
    /\ pc = [t \in Threads |-> "idle"]
    /\ line = [e \in Emitters |-> {}]
    /\ done = {} /\ once = "free" /\ stopped = FALSE /\ dropped = 0
    /\ fresh = Lines /\ queued = <<>> /\ written = <<>> /\ evicted = {}
    /\ ahead = [t \in Waiters |-> {}]

----------------------------------------------------------------------------
(* write *)

(* A stopped writer lets the line go without a word. *)
WriteStart(e, l) ==
    /\ pc[e] = "idle" /\ l \in fresh /\ \A m \in fresh : l[2] <= m[2]
    /\ fresh' = fresh \ {l}
    /\ IF stopped
       THEN UNCHANGED <<pc, line>>
       ELSE /\ pc' = [pc EXCEPT ![e] = "write"]
            /\ line' = [line EXCEPT ![e] = {l}]
    /\ UNCHANGED <<queue, worker, writing, done, once, stopped, dropped,
                   queued, written, evicted, ahead>>

WriteQueue(e) ==
    /\ pc[e] = "write" /\ Room
    /\ \E l \in line[e] : /\ queue' = Append(queue, l)
                          /\ queued' = Append(queued, l)
    /\ line' = [line EXCEPT ![e] = {}]
    /\ pc' = [pc EXCEPT ![e] = "idle"]
    /\ UNCHANGED <<worker, writing, done, once, stopped, dropped,
                   fresh, written, evicted, ahead>>

WriteFull(e) ==
    /\ pc[e] = "write" /\ ~Room
    /\ pc' = [pc EXCEPT ![e] = "evict"]
    /\ UNCHANGED <<queue, worker, writing, line, done, once, stopped, dropped, history>>

(* Take the oldest item out, line or marker, and count it (dropOne). *)
Newest  == Len(queue)                                    \* mutant: the newest goes
Oldest  == 1
Peeked(i)  == queue                                      \* mutant: counted, not taken
Without(i) == [j \in 1..Len(queue) - 1 |-> queue[IF j < i THEN j ELSE j + 1]]
EvictNever(e) == /\ pc[e] = "evict"                      \* mutant: waits for room
                 /\ Room
                 /\ pc' = [pc EXCEPT ![e] = "write"]
                 /\ UNCHANGED <<queue, worker, writing, line, done, once, stopped,
                                dropped, history>>
Evict(e) ==
    /\ pc[e] = "evict"
    /\ IF queue = <<>>
       THEN UNCHANGED <<queue, dropped, evicted>>
       ELSE /\ queue' = Without(Oldest)
            /\ dropped' = dropped + 1
            /\ evicted' = evicted \cup ({queue[Oldest]} \cap Lines)
    /\ pc' = [pc EXCEPT ![e] = "write"]
    /\ UNCHANGED <<worker, writing, line, done, once, stopped,
                   fresh, queued, written, ahead>>

----------------------------------------------------------------------------
(* The writer goroutine *)

(* It closes a marker's channel, and exits on a stop marker. *)
Stops(item) == item \in Markers /\ item[1] = "stop"
WorkerRecv ==
    /\ worker = "recv" /\ queue # <<>>
    /\ queue' = Tail(queue)
    /\ LET item == Head(queue) IN
       IF item \in Lines
       THEN /\ worker' = "write" /\ writing' = {item}
            /\ UNCHANGED done
       ELSE /\ worker' = IF Stops(item) THEN "exited" ELSE "recv"
            /\ done' = done \cup ({item[2]} \ {Nobody})
            /\ UNCHANGED writing
    /\ UNCHANGED <<pc, line, once, stopped, dropped, history>>

(* out.Write returns; an error is reported and changes nothing here. *)
WorkerWrite ==
    /\ worker = "write"
    /\ worker' = "recv"
    /\ \E l \in writing : written' = Append(written, l)
    /\ writing' = {}
    /\ UNCHANGED <<queue, pc, line, done, once, stopped, dropped,
                   fresh, queued, evicted, ahead>>

----------------------------------------------------------------------------
(* flush, called by Flush and by stop *)

Ahead == (Elems(queue) \cap Lines) \cup writing

(* What follows a flush: its caller returns, or stop goes on. *)
After(t) == IF t \in Closers THEN "stop" ELSE "ended"

(* flush of a stopped writer returns at once. *)
FlushStart(f) ==
    /\ pc[f] = "idle"
    /\ pc' = [pc EXCEPT ![f] = IF stopped THEN "ended" ELSE "flush"]
    /\ UNCHANGED <<queue, worker, writing, line, done, once, stopped, dropped, history>>

(* Mutant: an empty queue needs no marker. *)
FlushQueueUnlessEmpty(t) ==
    /\ pc[t] = "flush" /\ Room
    /\ queue' = IF queue = <<>> THEN queue ELSE Append(queue, Marker("flush", t))
    /\ done' = IF queue = <<>> THEN done \cup {t} ELSE done
    /\ ahead' = [ahead EXCEPT ![t] = Ahead]
    /\ pc' = [pc EXCEPT ![t] = "await"]
    /\ UNCHANGED <<worker, writing, line, once, stopped, dropped,
                   fresh, queued, written, evicted>>
FlushQueue(t) ==
    /\ pc[t] = "flush" /\ Room
    /\ queue' = Append(queue, Marker("flush", t))
    /\ ahead' = [ahead EXCEPT ![t] = Ahead]
    /\ pc' = [pc EXCEPT ![t] = "await"]
    /\ UNCHANGED <<worker, writing, line, done, once, stopped, dropped,
                   fresh, queued, written, evicted>>

FlushDone(t) ==
    /\ pc[t] = "await" /\ t \in done
    /\ done' = done \ {t}
    /\ ahead' = [ahead EXCEPT ![t] = {}]
    /\ pc' = [pc EXCEPT ![t] = After(t)]
    /\ UNCHANGED <<queue, worker, writing, line, once, stopped, dropped,
                   fresh, queued, written, evicted>>

(* The waiter goes; its marker stays in the queue and wakes nobody. *)
Abandon(t) ==
    /\ queue' = [i \in 1..Len(queue) |->
                    IF queue[i] \in Markers /\ queue[i][2] = t
                    THEN Marker(queue[i][1], Nobody) ELSE queue[i]]
    /\ done' = done \ {t}
    /\ ahead' = [ahead EXCEPT ![t] = {}]

FlushTimeout(t) ==
    /\ pc[t] \in {"flush", "await"} /\ t \notin Patient
    /\ Abandon(t)
    /\ pc' = [pc EXCEPT ![t] = After(t)]
    /\ UNCHANGED <<worker, writing, line, once, stopped, dropped,
                   fresh, queued, written, evicted>>

----------------------------------------------------------------------------
(* stop, under closeOnce: a second caller waits for the first, whatever its context *)

StopStart(c) ==
    /\ pc[c] = "idle" /\ once = "free"
    /\ once' = "running"
    /\ pc' = [pc EXCEPT ![c] = "flush"]
    /\ UNCHANGED <<queue, worker, writing, line, done, stopped, dropped, history>>

StopBehind(c) ==
    /\ pc[c] = "idle" /\ once = "running"
    /\ pc' = [pc EXCEPT ![c] = "once"]
    /\ UNCHANGED <<queue, worker, writing, line, done, once, stopped, dropped, history>>

StopFollows(c) ==
    /\ pc[c] = "once" /\ once = "ran"
    /\ pc' = [pc EXCEPT ![c] = "ended"]
    /\ UNCHANGED <<queue, worker, writing, line, done, once, stopped, dropped, history>>

StopQueue(c) ==
    /\ pc[c] = "stop" /\ Room
    /\ queue' = Append(queue, Marker("stop", c))
    /\ ahead' = [ahead EXCEPT ![c] = Ahead]
    /\ pc' = [pc EXCEPT ![c] = "stopping"]
    /\ UNCHANGED <<worker, writing, line, done, once, stopped, dropped,
                   fresh, queued, written, evicted>>

StopDone(c) ==
    /\ pc[c] = "stopping" /\ c \in done
    /\ stopped' = TRUE
    /\ once' = "ran"
    /\ done' = done \ {c}
    /\ ahead' = [ahead EXCEPT ![c] = {}]
    /\ pc' = [pc EXCEPT ![c] = "ended"]
    /\ UNCHANGED <<queue, worker, writing, line, dropped, fresh, queued, written, evicted>>

(* closeOnce has run, though the writer did not stop. *)
StopTimeout(c) ==
    /\ pc[c] \in {"stop", "stopping"} /\ c \notin Patient
    /\ Abandon(c)
    /\ once' = "ran"
    /\ pc' = [pc EXCEPT ![c] = "ended"]
    /\ UNCHANGED <<worker, writing, line, stopped, dropped, fresh, queued, written, evicted>>

----------------------------------------------------------------------------
Write(e) == \/ \E l \in Lines : WriteStart(e, l)
            \/ WriteQueue(e) \/ WriteFull(e) \/ Evict(e)
Flush(t) == FlushQueue(t) \/ FlushDone(t) \/ FlushTimeout(t)
Stop(c)  == \/ StopStart(c) \/ StopBehind(c) \/ StopFollows(c)
            \/ StopQueue(c) \/ StopDone(c) \/ StopTimeout(c)
Run      == WorkerRecv \/ WorkerWrite

Next == \/ \E e \in Emitters : Write(e)
        \/ \E f \in Flushers : FlushStart(f)
        \/ \E t \in Waiters : Flush(t)
        \/ \E c \in Closers : Stop(c)
        \/ Run

Spec == Init /\ [][Next]_vars

(* An emitting goroutine that can run does; the output may block for good, and no *)
(* caller has to flush or close.                                                  *)
StuckSpec == Spec /\ \A e \in Emitters : WF_vars(WriteQueue(e) \/ WriteFull(e) \/ Evict(e))

----------------------------------------------------------------------------
(* Properties *)

TypeOK ==
    /\ queue \in Seq(Lines \cup Markers) /\ Len(queue) <= Size
    /\ worker \in {"recv", "write", "exited"} /\ writing \subseteq Lines
    /\ pc \in [Threads -> {"idle", "write", "evict", "flush", "await", "once",
                           "stop", "stopping", "ended"}]
    /\ line \in [Emitters -> SUBSET Lines]
    /\ done \subseteq Waiters
    /\ once \in {"free", "running", "ran"} /\ stopped \in BOOLEAN /\ dropped \in Nat
    /\ fresh \subseteq Lines /\ evicted \subseteq Lines
    /\ queued \in Seq(Lines) /\ written \in Seq(Lines)
    /\ ahead \in [Waiters -> SUBSET Lines]

(* A queued line is still queued, being written, written once, or evicted: the  *)
(* two takers of the queue never both get it, and none is lost between them     *)
(* without the dropped counter.                                                 *)
LinesAccounted ==
    /\ TypeOK
    /\ Cardinality(evicted) <= dropped
    /\ \A i, j \in 1..Len(written) : written[i] = written[j] => i = j
    /\ Elems(written) \cap evicted = {}
    /\ (Elems(queue) \cup writing) \cap Over = {}
    /\ Elems(queued) = (Elems(queue) \cap Lines) \cup writing \cup Over

(* Lines reach the output in the order they were queued, and "a fresh line is   *)
(* worth more than a stale one": no line older than an evicted one is queued.   *)
Position(l) == CHOOSE i \in 1..Len(queued) : queued[i] = l
OldestFirst ==
    /\ \A i, j \in 1..Len(written) : i < j => Position(written[i]) < Position(written[j])
    /\ \A l \in evicted : \A m \in Elems(queue) \cap Lines : Position(l) < Position(m)

(* writer.go write: both of them, while emitters and the writer take from one queue.   *)
LinesKept == LinesAccounted /\ OldestFirst

(* A flush, or a stop, that returns without its deadline leaves none of the lines  *)
(* that were queued before its marker, or in the goroutine's hands, unwritten.     *)
FlushCovers ==
    [][\A t \in Waiters : pc[t] \in {"await", "stopping"} /\ t \in done /\ pc'[t] # pc[t]
          => ahead[t] \subseteq Over']_vars

(* The emitting goroutine never waits for the output (gate G3): a write ends even *)
(* when the output blocks for good.                                               *)
WriteReturns == \A e \in Emitters : pc[e] = "write" ~> pc[e] = "idle"

----------------------------------------------------------------------------
(* What the comments say, and the code does not keep *)

(* "The writer goroutine reaches it only once the queue is empty": no line is left *)
(* behind the stop marker.                                                         *)
StopMarkerLast == worker = "exited" => Elems(queue) \cap Lines = {}

(* dropOne "counts one line the queue could not hold": it counts lines only. *)
DroppedCountsLines == dropped <= Cardinality(evicted)
=============================================================================
