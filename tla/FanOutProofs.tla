----------------------------- MODULE FanOutProofs -----------------------------
(***************************************************************************)
(* What holds of FanOut for every number of drains, every queue length and *)
(* any set of calls.                                                       *)
(***************************************************************************)
EXTENDS FanOut, FiniteSetTheorems, TLAPS

----------------------------------------------------------------------------
(* Queues: sequences without repetition, and the sets they hold. *)

Elems(q)     == {q[i] : i \in 1..Len(q)}
NoRepeats(q) == \A i, j \in 1..Len(q) : q[i] = q[j] => i = j

(* Evicting the head removes exactly that event. *)
LEMMA TailElems ==
    ASSUME NEW S, NEW q \in Seq(S), q # <<>>, NoRepeats(q)
    PROVE  /\ Tail(q) \in Seq(S) /\ Len(Tail(q)) = Len(q) - 1
           /\ Head(q) \in Elems(q) /\ Head(q) \in S
           /\ Elems(Tail(q)) = Elems(q) \ {Head(q)}
           /\ NoRepeats(Tail(q))
<1>1. /\ Tail(q) \in Seq(S) /\ Len(Tail(q)) = Len(q) - 1 /\ Len(q) \in Nat /\ Len(q) > 0
      /\ \A i \in 1..Len(Tail(q)) : Tail(q)[i] = q[i + 1]
      /\ Head(q) = q[1]
  OBVIOUS
<1>2. Head(q) \in Elems(q) /\ Head(q) \in S
  BY <1>1 DEF Elems
<1>3. NoRepeats(Tail(q))
  BY <1>1 DEF NoRepeats
<1>4. ASSUME NEW x PROVE x \in Elems(Tail(q)) <=> x \in Elems(q) \ {Head(q)}
  <2>1. ASSUME x \in Elems(Tail(q)) PROVE x \in Elems(q) \ {Head(q)}
    <3>1. PICK i \in 1..Len(Tail(q)) : x = Tail(q)[i]
      BY <2>1 DEF Elems
    <3>2. i + 1 \in 1..Len(q) /\ x = q[i + 1] /\ i + 1 # 1 /\ 1 \in 1..Len(q)
      BY <3>1, <1>1
    <3> QED  BY <3>2, <1>1 DEF Elems, NoRepeats
  <2>2. ASSUME x \in Elems(q), x # Head(q) PROVE x \in Elems(Tail(q))
    <3>1. PICK i \in 1..Len(q) : x = q[i]
      BY <2>2 DEF Elems
    <3>2. i - 1 \in 1..Len(Tail(q)) /\ Tail(q)[i - 1] = q[i]
      BY <3>1, <2>2, <1>1
    <3> QED  BY <3>1, <3>2 DEF Elems
  <2> QED  BY <2>1, <2>2
<1> QED  BY <1>1, <1>2, <1>3, <1>4

(* Queueing a new event adds exactly that event. *)
LEMMA AppendElems ==
    ASSUME NEW S, NEW q \in Seq(S), NEW e \in S, NoRepeats(q), e \notin Elems(q)
    PROVE  /\ Append(q, e) \in Seq(S) /\ Len(Append(q, e)) = Len(q) + 1
           /\ Elems(Append(q, e)) = Elems(q) \cup {e}
           /\ NoRepeats(Append(q, e))
<1>1. /\ Append(q, e) \in Seq(S) /\ Len(Append(q, e)) = Len(q) + 1 /\ Len(q) \in Nat
      /\ \A i \in 1..Len(q) : Append(q, e)[i] = q[i]
      /\ Append(q, e)[Len(q) + 1] = e
  OBVIOUS
<1>2. NoRepeats(Append(q, e))
  BY <1>1 DEF NoRepeats, Elems
<1>3. \A i \in 1..Len(q) + 1 : i \in 1..Len(q) \/ i = Len(q) + 1
  BY <1>1
<1>4. Elems(Append(q, e)) = Elems(q) \cup {e}
  BY <1>1, <1>3 DEF Elems
<1> QED  BY <1>1, <1>2, <1>4

----------------------------------------------------------------------------
(* The drains *)

(* A queue names an event once, and not the one in delivery. *)
OneCopy == \A d \in Drains : NoRepeats(queue[d]) /\ busy[d] \notin Elems(queue[d])

(* What a Send handed to a drain is in its hands, was delivered or was dropped; and *)
(* a drain has nothing from a Send that has not come to it.                         *)
Reached == \A d \in Drains : \A e \in Events :
               next[e] > d <=> e \in InHand(d) \cup got[d] \cup dropped[d]

(* Where a call can be, and which drain it turns to there. *)
SendPlaces == \A e \in Events : /\ pc[e] \in {"new", "queue", "done"}
                                /\ pc[e] # "done" => next[e] <= N
CallPlaces ==
    \A c \in Calls : /\ pc[c] # "queue"
                     /\ pc[c] \in {"wait", "flush"} => c \in Flushers
                     /\ pc[c] \in {"idle", "close"} => c \in Closers
                     /\ pc[c] \in {"flush", "close"} => next[c] <= N
                     /\ pc[c] \notin {"flush", "close", "done"} => next[c] = 1

(* The events of before were handed to every drain, and a Flush that saw pending at *)
(* zero saw them delivered or dropped.                                              *)
Past    == \A c \in Calls : \A e \in before[c] : next[e] > N
Covered == \A c \in Flushers : pc[c] = "flush" =>
               \A d \in Drains : before[c] \subseteq got[d] \cup dropped[d]

(* closed is set with no Send in flight, workers leave after it with nothing in hand, *)
(* and drains are closed after them unless the ctx of a Close ended.                  *)
Sealed  == closed => Readers = {}
Spent   == \A d \in Drains : /\ worker[d] # "run" => closed
                             /\ worker[d] = "done" => queue[d] = <<>> /\ busy[d] = None
Ended   == (\E c \in Closers : pc[c] = "close") \/ shut # {} =>
               WorkersDone \/ expired \cap Closers # {}

FanInv == /\ TypeOK /\ IsFiniteSet(Held)
          /\ OneCopy /\ Reached /\ SendPlaces /\ CallPlaces /\ Past /\ Covered
          /\ Sealed /\ Spent /\ Ended

----------------------------------------------------------------------------
LEMMA Numbers ==
    /\ N \in Nat \ {0} /\ Cap \in Nat \ {0} /\ Drains = 1..N /\ 1 \in Drains
    /\ Events \cap Calls = {} /\ None \notin Events
    /\ Flushers \subseteq Calls /\ Closers \subseteq Calls /\ Flushers \cap Closers = {}
    /\ MayHang \subseteq Drains
  BY FanOutAssumption DEF Drains, Calls

(* One step of the fan-out, action by action.  The proofs below split on it. *)
LEMMA StepCases ==
    ASSUME Next, NEW P,
           \A e \in Events : SendEnter(e) => P,
           \A e \in Events : SendQueue(e) => P,
           \A d \in Drains : Take(d) => P,
           \A d \in Drains : Deliver(d) => P,
           \A d \in Drains : WorkerStop(d) => P,
           \A d \in Drains : WorkerEnd(d) => P,
           \A c \in Calls : Begin(c) => P,
           \A c \in Calls : Expire(c) => P,
           \A c \in Calls : FlushLock(c) => P,
           \A c \in Calls : FlushIdle(c) => P,
           \A c \in Calls : FlushExpired(c) => P,
           \A c \in Calls : FlushDrain(c) => P,
           \A c \in Calls : CloseStop(c) => P,
           \A c \in Calls : CloseWait(c) => P,
           \A c \in Calls : CloseDrain(c) => P
    PROVE  P
  BY Zenon DEF Next, Send, Work, Flush, Close

----------------------------------------------------------------------------
(* What is in hand changes with a Send and a delivery only, by one event. *)

LEMMA InHandIs ==
    \A d \in Drains : /\ InHand(d) = {e \in Events : busy[d] = e \/ e \in Elems(queue[d])}
                      /\ InHand(d)' = {e \in Events : busy'[d] = e \/ e \in Elems(queue'[d])}
  BY DEF InHand, Queued, Elems

LEMMA SendHolds ==
    ASSUME FanInv, NEW e \in Events, SendQueue(e)
    PROVE  /\ next[e] \in Drains
           /\ \A d \in Drains \ {next[e]} : queue'[d] = queue[d] /\ dropped'[d] = dropped[d]
           /\ busy' = busy /\ got' = got /\ e \notin InHand(next[e])
           /\ next' = [next EXCEPT ![e] = next[e] + 1]
           /\ \/ /\ Elems(queue'[next[e]]) = Elems(queue[next[e]]) \cup {e}
                 /\ NoRepeats(queue'[next[e]]) /\ Len(queue'[next[e]]) <= Cap
                 /\ queue' \in [Drains -> Seq(Events)]
                 /\ dropped' = dropped /\ pending' = pending + 1
              \/ /\ queue' = queue /\ pending' = pending
                 /\ dropped' \in [Drains -> SUBSET Events]
                 /\ dropped'[next[e]] = dropped[next[e]] \cup {e}
<1> DEFINE d == next[e]
<1>1. d \in Drains /\ e \notin InHand(d) /\ e \in Events \cup Calls
  BY Numbers DEF FanInv, TypeOK, SendPlaces, Reached, SendQueue
<1>2. queue[d] \in Seq(Events) /\ NoRepeats(queue[d]) /\ e \notin Elems(queue[d])
  BY <1>1, InHandIs DEF FanInv, TypeOK, OneCopy
<1>3. CASE /\ Len(queue[d]) < Cap
           /\ queue' = [queue EXCEPT ![d] = Append(@, e)]
           /\ pending' = pending + 1 /\ UNCHANGED dropped
  <2>1. /\ Append(queue[d], e) \in Seq(Events) /\ Len(Append(queue[d], e)) = Len(queue[d]) + 1
        /\ Elems(Append(queue[d], e)) = Elems(queue[d]) \cup {e}
        /\ NoRepeats(Append(queue[d], e))
    BY <1>2, AppendElems
  <2>2. queue'[d] = Append(queue[d], e) /\ queue' \in [Drains -> Seq(Events)]
    BY <1>1, <1>3, <2>1 DEF FanInv, TypeOK
  <2>3. Len(queue'[d]) <= Cap
    BY <1>2, <1>3, <2>1, <2>2, Numbers
  <2> QED  BY <1>1, <1>3, <2>1, <2>2, <2>3 DEF SendQueue, FanInv, TypeOK
<1>4. CASE /\ dropped' = [dropped EXCEPT ![d] = @ \cup {e}]
           /\ pending' = DropCount(pending) /\ UNCHANGED queue
  BY <1>1, <1>4 DEF SendQueue, FanInv, TypeOK, DropCount
<1> QED  BY <1>3, <1>4 DEF SendQueue

LEMMA TakeHolds ==
    ASSUME FanInv, NEW d \in Drains, Take(d)
    PROVE  /\ busy'[d] = Head(queue[d]) /\ busy'[d] \in Events
           /\ busy' \in [Drains -> Events \cup {None}] /\ queue' \in [Drains -> Seq(Events)]
           /\ \A x \in Drains \ {d} : queue'[x] = queue[x] /\ busy'[x] = busy[x]
           /\ Elems(queue'[d]) = Elems(queue[d]) \ {busy'[d]} /\ busy'[d] \in Elems(queue[d])
           /\ NoRepeats(queue'[d]) /\ Len(queue'[d]) <= Cap
<1>1. queue[d] \in Seq(Events) /\ NoRepeats(queue[d]) /\ queue[d] # <<>> /\ Len(queue[d]) <= Cap
  BY DEF FanInv, TypeOK, OneCopy, Take
<1>2. /\ Tail(queue[d]) \in Seq(Events) /\ Len(Tail(queue[d])) = Len(queue[d]) - 1
      /\ Head(queue[d]) \in Elems(queue[d]) /\ Head(queue[d]) \in Events
      /\ Elems(Tail(queue[d])) = Elems(queue[d]) \ {Head(queue[d])}
      /\ NoRepeats(Tail(queue[d]))
  BY <1>1, TailElems
<1>3. Len(Tail(queue[d])) <= Cap
  BY <1>1, <1>2, Numbers
<1>4. /\ queue' = [queue EXCEPT ![d] = Tail(queue[d])] /\ busy' = [busy EXCEPT ![d] = Head(queue[d])]
      /\ queue \in [Drains -> Seq(Events)] /\ busy \in [Drains -> Events \cup {None}]
  BY DEF Take, FanInv, TypeOK
<1> QED  BY <1>2, <1>3, <1>4

(* The number of what is in hand. *)
Counted == IsFiniteSet(Held) /\ pending = Cardinality(Held)

LEMMA SameCount ==
    ASSUME Counted, UNCHANGED <<queue, busy, pending>>
    PROVE  Counted'
  BY DEF Counted, Held, InHand, Queued

LEMMA SendCount ==
    ASSUME FanInv, NEW e \in Events, SendQueue(e)
    PROVE  /\ Counted'
           /\ \A d \in Drains : \A x \in Events :
                 x \in InHand(d)' \cup dropped'[d]
                     <=> x \in InHand(d) \cup dropped[d] \/ (d = next[e] /\ x = e)
<1> DEFINE h == <<next[e], e>>
<1>1. IsFiniteSet(Held) /\ pending = Cardinality(Held)
  BY DEF FanInv, TypeOK
<1>2. CASE queue' = queue /\ pending' = pending
  <2>1. Counted'
    BY <1>1, <1>2, SendHolds, SameCount DEF Counted
  <2>2. \A d \in Drains : InHand(d)' = InHand(d)
    BY <1>2, SendHolds DEF InHand, Queued
  <2>3. dropped'[next[e]] = dropped[next[e]] \cup {e}
    BY <1>1, <1>2, SendHolds, FS_CardinalityType
  <2> QED  BY <2>1, <2>2, <2>3, SendHolds
<1>3. CASE /\ Elems(queue'[next[e]]) = Elems(queue[next[e]]) \cup {e} /\ pending' = pending + 1
           /\ dropped' = dropped
  <2>1. h \notin Held
    BY SendHolds DEF Held
  <2>2. \A d \in Drains : InHand(d)' = IF d = next[e] THEN InHand(d) \cup {e} ELSE InHand(d)
    <3> TAKE d \in Drains
    <3>1. /\ InHand(d) = {x \in Events : busy[d] = x \/ x \in Elems(queue[d])}
          /\ InHand(d)' = {x \in Events : busy[d] = x \/ x \in Elems(queue'[d])}
      BY InHandIs, SendHolds
    <3>2. CASE d = next[e]
      BY <1>3, <3>1, <3>2
    <3>3. CASE d # next[e]
      BY <3>1, <3>3, SendHolds
    <3> QED  BY <3>2, <3>3
  <2>3. Held' = Held \cup {h}
    BY <2>2, SendHolds DEF Held
  <2>4. Counted'
    BY <1>1, <1>3, <2>1, <2>3, FS_AddElement DEF Counted
  <2> QED  BY <1>3, <2>2, <2>4
<1> QED  BY <1>2, <1>3, SendHolds

LEMMA TakeCount ==
    ASSUME FanInv, NEW d \in Drains, Take(d)
    PROVE  Counted' /\ \A x \in Drains : InHand(x)' = InHand(x)
<1>1. \A x \in Drains : InHand(x)' = InHand(x)
  <2> TAKE x \in Drains
  <2>1. CASE x = d
    <3>1. busy[d] = None /\ None \notin Events
      BY Numbers DEF Take
    <3>2. /\ InHand(d) = {e \in Events : busy[d] = e \/ e \in Elems(queue[d])}
          /\ InHand(d)' = {e \in Events : busy'[d] = e \/ e \in Elems(queue'[d])}
      BY InHandIs
    <3>3. ASSUME NEW e \in Events
          PROVE  (busy[d] = e \/ e \in Elems(queue[d])) <=> (busy'[d] = e \/ e \in Elems(queue'[d]))
      BY <3>1, TakeHolds
    <3> QED  BY <2>1, <3>2, <3>3
  <2>2. CASE x # d
    BY <2>2, TakeHolds, InHandIs
  <2> QED  BY <2>1, <2>2
<1>2. Held' = Held /\ pending' = pending
  BY <1>1 DEF Held, Take
<1> QED  BY <1>1, <1>2 DEF Counted, FanInv, TypeOK

LEMMA DeliverHolds ==
    ASSUME FanInv, NEW d \in Drains, Deliver(d)
    PROVE  /\ busy[d] \in InHand(d) /\ busy[d] \in Events /\ Counted'
           /\ \A x \in Drains : InHand(x)' = IF x = d THEN InHand(x) \ {busy[d]} ELSE InHand(x)
<1> DEFINE h == <<d, busy[d]>>
<1>1. busy[d] \in Events /\ busy[d] \notin Elems(queue[d]) /\ None \notin Events
  BY Numbers DEF Deliver, FanInv, TypeOK, OneCopy
<1>2. /\ busy' = [busy EXCEPT ![d] = None] /\ queue' = queue /\ pending' = pending - 1
      /\ busy \in [Drains -> Events \cup {None}]
  BY DEF Deliver, FanInv, TypeOK
<1>3. busy[d] \in InHand(d)
  BY <1>1 DEF InHand
<1>4. \A x \in Drains : InHand(x)' = IF x = d THEN InHand(x) \ {busy[d]} ELSE InHand(x)
  BY <1>1, <1>2, InHandIs
<1>5. Held' = Held \ {h} /\ h \in Held
  BY <1>1, <1>3, <1>4 DEF Held
<1>6. IsFiniteSet(Held) /\ pending = Cardinality(Held)
  BY DEF FanInv, TypeOK
<1> QED  BY <1>1, <1>2, <1>3, <1>4, <1>5, <1>6, FS_RemoveElement DEF Counted

----------------------------------------------------------------------------
(* Types.  No call turns to a drain past N, since each ends with the last one. *)

LEMMA TypeInit == Init => TypeOK /\ IsFiniteSet(Held)
<1> SUFFICES ASSUME Init PROVE TypeOK /\ IsFiniteSet(Held)
  OBVIOUS
<1>1. \A d \in Drains : queue[d] = <<>> /\ Len(queue[d]) = 0 /\ busy[d] = None
  BY DEF Init
<1>2. Held = {}
  BY <1>1, Numbers DEF Held, InHand, Queued
<1>3. IsFiniteSet(Held) /\ pending = Cardinality(Held)
  BY <1>2, FS_EmptySet DEF Init
<1>4. queue \in [Drains -> Seq(Events)] /\ \A d \in Drains : Len(queue[d]) <= Cap
  <2>1. <<>> \in Seq(Events)
    OBVIOUS
  <2> QED  BY <1>1, <2>1, Numbers DEF Init
<1>5. /\ pc \in [Events \cup Calls -> {"new", "lock", "queue", "wait", "flush", "idle", "close", "done"}]
      /\ next \in [Events \cup Calls -> 1..N + 1] /\ busy \in [Drains -> Events \cup {None}]
      /\ worker \in [Drains -> {"run", "empty", "done"}] /\ closed \in BOOLEAN
  <2>1. 1 \in 1..N + 1
    BY Numbers
  <2>2. /\ pc = [c \in Events \cup Calls |-> "new"] /\ next = [c \in Events \cup Calls |-> 1]
        /\ busy = [d \in Drains |-> None] /\ worker = [d \in Drains |-> "run"] /\ closed = FALSE
    BY DEF Init
  <2> QED  BY <2>1, <2>2
<1>6. /\ hung \subseteq Drains /\ expired \subseteq Calls /\ shut \subseteq Drains
      /\ got \in [Drains -> SUBSET Events] /\ dropped \in [Drains -> SUBSET Events]
      /\ before \in [Calls -> SUBSET Events]
  <2>1. hung \in SUBSET MayHang /\ expired = {} /\ shut = {}
    BY DEF Init
  <2>2. got = [d \in Drains |-> {}] /\ dropped = [d \in Drains |-> {}] /\ before = [c \in Calls |-> {}]
    BY DEF Init
  <2> QED  BY <2>1, <2>2, Numbers
<1> QED  BY <1>3, <1>4, <1>5, <1>6 DEF TypeOK

LEMMA TypeStep == FanInv /\ [Next]_vars => TypeOK' /\ IsFiniteSet(Held)'
<1> SUFFICES ASSUME FanInv, [Next]_vars PROVE TypeOK' /\ Counted'
  BY DEF Counted
<1> USE Numbers
<1>0. Counted
  BY DEF Counted, FanInv, TypeOK
<1>1. CASE UNCHANGED vars
  <2>1. Counted'
    BY <1>0, <1>1, SameCount DEF vars, drains
  <2> QED  BY <1>1, <2>1 DEF FanInv, TypeOK, vars, drains, calls, Counted
<1>2. ASSUME NEW e \in Events, SendEnter(e) PROVE TypeOK' /\ Counted'
  <2>1. Counted'
    BY <1>0, <1>2, SameCount DEF SendEnter, drains
  <2> QED  BY <1>2, <2>1 DEF FanInv, TypeOK, SendEnter, At, drains, Counted
<1>3. ASSUME NEW e \in Events, SendQueue(e) PROVE TypeOK' /\ Counted'
  <2>1. Counted'
    BY <1>3, SendCount
  <2>2. queue' \in [Drains -> Seq(Events)] /\ dropped' \in [Drains -> SUBSET Events]
    BY <1>3, SendHolds DEF FanInv, TypeOK
  <2>3. \A d \in Drains : Len(queue'[d]) <= Cap
    BY <1>3, SendHolds DEF FanInv, TypeOK
  <2>4. next' \in [Events \cup Calls -> 1..N + 1]
    <3>1. next[e] + 1 \in 1..N + 1
      BY <1>3, SendHolds
    <3>2. next' = [next EXCEPT ![e] = next[e] + 1] /\ next \in [Events \cup Calls -> 1..N + 1]
      BY <1>3 DEF FanInv, TypeOK, SendQueue
    <3> QED  BY <3>1, <3>2
  <2>5. pc' \in [Events \cup Calls -> {"new", "lock", "queue", "wait", "flush", "idle", "close", "done"}]
    BY <1>3 DEF FanInv, TypeOK, SendQueue, At
  <2> QED  BY <1>3, <2>1, <2>2, <2>3, <2>4, <2>5 DEF FanInv, TypeOK, SendQueue, Counted
<1>4. ASSUME NEW d \in Drains, Take(d) PROVE TypeOK' /\ Counted'
  <2>1. Counted' /\ queue' \in [Drains -> Seq(Events)] /\ busy' \in [Drains -> Events \cup {None}]
    BY <1>4, TakeCount, TakeHolds
  <2>2. \A x \in Drains : Len(queue'[x]) <= Cap
    BY <1>4, TakeHolds DEF FanInv, TypeOK
  <2> QED  BY <1>4, <2>1, <2>2 DEF FanInv, TypeOK, Take, calls, Counted
<1>5. ASSUME NEW d \in Drains, Deliver(d) PROVE TypeOK' /\ Counted'
  <2>1. Counted' /\ busy[d] \in Events
    BY <1>5, DeliverHolds
  <2> QED  BY <1>5, <2>1 DEF FanInv, TypeOK, Deliver, calls, Counted
<1>6. ASSUME NEW d \in Drains, WorkerStop(d) \/ WorkerEnd(d) PROVE TypeOK' /\ Counted'
  <2>1. Counted'
    BY <1>0, <1>6, SameCount DEF WorkerStop, WorkerEnd
  <2> QED  BY <1>6, <2>1 DEF FanInv, TypeOK, WorkerStop, WorkerEnd, calls, Counted
<1>7. ASSUME NEW c \in Calls, Begin(c) PROVE TypeOK' /\ Counted'
  <2>1. Counted'
    BY <1>0, <1>7, SameCount DEF Begin, drains
  <2> QED  BY <1>7, <2>1 DEF FanInv, TypeOK, Begin, At, drains, Counted
<1>8. ASSUME NEW c \in Calls, Expire(c) PROVE TypeOK' /\ Counted'
  <2>1. Counted'
    BY <1>0, <1>8, SameCount DEF Expire, drains
  <2> QED  BY <1>8, <2>1 DEF FanInv, TypeOK, Expire, drains, Counted
<1>9. ASSUME NEW c \in Calls, FlushLock(c) \/ FlushIdle(c) \/ FlushExpired(c) PROVE TypeOK' /\ Counted'
  <2>1. Counted'
    BY <1>0, <1>9, SameCount DEF FlushLock, FlushIdle, FlushExpired, drains
  <2> QED  BY <1>9, <2>1 DEF FanInv, TypeOK, FlushLock, FlushIdle, FlushExpired, At, drains, Counted
<1>10. ASSUME NEW c \in Calls, FlushDrain(c) \/ CloseDrain(c) PROVE TypeOK' /\ Counted'
  <2>1. Counted'
    BY <1>0, <1>10, SameCount DEF FlushDrain, CloseDrain, drains
  <2>2. c \in Events \cup Calls /\ next[c] \in 1..N + 1 /\ next[c] <= N
    BY <1>10 DEF FanInv, TypeOK, CallPlaces, FlushDrain, CloseDrain
  <2>3. next[c] \in Drains /\ next[c] + 1 \in 1..N + 1
    BY <2>2
  <2>4. next' \in [Events \cup Calls -> 1..N + 1] /\ shut' \subseteq Drains
    <3>1. next' = [next EXCEPT ![c] = next[c] + 1] /\ next \in [Events \cup Calls -> 1..N + 1]
      BY <1>10 DEF FanInv, TypeOK, FlushDrain, CloseDrain
    <3>2. shut \subseteq Drains /\ shut' \in {shut, shut \cup {next[c]}}
      BY <1>10 DEF FanInv, TypeOK, FlushDrain, CloseDrain
    <3> QED  BY <2>3, <3>1, <3>2
  <2>5. pc' \in [Events \cup Calls -> {"new", "lock", "queue", "wait", "flush", "idle", "close", "done"}]
    BY <1>10 DEF FanInv, TypeOK, FlushDrain, CloseDrain, At
  <2> QED  BY <1>10, <2>1, <2>4, <2>5 DEF FanInv, TypeOK, FlushDrain, CloseDrain, drains, Counted
<1>11. ASSUME NEW c \in Calls, CloseStop(c) \/ CloseWait(c) PROVE TypeOK' /\ Counted'
  <2>1. Counted'
    BY <1>0, <1>11, SameCount DEF CloseStop, CloseWait, drains
  <2> QED  BY <1>11, <2>1 DEF FanInv, TypeOK, CloseStop, CloseWait, At, drains, Counted
<1> QED
  <2>1. CASE Next
    BY Zenon, <2>1, <1>2, <1>3, <1>4, <1>5, <1>6, <1>7, <1>8, <1>9, <1>10, <1>11
       DEF Next, Send, Work, Flush, Close
  <2> QED  BY <1>1, <2>1

----------------------------------------------------------------------------
(* The other parts of FanInv, one after the other. *)

LEMMA DrainSteps ==
    ASSUME [Next]_vars
    PROVE  \/ UNCHANGED drains
           \/ \E e \in Events : SendQueue(e)
           \/ \E d \in Drains : Take(d) \/ Deliver(d) \/ WorkerStop(d) \/ WorkerEnd(d)
<1>1. CASE UNCHANGED vars
  BY <1>1 DEF vars
<1>2. CASE Next
  BY <1>2 DEF Next, Send, Work, Flush, Close, SendEnter, Begin, Expire, FlushLock, FlushIdle,
              FlushExpired, FlushDrain, CloseStop, CloseWait, CloseDrain
<1> QED  BY <1>1, <1>2

LEMMA CallSteps ==
    ASSUME [Next]_vars
    PROVE  \/ UNCHANGED calls
           \/ \E e \in Events : SendEnter(e) \/ SendQueue(e)
           \/ \E c \in Calls : \/ Begin(c) \/ Expire(c) \/ FlushLock(c) \/ FlushIdle(c) \/ FlushExpired(c)
                              \/ FlushDrain(c) \/ CloseStop(c) \/ CloseWait(c) \/ CloseDrain(c)
<1>1. CASE UNCHANGED vars
  BY <1>1 DEF vars
<1>2. CASE Next
  BY <1>2 DEF Next, Send, Work, Flush, Close, Take, Deliver, WorkerStop, WorkerEnd
<1> QED  BY <1>1, <1>2

LEMMA CopyStep == FanInv /\ [Next]_vars => OneCopy'
<1> SUFFICES ASSUME FanInv, [Next]_vars PROVE OneCopy'
  OBVIOUS
<1> USE Numbers
<1>1. CASE UNCHANGED <<queue, busy>>
  BY <1>1 DEF FanInv, OneCopy, NoRepeats, Elems
<1>2. ASSUME NEW e \in Events, SendQueue(e) PROVE OneCopy'
  <2> SUFFICES ASSUME NEW d \in Drains PROVE NoRepeats(queue'[d]) /\ busy'[d] \notin Elems(queue'[d])
    BY DEF OneCopy
  <2>1. NoRepeats(queue[d]) /\ busy[d] \notin Elems(queue[d])
    BY DEF FanInv, OneCopy
  <2>2. d = next[e] => busy[d] # e
    BY <1>2, SendHolds, InHandIs
  <2> QED  BY <1>2, <2>1, <2>2, SendHolds
<1>3. ASSUME NEW x \in Drains, Take(x) PROVE OneCopy'
  <2> SUFFICES ASSUME NEW d \in Drains PROVE NoRepeats(queue'[d]) /\ busy'[d] \notin Elems(queue'[d])
    BY DEF OneCopy
  <2>1. NoRepeats(queue[d]) /\ busy[d] \notin Elems(queue[d])
    BY DEF FanInv, OneCopy
  <2> QED  BY <1>3, <2>1, TakeHolds
<1>4. ASSUME NEW x \in Drains, Deliver(x) PROVE OneCopy'
  <2> SUFFICES ASSUME NEW d \in Drains PROVE NoRepeats(queue[d]) /\ busy'[d] \notin Elems(queue[d])
    BY <1>4 DEF OneCopy, Deliver
  <2>1. NoRepeats(queue[d]) /\ busy[d] \notin Elems(queue[d]) /\ Elems(queue[d]) \subseteq Events
    BY DEF FanInv, OneCopy, TypeOK, Elems
  <2> QED  BY <1>4, <2>1 DEF Deliver, FanInv, TypeOK
<1> QED  BY <1>1, <1>2, <1>3, <1>4, DrainSteps DEF drains, WorkerStop, WorkerEnd

LEMMA ReachedStep == FanInv /\ [Next]_vars => Reached'
<1> SUFFICES ASSUME FanInv, [Next]_vars PROVE Reached'
  OBVIOUS
<1> USE Numbers
<1>1. \A d \in Drains : \A x \in Events : next[x] > d <=> x \in InHand(d) \cup got[d] \cup dropped[d]
  BY DEF FanInv, Reached
<1>2. CASE UNCHANGED <<queue, busy, got, dropped>> /\ \A x \in Events : next'[x] = next[x]
  <2>1. \A d \in Drains : InHand(d)' = InHand(d)
    BY <1>2 DEF InHand, Queued
  <2> QED  BY <1>1, <1>2, <2>1 DEF Reached
<1>3. ASSUME NEW e \in Events, SendQueue(e) PROVE Reached'
  <2> SUFFICES ASSUME NEW d \in Drains, NEW x \in Events
               PROVE  next'[x] > d <=> x \in InHand(d)' \cup got'[d] \cup dropped'[d]
    BY DEF Reached
  <2>1. x \in InHand(d)' \cup dropped'[d] <=> x \in InHand(d) \cup dropped[d] \/ (d = next[e] /\ x = e)
    BY <1>3, SendCount
  <2>2. got' = got /\ next[e] \in Drains /\ next' = [next EXCEPT ![e] = next[e] + 1]
    BY <1>3, SendHolds
  <2>3. next'[x] > d <=> next[x] > d \/ (d = next[e] /\ x = e)
    <3>1. next \in [Events \cup Calls -> 1..N + 1] /\ next[x] \in 1..N + 1
      BY DEF FanInv, TypeOK
    <3>2. next'[x] = IF x = e THEN next[e] + 1 ELSE next[x]
      BY <2>2, <3>1
    <3>3. d \in Nat /\ next[x] \in Nat
      BY <3>1
    <3> QED  BY <2>2, <3>2, <3>3
  <2> QED  BY <1>1, <2>1, <2>2, <2>3
<1>4. ASSUME NEW y \in Drains, Take(y) PROVE Reached'
  BY <1>1, <1>4, TakeCount DEF Reached, Take, calls
<1>5. ASSUME NEW y \in Drains, Deliver(y) PROVE Reached'
  <2>1. \A d \in Drains : InHand(d)' \cup got'[d] = InHand(d) \cup got[d]
    <3> TAKE d \in Drains
    <3>1. /\ InHand(d)' = IF d = y THEN InHand(d) \ {busy[y]} ELSE InHand(d)
          /\ busy[y] \in InHand(y)
      BY <1>5, DeliverHolds
    <3>2. got'[d] = IF d = y THEN got[d] \cup {busy[y]} ELSE got[d]
      BY <1>5 DEF Deliver, FanInv, TypeOK
    <3> QED  BY <3>1, <3>2
  <2> QED  BY <1>1, <1>5, <2>1 DEF Reached, Deliver, calls
<1>6. ASSUME UNCHANGED drains PROVE \/ \A x \in Events : next'[x] = next[x]
                                   \/ \E e \in Events : SendQueue(e)
  <2>1. ASSUME NEW c \in Calls, FlushDrain(c) \/ CloseDrain(c) PROVE \A x \in Events : next'[x] = next[x]
    BY <2>1 DEF FlushDrain, CloseDrain, FanInv, TypeOK
  <2> QED  BY <2>1, CallSteps DEF calls, SendEnter, Begin, Expire, FlushLock, FlushIdle, FlushExpired,
                                   CloseStop, CloseWait
<1> QED  BY <1>2, <1>3, <1>4, <1>5, <1>6, DrainSteps DEF drains, WorkerStop, WorkerEnd, calls

LEMMA PlacesStep == FanInv /\ [Next]_vars => SendPlaces' /\ CallPlaces'
<1> SUFFICES ASSUME FanInv, [Next]_vars PROVE SendPlaces' /\ CallPlaces'
  OBVIOUS
<1> USE Numbers
<1>1. /\ pc \in [Events \cup Calls -> {"new", "lock", "queue", "wait", "flush", "idle", "close", "done"}]
      /\ next \in [Events \cup Calls -> 1..N + 1] /\ SendPlaces /\ CallPlaces
  BY DEF FanInv, TypeOK
<1>2. CASE UNCHANGED <<pc, next>>
  BY <1>1, <1>2 DEF SendPlaces, CallPlaces
<1>3. ASSUME NEW e \in Events, SendEnter(e) PROVE SendPlaces' /\ CallPlaces'
  <2>1. pc[e] = "new" /\ next' = next /\ (pc' = [pc EXCEPT ![e] = "done"] \/ pc' = [pc EXCEPT ![e] = "queue"])
    BY <1>3 DEF SendEnter, At
  <2> QED  BY <1>1, <2>1 DEF SendPlaces, CallPlaces
<1>4. ASSUME NEW e \in Events, SendQueue(e) PROVE SendPlaces' /\ CallPlaces'
  <2>1. /\ next[e] \in 1..N /\ next' = [next EXCEPT ![e] = next[e] + 1]
        /\ pc' = [pc EXCEPT ![e] = IF next[e] = N THEN "done" ELSE "queue"]
    BY <1>4, SendHolds DEF SendQueue, At
  <2> QED  BY <1>1, <2>1 DEF SendPlaces, CallPlaces
<1>5. ASSUME NEW c \in Calls, Begin(c) \/ FlushExpired(c) PROVE SendPlaces' /\ CallPlaces'
  BY <1>1, <1>5 DEF SendPlaces, CallPlaces, Begin, FlushExpired, At
<1>6. ASSUME NEW c \in Calls, FlushLock(c) \/ FlushIdle(c) PROVE SendPlaces' /\ CallPlaces'
  BY <1>1, <1>6 DEF SendPlaces, CallPlaces, FlushLock, FlushIdle, At
<1>7. ASSUME NEW c \in Calls, CloseStop(c) \/ CloseWait(c) PROVE SendPlaces' /\ CallPlaces'
  BY <1>1, <1>7 DEF SendPlaces, CallPlaces, CloseStop, CloseWait, At
<1>8. ASSUME NEW c \in Calls, FlushDrain(c) \/ CloseDrain(c) PROVE SendPlaces' /\ CallPlaces'
  <2>1. /\ next[c] \in 1..N /\ next' = [next EXCEPT ![c] = next[c] + 1]
        /\ pc' = [pc EXCEPT ![c] = IF next[c] = N THEN "done" ELSE pc[c]]
    BY <1>1, <1>8 DEF FlushDrain, CloseDrain, At, CallPlaces
  <2> QED  BY <1>1, <1>8, <2>1 DEF SendPlaces, CallPlaces, FlushDrain, CloseDrain
<1> QED  BY <1>2, <1>3, <1>4, <1>5, <1>6, <1>7, <1>8, CallSteps DEF calls, Expire

LEMMA PastStep == FanInv /\ [Next]_vars => Past'
<1> SUFFICES ASSUME FanInv, [Next]_vars, NEW c \in Calls, NEW e \in before'[c] PROVE next'[e] > N
  BY DEF Past
<1> USE Numbers
<1>1. /\ pc \in [Events \cup Calls -> {"new", "lock", "queue", "wait", "flush", "idle", "close", "done"}]
      /\ next \in [Events \cup Calls -> 1..N + 1] /\ before \in [Calls -> SUBSET Events]
      /\ \A x \in before[c] : next[x] > N
  BY DEF FanInv, TypeOK, Past
<1>2. before'[c] = before[c] \/ before'[c] = {x \in Events : pc[x] = "done" /\ next[x] > N}
  BY <1>1, CallSteps DEF calls, SendEnter, SendQueue, Begin, Expire, FlushLock, FlushIdle,
       FlushExpired, FlushDrain, CloseStop, CloseWait, CloseDrain
<1>3. next[e] > N /\ e \in Events
  BY <1>1, <1>2
<1>4. next'[e] = next[e]
  <2>1. ASSUME NEW x \in Events, SendQueue(x) PROVE next'[e] = next[e]
    BY <1>1, <1>3, <2>1, SendHolds
  <2>2. ASSUME NEW x \in Calls, FlushDrain(x) \/ CloseDrain(x) PROVE next'[e] = next[e]
    BY <1>1, <1>3, <2>2 DEF FlushDrain, CloseDrain
  <2> QED  BY <2>1, <2>2, CallSteps DEF calls, SendEnter, Begin, Expire, FlushLock, FlushIdle,
                FlushExpired, CloseStop, CloseWait
<1> QED  BY <1>3, <1>4

(* pending at zero means nothing in hand; and a Flush holds no event it did not see. *)
LEMMA CoveredStep == FanInv /\ [Next]_vars => Covered'
<1> SUFFICES ASSUME FanInv, [Next]_vars, NEW c \in Flushers, pc'[c] = "flush", NEW d \in Drains
             PROVE  before'[c] \subseteq got'[d] \cup dropped'[d]
  BY DEF Covered
<1> USE Numbers
<1>1. /\ pc \in [Events \cup Calls -> {"new", "lock", "queue", "wait", "flush", "idle", "close", "done"}]
      /\ before \in [Calls -> SUBSET Events] /\ c \in Calls
  BY DEF FanInv, TypeOK
<1>2. got[d] \cup dropped[d] \subseteq got'[d] \cup dropped'[d]
  <2>1. ASSUME NEW e \in Events, SendQueue(e) PROVE got[d] \cup dropped[d] \subseteq got'[d] \cup dropped'[d]
    BY <2>1, SendHolds
  <2>2. ASSUME NEW x \in Drains, Deliver(x) PROVE got[d] \cup dropped[d] \subseteq got'[d] \cup dropped'[d]
    BY <2>2 DEF Deliver, FanInv, TypeOK
  <2> QED  BY <2>1, <2>2, DrainSteps DEF drains, Take, WorkerStop, WorkerEnd
<1>3. before'[c] = before[c] /\ (pc[c] = "flush" \/ FlushIdle(c))
  <2>1. ASSUME NEW x \in Calls, Begin(x) PROVE before'[c] = before[c] /\ pc[c] = "flush"
    BY <1>1, <2>1 DEF Begin, At
  <2>2. ASSUME NEW x \in Calls, FlushIdle(x)
        PROVE  before'[c] = before[c] /\ (pc[c] = "flush" \/ FlushIdle(c))
    BY <1>1, <2>2 DEF FlushIdle, At
  <2>3. ASSUME NEW x \in Calls, FlushDrain(x) \/ CloseDrain(x) \/ FlushLock(x) \/ FlushExpired(x)
        PROVE  before'[c] = before[c] /\ pc[c] = "flush"
    BY <1>1, <2>3 DEF FlushDrain, CloseDrain, FlushLock, FlushExpired, At
  <2>4. ASSUME NEW x \in Calls, CloseStop(x) \/ CloseWait(x) \/ Expire(x)
        PROVE  before'[c] = before[c] /\ pc[c] = "flush"
    BY <1>1, <2>4 DEF CloseStop, CloseWait, Expire, At
  <2>5. ASSUME NEW x \in Events, SendEnter(x) \/ SendQueue(x)
        PROVE  before'[c] = before[c] /\ pc[c] = "flush"
    BY <1>1, <2>5 DEF SendEnter, SendQueue, At
  <2> QED  BY <2>1, <2>2, <2>3, <2>4, <2>5, CallSteps DEF calls
<1>4. CASE pc[c] = "flush"
  BY <1>2, <1>3, <1>4 DEF FanInv, Covered
<1>5. CASE FlushIdle(c)
  <2>1. Held = {}
    BY <1>5, FS_EmptySet DEF FlushIdle, Idle, FanInv, TypeOK
  <2>2. ASSUME NEW e \in before[c] PROVE e \in got[d] \cup dropped[d]
    <3>1. e \in Events /\ next[e] > N /\ next[e] \in 1..N + 1
      BY <1>1 DEF FanInv, TypeOK, Past
    <3>2. next[e] > d
      BY <3>1
    <3>3. <<d, e>> \notin Held
      BY <2>1
    <3> QED  BY <3>1, <3>2, <3>3 DEF FanInv, Reached, Held
  <2> QED  BY <1>2, <1>3, <2>2
<1> QED  BY <1>3, <1>4, <1>5

LEMMA SealedStep == FanInv /\ [Next]_vars => Sealed'
<1> SUFFICES ASSUME FanInv, [Next]_vars, closed' PROVE Readers' = {}
  BY DEF Sealed
<1> USE Numbers
<1>1. /\ pc \in [Events \cup Calls -> {"new", "lock", "queue", "wait", "flush", "idle", "close", "done"}]
      /\ closed => Readers = {}
  BY DEF FanInv, TypeOK, Sealed
<1>2. CASE UNCHANGED <<pc, closed>>
  BY <1>1, <1>2 DEF Readers
<1>3. ASSUME NEW e \in Events, SendEnter(e) \/ SendQueue(e) PROVE Readers' = {}
  BY <1>1, <1>3 DEF SendEnter, SendQueue, At, Readers
<1>4. ASSUME NEW c \in Calls, CloseStop(c) PROVE Readers' = {}
  BY <1>1, <1>4 DEF CloseStop, At, Readers, WLock
<1>5. ASSUME NEW c \in Calls, Begin(c) \/ FlushLock(c) \/ FlushIdle(c) \/ FlushExpired(c) PROVE Readers' = {}
  BY <1>1, <1>5 DEF Begin, FlushLock, FlushIdle, FlushExpired, At, Readers
<1>6. ASSUME NEW c \in Calls, FlushDrain(c) \/ CloseWait(c) \/ CloseDrain(c) PROVE Readers' = {}
  BY <1>1, <1>6 DEF FlushDrain, CloseWait, CloseDrain, At, Readers
<1> QED  BY <1>2, <1>3, <1>4, <1>5, <1>6, CallSteps DEF calls, Expire

LEMMA SpentStep == FanInv /\ [Next]_vars => Spent'
<1> SUFFICES ASSUME FanInv, [Next]_vars, NEW d \in Drains
             PROVE  /\ worker'[d] # "run" => closed'
                    /\ worker'[d] = "done" => queue'[d] = <<>> /\ busy'[d] = None
  BY DEF Spent
<1> USE Numbers
<1>1. /\ worker \in [Drains -> {"run", "empty", "done"}] /\ busy \in [Drains -> Events \cup {None}]
      /\ worker[d] # "run" => closed
      /\ worker[d] = "done" => queue[d] = <<>> /\ busy[d] = None
  BY DEF FanInv, TypeOK, Spent
<1>2. closed => closed'
  BY CallSteps DEF calls, SendEnter, SendQueue, Begin, Expire, FlushLock, FlushIdle, FlushExpired,
                   FlushDrain, CloseStop, CloseWait, CloseDrain
<1>3. CASE UNCHANGED drains
  BY <1>1, <1>2, <1>3 DEF drains
<1>4. ASSUME NEW e \in Events, SendQueue(e)
      PROVE  /\ worker'[d] # "run" => closed'
             /\ worker'[d] = "done" => queue'[d] = <<>> /\ busy'[d] = None
  <2>1. ~closed
    BY <1>4 DEF SendQueue, FanInv, Sealed, Readers
  <2> QED  BY <1>1, <1>4, <2>1 DEF SendQueue
<1>5. ASSUME NEW x \in Drains, Take(x) \/ Deliver(x)
      PROVE  /\ worker'[d] # "run" => closed'
             /\ worker'[d] = "done" => queue'[d] = <<>> /\ busy'[d] = None
  BY <1>1, <1>5 DEF Take, Deliver, calls, FanInv, TypeOK
<1>6. ASSUME NEW x \in Drains, WorkerStop(x) \/ WorkerEnd(x)
      PROVE  /\ worker'[d] # "run" => closed'
             /\ worker'[d] = "done" => queue'[d] = <<>> /\ busy'[d] = None
  BY <1>1, <1>6 DEF WorkerStop, WorkerEnd, Emptied, calls, FanInv, Spent
<1> QED  BY <1>3, <1>4, <1>5, <1>6, DrainSteps

LEMMA EndedStep == FanInv /\ [Next]_vars => Ended'
<1> SUFFICES ASSUME FanInv, [Next]_vars, (\E c \in Closers : pc'[c] = "close") \/ shut' # {}
             PROVE  WorkersDone' \/ expired' \cap Closers # {}
  BY DEF Ended
<1> USE Numbers
<1>1. /\ pc \in [Events \cup Calls -> {"new", "lock", "queue", "wait", "flush", "idle", "close", "done"}]
      /\ worker \in [Drains -> {"run", "empty", "done"}]
      /\ (\E c \in Closers : pc[c] = "close") \/ shut # {} => WorkersDone \/ expired \cap Closers # {}
  BY DEF FanInv, TypeOK, Ended
<1>2. WorkersDone => WorkersDone'
  BY <1>1, DrainSteps DEF WorkersDone, drains, SendQueue, Take, Deliver, WorkerStop, WorkerEnd
<1>3. expired \subseteq expired'
  BY CallSteps DEF calls, SendEnter, SendQueue, Begin, Expire, FlushLock, FlushIdle, FlushExpired,
                   FlushDrain, CloseStop, CloseWait, CloseDrain
<1>4. CASE UNCHANGED <<pc, shut>>
  BY <1>1, <1>2, <1>3, <1>4
<1>5. ASSUME NEW e \in Events, SendEnter(e) \/ SendQueue(e) PROVE WorkersDone' \/ expired' \cap Closers # {}
  BY <1>1, <1>2, <1>3, <1>5 DEF SendEnter, SendQueue, At
<1>6. ASSUME NEW c \in Calls, Begin(c) \/ FlushLock(c) \/ FlushIdle(c) \/ FlushExpired(c)
      PROVE  WorkersDone' \/ expired' \cap Closers # {}
  BY <1>1, <1>2, <1>3, <1>6 DEF Begin, FlushLock, FlushIdle, FlushExpired, At
<1>7. ASSUME NEW c \in Calls, FlushDrain(c) \/ CloseStop(c) PROVE WorkersDone' \/ expired' \cap Closers # {}
  BY <1>1, <1>2, <1>3, <1>7 DEF FlushDrain, CloseStop, At
<1>8. ASSUME NEW c \in Calls, CloseWait(c) PROVE WorkersDone' \/ expired' \cap Closers # {}
  <2>1. c \in Closers /\ (WorkersDone \/ c \in expired)
    BY <1>8 DEF CloseWait, TimedOut, FanInv, CallPlaces
  <2> QED  BY <1>2, <1>3, <2>1
<1>9. ASSUME NEW c \in Calls, CloseDrain(c) PROVE WorkersDone' \/ expired' \cap Closers # {}
  <2>1. c \in Closers /\ pc[c] = "close"
    BY <1>9 DEF CloseDrain, FanInv, CallPlaces
  <2> QED  BY <1>1, <1>2, <1>3, <2>1
<1> QED  BY <1>4, <1>5, <1>6, <1>7, <1>8, <1>9, CallSteps DEF calls, Expire

----------------------------------------------------------------------------
LEMMA FanInit == Init => FanInv
<1> SUFFICES ASSUME Init PROVE FanInv
  OBVIOUS
<1> USE Numbers
<1>1. \A d \in Drains : queue[d] = <<>> /\ busy[d] = None /\ got[d] = {} /\ dropped[d] = {} /\ worker[d] = "run"
  BY DEF Init
<1>2. \A d \in Drains : Elems(queue[d]) = {} /\ Len(queue[d]) = 0
  BY <1>1 DEF Elems
<1>3. OneCopy
  BY <1>1, <1>2 DEF OneCopy, NoRepeats
<1>4. \A c \in Events \cup Calls : next[c] = 1 /\ pc[c] = "new"
  BY DEF Init
<1>5. Reached
  BY <1>1, <1>2, <1>4, InHandIs DEF Reached
<1>6. SendPlaces /\ CallPlaces
  BY <1>4 DEF SendPlaces, CallPlaces
<1>7. Past /\ Covered
  BY <1>4 DEF Init, Past, Covered
<1>8. Sealed /\ Spent /\ Ended
  BY <1>1, <1>4 DEF Init, Sealed, Spent, Ended
<1> QED  BY <1>3, <1>5, <1>6, <1>7, <1>8, TypeInit DEF FanInv

LEMMA FanStep == FanInv /\ [Next]_vars => FanInv'
  BY TypeStep, CopyStep, ReachedStep, PlacesStep, PastStep, CoveredStep, SealedStep, SpentStep, EndedStep
     DEF FanInv

LEMMA Invariance == Spec => []FanInv
  BY FanInit, FanStep, PTL DEF Spec

(* For any drains, queues and calls: pending is what is queued or in delivery, and a   *)
(* Flush turns to the drains only when each of them got, or dropped, all that was sent *)
(* before the Flush (fanout.go Send, deliver, waitIdle).                               *)
THEOREM Flushes == Spec => []FlushCovers
<1>1. FanInv => FlushCovers
  BY DEF FanInv, FlushCovers, Covered
<1> QED  BY <1>1, Invariance, PTL

(* For any drains, queues and calls: a worker that ended left nothing, and unless the  *)
(* ctx of a Close ended, no drain is closed before its last delivery (fanout.go Close, *)
(* worker).                                                                            *)
THEOREM Closes == Spec => []ClosedLast
<1>1. FanInv => ClosedLast
  <2> SUFFICES ASSUME FanInv, NEW d \in Drains, worker[d] = "done" \/ (d \in shut /\ expired \cap Closers = {})
               PROVE  InHand(d) = {}
    BY DEF ClosedLast
  <2>1. worker[d] = "done"
    BY DEF FanInv, Ended, WorkersDone
  <2>2. queue[d] = <<>> /\ busy[d] = None /\ None \notin Events
    BY <2>1, Numbers DEF FanInv, Spent
  <2> QED  BY <2>2 DEF InHand, Queued
<1> QED  BY <1>1, Invariance, PTL
=============================================================================
