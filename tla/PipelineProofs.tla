--------------------------- MODULE PipelineProofs ---------------------------
(***************************************************************************)
(* What holds of Pipeline for every set of goroutines and events and every *)
(* value of its options.                                                   *)
(***************************************************************************)
EXTENDS Pipeline, TLAPS

----------------------------------------------------------------------------
(* Queues: sequences without repetition, and the sets they hold. *)

Elems(q)     == {q[i] : i \in 1..Len(q)}
NoRepeats(q) == \A i, j \in 1..Len(q) : q[i] = q[j] => i = j

(* Evicting the head removes exactly that event. *)
LEMMA TailElems ==
    ASSUME NEW S, NEW q \in Seq(S), q # <<>>, NoRepeats(q)
    PROVE  /\ Tail(q) \in Seq(S) /\ Len(Tail(q)) = Len(q) - 1
           /\ Head(q) \in Elems(q) /\ Head(q) \in S
           /\ Elems(Tail(q)) = Elems(q) \ {Head(q)}
           /\ NoRepeats(Tail(q))
<1>1. /\ Tail(q) \in Seq(S) /\ Len(Tail(q)) = Len(q) - 1 /\ Len(q) \in Nat /\ Len(q) > 0
      /\ \A i \in 1..Len(Tail(q)) : Tail(q)[i] = q[i + 1]
      /\ Head(q) = q[1]
  OBVIOUS
<1>2. Head(q) \in Elems(q) /\ Head(q) \in S
  BY <1>1 DEF Elems
<1>3. NoRepeats(Tail(q))
  BY <1>1 DEF NoRepeats
<1>4. ASSUME NEW x PROVE x \in Elems(Tail(q)) <=> x \in Elems(q) \ {Head(q)}
  <2>1. ASSUME x \in Elems(Tail(q)) PROVE x \in Elems(q) \ {Head(q)}
    <3>1. PICK i \in 1..Len(Tail(q)) : x = Tail(q)[i]
      BY <2>1 DEF Elems
    <3>2. i + 1 \in 1..Len(q) /\ x = q[i + 1] /\ i + 1 # 1 /\ 1 \in 1..Len(q)
      BY <3>1, <1>1
    <3> QED  BY <3>2, <1>1 DEF Elems, NoRepeats
  <2>2. ASSUME x \in Elems(q), x # Head(q) PROVE x \in Elems(Tail(q))
    <3>1. PICK i \in 1..Len(q) : x = q[i]
      BY <2>2 DEF Elems
    <3>2. i - 1 \in 1..Len(Tail(q)) /\ Tail(q)[i - 1] = q[i]
      BY <3>1, <2>2, <1>1
    <3> QED  BY <3>1, <3>2 DEF Elems
  <2> QED  BY <2>1, <2>2
<1> QED  BY <1>1, <1>2, <1>3, <1>4

(* Queueing a new event adds exactly that event. *)
LEMMA AppendElems ==
    ASSUME NEW S, NEW q \in Seq(S), NEW e \in S, NoRepeats(q), e \notin Elems(q)
    PROVE  /\ Append(q, e) \in Seq(S) /\ Len(Append(q, e)) = Len(q) + 1
           /\ Elems(Append(q, e)) = Elems(q) \cup {e}
           /\ NoRepeats(Append(q, e))
<1>1. /\ Append(q, e) \in Seq(S) /\ Len(Append(q, e)) = Len(q) + 1 /\ Len(q) \in Nat
      /\ \A i \in 1..Len(q) : Append(q, e)[i] = q[i]
      /\ Append(q, e)[Len(q) + 1] = e
  OBVIOUS
<1>2. NoRepeats(Append(q, e))
  BY <1>1 DEF NoRepeats, Elems
<1>3. \A i \in 1..Len(q) + 1 : i \in 1..Len(q) \/ i = Len(q) + 1
  BY <1>1
<1>4. Elems(Append(q, e)) = Elems(q) \cup {e}
  BY <1>1, <1>3 DEF Elems
<1> QED  BY <1>1, <1>2, <1>4

(* The first n elements of a queue, and what is left when they are taken. *)
Front(q, n) == {q[i] : i \in {j \in 1..Len(q) : j <= n}}
Back(q, n)  == SubSeq(q, n + 1, Len(q))

(* A batch and the rest of the queue share nothing and make up the queue. *)
LEMMA RestElems ==
    ASSUME NEW S, NEW q \in Seq(S), NEW n \in Nat, NoRepeats(q)
    PROVE  /\ Back(q, n) \in Seq(S) /\ Len(Back(q, n)) <= Len(q)
           /\ Elems(Back(q, n)) = Elems(q) \ Front(q, n)
           /\ Front(q, n) \subseteq Elems(q)
           /\ NoRepeats(Back(q, n))
<1> DEFINE r == Back(q, n)
           batch == Front(q, n)
<1>1. /\ r \in Seq(S) /\ Len(q) \in Nat
      /\ Len(r) = IF n + 1 <= Len(q) THEN Len(q) - n ELSE 0
      /\ \A i \in 1..Len(r) : r[i] = q[i + n] /\ i + n \in 1..Len(q)
  BY DEF Back
<1>a. \A x : x \in batch <=> \E i \in 1..Len(q) : i <= n /\ x = q[i]
  BY DEF Front
<1> HIDE DEF r, batch
<1>2. Len(r) <= Len(q) /\ Len(r) \in Nat
  BY <1>1
<1>3. batch \subseteq Elems(q)
  BY <1>a DEF Elems
<1>4. NoRepeats(r)
  BY <1>1, <1>2 DEF NoRepeats
<1>5. ASSUME NEW x PROVE x \in Elems(r) <=> x \in Elems(q) \ batch
  <2>1. ASSUME x \in Elems(r) PROVE x \in Elems(q) \ batch
    <3>1. PICK i \in 1..Len(r) : x = r[i]
      BY <2>1 DEF Elems
    <3>2. i + n \in 1..Len(q) /\ x = q[i + n] /\ ~(i + n <= n)
      BY <3>1, <1>1, <1>2
    <3> QED  BY <3>2, <1>a DEF Elems, NoRepeats
  <2>2. ASSUME x \in Elems(q), x \notin batch PROVE x \in Elems(r)
    <3>1. PICK i \in 1..Len(q) : x = q[i]
      BY <2>2 DEF Elems
    <3>2. i > n
      BY <3>1, <2>2, <1>1, <1>a
    <3>3. i - n \in 1..Len(r) /\ r[i - n] = q[(i - n) + n] /\ (i - n) + n = i
      BY <3>1, <3>2, <1>1
    <3> QED  BY <3>1, <3>3 DEF Elems
  <2> QED  BY <2>1, <2>2
<1> QED  BY <1>2, <1>1, <1>3, <1>4, <1>5 DEF r, batch

----------------------------------------------------------------------------
(* The pipeline *)

LEMMA ThreadSets ==
    /\ Worker \in Actors /\ Worker \in Threads
    /\ Actors \subseteq Threads /\ Senders \subseteq Threads
    /\ Flushers \subseteq Threads /\ Closers \subseteq Threads /\ Flushers \subseteq Actors
    /\ Nobody \notin Actors
    /\ \A a \in Actors : a # Worker => a \in Flushers
    /\ Worker \notin Flushers /\ Senders \cap Actors = {} /\ Closers \cap Actors = {}
    /\ Senders \cap Closers = {}
  BY ThreadsAssumption DEF Actors, Threads

(* One step of the pipeline, action by action.  The proofs below split on it. *)
LEMMA StepCases ==
    ASSUME Next, NEW P,
           \A s \in Senders, e \in Events : SendCheck(s, e) => P,
           \A s \in Senders : SendAppend(s) => P,
           \A s \in Senders : SendSignal(s) => P,
           \A s \in Senders : SendCount(s) => P,
           \A f \in Flushers : FlushStart(f) => P,
           \A f \in Flushers : FlushTake(f) => P,
           \A f \in Flushers : FlushEmpty(f) => P,
           \A c \in Closers : CloseStart(c) => P,
           \A c \in Closers : CloseSignal(c) => P,
           \A c \in Closers : CloseSender(c) => P,
           \A c \in Closers : CloseTimeout(c) => P,
           \A a \in Actors : Lock(a) => P,
           \A a \in Actors : TrySent(a) => P,
           \A a \in Actors : TryDropped(a) => P,
           \A a \in Actors : TryFailed(a) => P,
           \A a \in Actors : \A D, R \in SUBSET hand[a] : TryPartial(a, D, R) => P,
           \A a \in Actors : WaitDone(a) => P,
           \A a \in Actors : WaitAborted(a) => P,
           NextWake => P, WorkerWake => P, WorkerTimer => P, WorkerClose => P,
           TakeBatch => P, Age => P
    PROVE  P
  BY Zenon DEF Next, Send, Flush, Close, SendBatch, Try, Wait, Run

----------------------------------------------------------------------------
(* Types.  The attempt counter stays in range because only a batch with an   *)
(* attempt left waits.                                                       *)

AttemptsLeft == \A a \in Actors : pc[a] = "wait" => attempt[a] < MaxAttempts

TypeInv == TypeOK /\ AttemptsLeft

LEMMA EmptyQueue == <<>> \in Seq(Events) /\ Len(<<>>) = 0
  OBVIOUS

LEMMA BufEvents == buf \in Seq(Events) => InBuf \subseteq Events /\ Len(buf) \in Nat
  BY DEF InBuf

LEMMA TypeInit == Init => TypeInv
<1> SUFFICES ASSUME Init PROVE TypeInv
  OBVIOUS
<1> USE ThreadSets, OptionsAssumption DEF Init
<1>1. buf \in Seq(Events) /\ Len(buf) <= MaxBuffer
  BY EmptyQueue
<1>2. pc \in [Threads -> Places]
  BY DEF Places
<1>3. AttemptsLeft
  BY DEF AttemptsLeft
<1>4. attempt \in [Actors -> 1..MaxAttempts]
  OBVIOUS
<1> QED  BY <1>1, <1>2, <1>3, <1>4 DEF TypeInv, TypeOK

LEMMA AddType ==
    ASSUME NEW n \in [Events -> Nat], NEW S
    PROVE  Add(n, S) \in [Events -> Nat]
  BY DEF Add

(* What the end of a sendBatch leaves behind has its type. *)
LEMMA FinishType ==
    ASSUME TypeInv, NEW a \in Actors, Finish(a)
    PROVE  /\ sendMu' \in Actors \cup {Nobody}
           /\ hand' \in [Threads -> SUBSET Events]
           /\ attempt' \in [Actors -> 1..MaxAttempts]
           /\ pc' \in [Threads -> Places]
           /\ behind' \in [Flushers -> BOOLEAN] /\ owed' \in [Flushers -> SUBSET Events]
           /\ AttemptsLeft'
<1> USE ThreadSets, OptionsAssumption DEF TypeInv, TypeOK, AttemptsLeft, Finish, Released
<1>1. hand' \in [Threads -> SUBSET Events] /\ attempt' \in [Actors -> 1..MaxAttempts]
  OBVIOUS
<1>2. pc' \in [Threads -> Places] /\ pc'[a] # "wait" /\ \A b \in Actors \ {a} : pc'[b] = pc[b]
  BY DEF Places
<1>3. behind' \in [Flushers -> BOOLEAN] /\ owed' \in [Flushers -> SUBSET Events]
  BY DEF Returned
<1>4. AttemptsLeft'
  BY <1>2
<1> QED  BY <1>1, <1>2, <1>3, <1>4

LEMMA TypeStep == TypeInv /\ [Next]_vars => TypeInv'
<1> SUFFICES ASSUME TypeInv, [Next]_vars PROVE TypeInv'
  OBVIOUS
<1> USE ThreadSets, OptionsAssumption
<1>1. CASE UNCHANGED vars
  BY <1>1 DEF TypeInv, TypeOK, AttemptsLeft, vars, state, history
<1>3. ASSUME NEW s \in Senders, NEW e \in Events, SendCheck(s, e) PROVE TypeInv'
  BY <1>3 DEF TypeInv, TypeOK, AttemptsLeft, Places, SendCheck
<1>4. ASSUME NEW s \in Senders, SendAppend(s) PROVE TypeInv'
  BY <1>4 DEF TypeInv, TypeOK, AttemptsLeft, Places, SendAppend, Queued, Victim, Full, history
<1>5. ASSUME NEW s \in Senders, SendSignal(s) PROVE TypeInv'
  BY <1>5 DEF TypeInv, TypeOK, AttemptsLeft, Places, SendSignal, Token, history
<1>6. ASSUME NEW s \in Senders, SendCount(s) PROVE TypeInv'
  BY <1>6, AddType DEF TypeInv, TypeOK, AttemptsLeft, Places, SendCount, history
<1>7. ASSUME NEW f \in Flushers, FlushStart(f) PROVE TypeInv'
  BY <1>7 DEF TypeInv, TypeOK, AttemptsLeft, Places, FlushStart
<1>8. ASSUME NEW f \in Flushers, FlushTake(f) PROVE TypeInv'
  <2>1. InBuf \subseteq Events /\ buf' \in Seq(Events) /\ Len(buf') <= MaxBuffer
    BY <1>8, EmptyQueue, BufEvents DEF TypeInv, TypeOK, FlushTake
  <2>2. hand' \in [Threads -> SUBSET Events]
    BY <1>8, <2>1 DEF TypeInv, TypeOK, FlushTake
  <2>3. (IF sendMu = Nobody THEN {} ELSE hand[sendMu]) \subseteq Events
    BY DEF TypeInv, TypeOK
  <2>4. owed' \in [Flushers -> SUBSET Events]
    BY <1>8, <2>1, <2>3 DEF TypeInv, TypeOK, FlushTake
  <2>5. AttemptsLeft' /\ pc' \in [Threads -> Places]
    BY <1>8 DEF TypeInv, TypeOK, AttemptsLeft, FlushTake, Places
  <2> QED
    BY <1>8, <2>1, <2>2, <2>4, <2>5 DEF TypeInv, TypeOK, FlushTake
<1>9. ASSUME NEW f \in Flushers, FlushEmpty(f) PROVE TypeInv'
  BY <1>9 DEF TypeInv, TypeOK, AttemptsLeft, Places, FlushEmpty, Returned
<1>10. ASSUME NEW c \in Closers, CloseStart(c) PROVE TypeInv'
  BY <1>10, BufEvents DEF TypeInv, TypeOK, AttemptsLeft, Places, CloseStart, history
<1>11. ASSUME NEW c \in Closers, CloseSignal(c) PROVE TypeInv'
  BY <1>11 DEF TypeInv, TypeOK, AttemptsLeft, Places, CloseSignal, history
<1>12. ASSUME NEW c \in Closers, CloseSender(c) PROVE TypeInv'
  BY <1>12 DEF TypeInv, TypeOK, AttemptsLeft, Places, CloseSender, history
<1>13. ASSUME NEW c \in Closers, CloseTimeout(c) PROVE TypeInv'
  BY <1>13 DEF TypeInv, TypeOK, AttemptsLeft, Places, CloseTimeout, history
<1>14. ASSUME NEW a \in Actors, Lock(a) PROVE TypeInv'
  BY <1>14 DEF TypeInv, TypeOK, AttemptsLeft, Places, Lock, history
<1>15. ASSUME NEW a \in Actors, TrySent(a) PROVE TypeInv'
  BY <1>15, AddType, FinishType DEF TypeInv, TypeOK, TrySent
<1>16. ASSUME NEW a \in Actors, TryDropped(a) PROVE TypeInv'
  BY <1>16, AddType, FinishType DEF TypeInv, TypeOK, TryDropped
<1>17. ASSUME NEW a \in Actors, TryFailed(a) PROVE TypeInv'
  BY <1>17 DEF TypeInv, TypeOK, AttemptsLeft, Places, TryFailed, history
<1>18. ASSUME NEW a \in Actors, NEW D \in SUBSET hand[a], NEW R \in SUBSET hand[a],
              TryPartial(a, D, R)
       PROVE  TypeInv'
  <2>1. CASE Again(a, D, R) # {} /\ attempt[a] < MaxAttempts
    <3>1. hand' \in [Threads -> SUBSET Events]
      <4>1. Again(a, D, R) \subseteq Events
        BY <1>18 DEF TypeInv, TypeOK, Again
      <4>2. hand' = [hand EXCEPT ![a] = Again(a, D, R)]
        BY <1>18, <2>1 DEF TryPartial
      <4> QED  BY <4>1, <4>2 DEF TypeInv, TypeOK
    <3>2. AttemptsLeft' /\ pc' \in [Threads -> Places]
      BY <1>18, <2>1 DEF TypeInv, TypeOK, AttemptsLeft, TryPartial, Places
    <3> QED
      BY <1>18, <2>1, <3>1, <3>2, AddType DEF TypeInv, TypeOK, TryPartial
  <2>2. CASE ~(Again(a, D, R) # {} /\ attempt[a] < MaxAttempts)
    BY <1>18, <2>2, AddType, FinishType DEF TypeInv, TypeOK, TryPartial
  <2> QED  BY <2>1, <2>2
<1>19. ASSUME NEW a \in Actors, WaitDone(a) PROVE TypeInv'
  BY <1>19 DEF TypeInv, TypeOK, AttemptsLeft, Places, WaitDone, NextAttempt, history
<1>20. ASSUME NEW a \in Actors, WaitAborted(a) PROVE TypeInv'
  BY <1>20, AddType, FinishType DEF TypeInv, TypeOK, WaitAborted
<1>21. CASE NextWake
  BY <1>21 DEF TypeInv, TypeOK, AttemptsLeft, Places, NextWake, history
<1>22. CASE WorkerWake
  BY <1>22 DEF TypeInv, TypeOK, AttemptsLeft, Places, WorkerWake, history
<1>23. CASE WorkerTimer
  BY <1>23 DEF TypeInv, TypeOK, AttemptsLeft, Places, WorkerTimer, history
<1>24. CASE WorkerClose
  <2>1. InBuf \subseteq Events /\ buf' \in Seq(Events) /\ Len(buf') <= MaxBuffer
    BY <1>24, EmptyQueue, BufEvents DEF TypeInv, TypeOK, WorkerClose
  <2>2. hand' \in [Threads -> SUBSET Events]
    BY <1>24, <2>1 DEF TypeInv, TypeOK, WorkerClose, Leftover
  <2>3. AttemptsLeft' /\ pc' \in [Threads -> Places]
    BY <1>24 DEF TypeInv, TypeOK, AttemptsLeft, WorkerClose, Places
  <2> QED
    BY <1>24, <2>1, <2>2, <2>3 DEF TypeInv, TypeOK, WorkerClose, history
<1>25. CASE TakeBatch
  <2>1. Rest \in Seq(Events) /\ Len(Rest) <= Len(buf) /\ Len(buf) \in Nat /\ Len(Rest) \in Nat
    BY <1>25 DEF TypeInv, TypeOK, Rest
  <2> DEFINE batch == {buf[i] : i \in {j \in 1..Len(buf) : j <= BatchSize}}
  <2>2. batch \subseteq Events
    BY DEF TypeInv, TypeOK
  <2> HIDE DEF batch
  <2>3. AttemptsLeft' /\ pc' \in [Threads -> Places]
    BY <1>25 DEF TypeInv, TypeOK, AttemptsLeft, TakeBatch, Places
  <2>4. CASE Ready
    <3>1. hand' = [hand EXCEPT ![Worker] = batch] /\ buf' = Rest /\ aged' \in BOOLEAN
      BY <1>25, <2>4 DEF TakeBatch, batch
    <3>2. hand' \in [Threads -> SUBSET Events]
      BY <3>1, <2>2 DEF TypeInv, TypeOK
    <3>3. buf' \in Seq(Events) /\ Len(buf') <= MaxBuffer
      BY <3>1, <2>1 DEF TypeInv, TypeOK
    <3> QED
      BY <1>25, <2>3, <3>1, <3>2, <3>3 DEF TypeInv, TypeOK, TakeBatch, history
  <2>5. CASE ~Ready
    BY <1>25, <2>3, <2>5 DEF TypeInv, TypeOK, TakeBatch, history
  <2> QED  BY <2>4, <2>5
<1>26. CASE Age
  BY <1>26 DEF TypeInv, TypeOK, AttemptsLeft, Places, Age, history
<1> HIDE DEF TypeInv
<1>27. CASE Next
  BY <1>27, StepCases, <1>3, <1>4, <1>5, <1>6, <1>7, <1>8, <1>9, <1>10, <1>11,
     <1>12, <1>13, <1>14, <1>15, <1>16, <1>17, <1>18, <1>19, <1>20, <1>21, <1>22, <1>23,
     <1>24, <1>25, <1>26
<1> QED  BY <1>1, <1>27

(* The state always has its type, and the buffer never holds more than MaxBuffer. *)
THEOREM TypeCorrect == Spec => []TypeOK
<1>1. Spec => []TypeInv
  BY TypeInit, TypeStep, PTL DEF Spec
<1>2. TypeInv => TypeOK
  BY DEF TypeInv
<1> QED  BY <1>1, <1>2, PTL

----------------------------------------------------------------------------
(* One batch in flight: only the goroutine that locked sendMu sends or waits. *)

LEMMA MuStep == TypeInv /\ OneInFlight /\ [Next]_vars => OneInFlight'
<1> SUFFICES ASSUME TypeInv, OneInFlight, [Next]_vars PROVE OneInFlight'
  OBVIOUS
<1> USE ThreadSets
<1>t. pc \in [Threads -> Places] /\ sendMu \in Actors \cup {Nobody}
  BY DEF TypeInv, TypeOK
<1>1. CASE UNCHANGED vars
  BY <1>1 DEF OneInFlight, vars, state
<1>2. ASSUME NEW t \in Threads \ Actors, UNCHANGED sendMu,
             \A u \in Threads \ {t} : pc'[u] = pc[u]
      PROVE  OneInFlight'
  BY <1>2 DEF OneInFlight
<1>3. ASSUME NEW a \in Actors, UNCHANGED sendMu,
             \A b \in Actors \ {a} : pc'[b] = pc[b],
             pc[a] \in {"try", "wait"} <=> pc'[a] \in {"try", "wait"}
      PROVE  OneInFlight'
  BY <1>3 DEF OneInFlight
<1>4. ASSUME NEW a \in Actors, pc[a] \in {"try", "wait"}, Finish(a) PROVE OneInFlight'
  BY <1>4, <1>t DEF OneInFlight, Finish, Released
<1>5. ASSUME NEW a \in Actors, Lock(a) PROVE OneInFlight'
  BY <1>5, <1>t DEF OneInFlight, Lock, MuFree
<1>7. ASSUME NEW s \in Senders, NEW e \in Events, SendCheck(s, e) PROVE OneInFlight'
  BY <1>7, <1>2, <1>t DEF SendCheck
<1>8. ASSUME NEW s \in Senders, SendAppend(s) PROVE OneInFlight'
  BY <1>8, <1>2, <1>t DEF SendAppend
<1>9. ASSUME NEW s \in Senders, SendSignal(s) PROVE OneInFlight'
  BY <1>9, <1>2, <1>t DEF SendSignal
<1>10. ASSUME NEW s \in Senders, SendCount(s) PROVE OneInFlight'
  BY <1>10, <1>2, <1>t DEF SendCount
<1>11. ASSUME NEW f \in Flushers, FlushStart(f) PROVE OneInFlight'
  BY <1>11, <1>3, <1>t DEF FlushStart
<1>12. ASSUME NEW f \in Flushers, FlushTake(f) PROVE OneInFlight'
  BY <1>12, <1>3, <1>t DEF FlushTake
<1>13. ASSUME NEW f \in Flushers, FlushEmpty(f) PROVE OneInFlight'
  BY <1>13, <1>3, <1>t DEF FlushEmpty
<1>14. ASSUME NEW c \in Closers, CloseStart(c) PROVE OneInFlight'
  BY <1>14, <1>2, <1>t DEF CloseStart
<1>15. ASSUME NEW c \in Closers, CloseSignal(c) PROVE OneInFlight'
  BY <1>15, <1>2, <1>t DEF CloseSignal
<1>16. ASSUME NEW c \in Closers, CloseSender(c) PROVE OneInFlight'
  BY <1>16, <1>2, <1>t DEF CloseSender
<1>17. ASSUME NEW c \in Closers, CloseTimeout(c) PROVE OneInFlight'
  BY <1>17, <1>2, <1>t DEF CloseTimeout
<1>18. ASSUME NEW a \in Actors, TrySent(a) PROVE OneInFlight'
  BY <1>18, <1>4 DEF TrySent
<1>19. ASSUME NEW a \in Actors, TryDropped(a) PROVE OneInFlight'
  BY <1>19, <1>4 DEF TryDropped
<1>20. ASSUME NEW a \in Actors, TryFailed(a) PROVE OneInFlight'
  BY <1>20, <1>3, <1>t DEF TryFailed
<1>21. ASSUME NEW a \in Actors, NEW D \in SUBSET hand[a], NEW R \in SUBSET hand[a],
              TryPartial(a, D, R)
       PROVE  OneInFlight'
  <2>1. CASE Again(a, D, R) # {} /\ attempt[a] < MaxAttempts
    BY <1>21, <2>1, <1>3, <1>t DEF TryPartial
  <2>2. CASE ~(Again(a, D, R) # {} /\ attempt[a] < MaxAttempts)
    BY <1>21, <2>2, <1>4 DEF TryPartial
  <2> QED  BY <2>1, <2>2
<1>22. ASSUME NEW a \in Actors, WaitDone(a) PROVE OneInFlight'
  BY <1>22, <1>3, <1>t DEF WaitDone
<1>23. ASSUME NEW a \in Actors, WaitAborted(a) PROVE OneInFlight'
  BY <1>23, <1>4 DEF WaitAborted
<1>24. CASE NextWake
  BY <1>24, <1>3, <1>t DEF NextWake
<1>25. CASE WorkerWake
  BY <1>25, <1>3, <1>t DEF WorkerWake
<1>26. CASE WorkerTimer
  BY <1>26, <1>3, <1>t DEF WorkerTimer
<1>27. CASE WorkerClose
  BY <1>27, <1>3, <1>t DEF WorkerClose
<1>28. CASE TakeBatch
  BY <1>28, <1>3, <1>t DEF TakeBatch
<1>29. CASE Age
  BY <1>29 DEF Age, OneInFlight
<1>30. CASE Next
  BY <1>30, StepCases, <1>5, <1>7, <1>8, <1>9, <1>10, <1>11, <1>12, <1>13, <1>14,
     <1>15, <1>16, <1>17, <1>18, <1>19, <1>20, <1>21, <1>22, <1>23, <1>24, <1>25, <1>26,
     <1>27, <1>28, <1>29
<1> QED  BY <1>1, <1>30

(* At most one SendBatch is in flight, whoever sends: the worker or a Flush. *)
THEOREM SingleFlight == Spec => []OneInFlight
<1>1. Init => OneInFlight
  BY ThreadSets DEF Init, OneInFlight
<1>2. Spec => [](TypeInv /\ OneInFlight)
  BY TypeInit, TypeStep, <1>1, MuStep, PTL DEF Spec
<1> QED  BY <1>2, PTL

----------------------------------------------------------------------------
(* Custody: where each event is.  OneHolder, CountedOnce and NothingLost are    *)
(* inductive together, once it is known that a goroutine which is about to take  *)
(* something holds nothing, and that a sender which is about to append holds     *)
(* exactly the event it was given.                                               *)

Resting == {"idle", "arm", "select", "take", "flush", "done"}

EmptyHanded ==
    /\ \A t \in Senders \cup Actors : pc[t] \in Resting => hand[t] = {}
    /\ \A s \in Senders : pc[s] = "append" => \E e \in Events : hand[s] = {e}

LEMMA InBufElems == InBuf = Elems(buf)
  BY DEF InBuf, Elems

LEMMA CustodyKept ==
    ASSUME Custody, UNCHANGED <<buf, hand, sentN, droppedN, fresh>>
    PROVE  Custody'
<1> USE DEF Custody
<1>1. InBuf' = InBuf /\ Settled' = Settled /\ InHands(Threads)' = InHands(Threads)
  BY DEF InBuf, Settled, InHands
<1>2. OneHolder'
  BY <1>1 DEF OneHolder
<1>3. CountedOnce'
  BY DEF CountedOnce
<1>4. NothingLost'
  BY <1>1 DEF NothingLost
<1> QED  BY <1>2, <1>3, <1>4

(* What settling a set of sent and a set of dropped events does to the counters. *)
LEMMA SettleCounts ==
    ASSUME TypeOK, CountedOnce, NEW S, NEW D, S \subseteq Events, D \subseteq Events,
           S \cap D = {}, (S \cup D) \cap Settled = {},
           sentN' = Add(sentN, S), droppedN' = Add(droppedN, D)
    PROVE  CountedOnce' /\ Settled' = Settled \cup S \cup D
<1> USE DEF TypeOK, CountedOnce, Settled, Add
<1>1. \A e \in Events : sentN[e] \in Nat /\ droppedN[e] \in Nat
  OBVIOUS
<1>2. \A e \in Events : /\ sentN'[e] = IF e \in S THEN sentN[e] + 1 ELSE sentN[e]
                        /\ droppedN'[e] = IF e \in D THEN droppedN[e] + 1 ELSE droppedN[e]
  OBVIOUS
<1>3. \A e \in Events : e \in S \cup D => sentN[e] = 0 /\ droppedN[e] = 0
  BY <1>1
<1>4. CountedOnce'
  BY <1>1, <1>2, <1>3
<1>5. \A e \in Events : sentN'[e] + droppedN'[e] > 0
                        <=> sentN[e] + droppedN[e] > 0 \/ e \in S \/ e \in D
  BY <1>1, <1>2
<1> QED  BY <1>4, <1>5

LEMMA AddNothing ==
    ASSUME NEW n \in [Events -> Nat]
    PROVE  Add(n, {}) = n
  BY DEF Add

(* A goroutine settles part of what it holds and keeps the rest. *)
LEMMA CustodySettles ==
    ASSUME TypeOK, Custody, NEW t \in Threads, NEW S, NEW D,
           S \subseteq hand[t], D \subseteq hand[t], S \cap D = {},
           sentN' = Add(sentN, S), droppedN' = Add(droppedN, D),
           hand' = [hand EXCEPT ![t] = hand[t] \ (S \cup D)],
           UNCHANGED <<buf, fresh>>
    PROVE  Custody' /\ Settled' = Settled \cup S \cup D
<1>1. hand[t] \subseteq Events /\ hand[t] \cap Settled = {}
  BY DEF TypeOK, Custody, OneHolder
<1>2. CountedOnce' /\ Settled' = Settled \cup S \cup D
  BY <1>1, SettleCounts DEF Custody
<1>3. InBuf' = InBuf
  BY DEF InBuf
<1>4. /\ \A u \in Threads : u # t => hand'[u] = hand[u]
      /\ hand'[t] = hand[t] \ (S \cup D)
      /\ \A u \in Threads : hand'[u] \subseteq hand[u]
  BY DEF TypeOK
<1>5. OneHolder'
  <2>1. \A u \in Threads : hand'[u] \cap (InBuf' \cup Settled' \cup fresh') = {}
    BY <1>2, <1>3, <1>4 DEF Custody, OneHolder
  <2>2. \A u, v \in Threads : u # v => hand'[u] \cap hand'[v] = {}
    BY <1>4 DEF Custody, OneHolder
  <2>3. InBuf' \cap (Settled' \cup fresh') = {} /\ Settled' \cap fresh' = {}
    BY <1>2, <1>3 DEF Custody, OneHolder
  <2> QED  BY <2>1, <2>2, <2>3 DEF Custody, OneHolder
<1>6. NothingLost'
  <2> SUFFICES ASSUME NEW e \in Events \ fresh
               PROVE  e \in InBuf' \cup InHands(Threads)' \cup Settled'
    BY DEF NothingLost
  <2>1. CASE e \in InBuf \cup Settled
    BY <2>1, <1>2, <1>3
  <2>2. CASE \E u \in Threads : e \in hand[u]
    BY <2>2, <1>2, <1>4 DEF InHands
  <2> QED  BY <2>1, <2>2 DEF Custody, NothingLost, InHands
<1> QED  BY <1>2, <1>5, <1>6 DEF Custody

(* A goroutine with empty hands takes part of the buffer. *)
LEMMA CustodyTakes ==
    ASSUME TypeOK, Custody, NEW t \in Threads, NEW batch,
           hand[t] = {}, batch \subseteq InBuf, InBuf' = InBuf \ batch, NoRepeats(buf'),
           hand' = [hand EXCEPT ![t] = batch],
           UNCHANGED <<sentN, droppedN, fresh>>
    PROVE  Custody'
<1>1. Settled' = Settled /\ CountedOnce'
  BY DEF Settled, CountedOnce, Custody
<1>2. (\A u \in Threads : u # t => hand'[u] = hand[u]) /\ hand'[t] = batch
  BY DEF TypeOK
<1>3. OneHolder'
  <2>1. \A u \in Threads : hand'[u] \cap (InBuf' \cup Settled' \cup fresh') = {}
    BY <1>1, <1>2 DEF Custody, OneHolder
  <2>2. \A u, v \in Threads : u # v => hand'[u] \cap hand'[v] = {}
    BY <1>2 DEF Custody, OneHolder
  <2>3. InBuf' \cap (Settled' \cup fresh') = {} /\ Settled' \cap fresh' = {}
    BY <1>1 DEF Custody, OneHolder
  <2> QED  BY <2>1, <2>2, <2>3 DEF OneHolder, NoRepeats
<1>4. NothingLost'
  <2> SUFFICES ASSUME NEW e \in Events \ fresh
               PROVE  e \in InBuf' \cup InHands(Threads)' \cup Settled'
    BY DEF NothingLost
  <2>1. CASE e \in InBuf \cup Settled
    BY <2>1, <1>1, <1>2 DEF InHands
  <2>2. CASE \E u \in Threads : e \in hand[u]
    BY <2>2, <1>2 DEF InHands
  <2> QED  BY <2>1, <2>2 DEF Custody, NothingLost, InHands
<1> QED  BY <1>1, <1>3, <1>4 DEF Custody

LEMMA EmptyHandedStep == TypeInv /\ EmptyHanded /\ [Next]_vars => EmptyHanded'
<1> SUFFICES ASSUME TypeInv, EmptyHanded, [Next]_vars PROVE EmptyHanded'
  OBVIOUS
<1> USE ThreadSets
<1>t. pc \in [Threads -> Places] /\ hand \in [Threads -> SUBSET Events]
  BY DEF TypeInv, TypeOK
<1> USE <1>t DEF EmptyHanded, Resting
<1>1. CASE UNCHANGED vars
  BY <1>1 DEF vars, state
<1>2. ASSUME NEW a \in Actors, Finish(a) PROVE EmptyHanded'
  BY <1>2 DEF Finish
<1>4. ASSUME NEW s \in Senders, NEW e \in Events, SendCheck(s, e) PROVE EmptyHanded'
  BY <1>4 DEF SendCheck
<1>5. ASSUME NEW s \in Senders, SendAppend(s) PROVE EmptyHanded'
  BY <1>5 DEF SendAppend
<1>6. ASSUME NEW s \in Senders, SendSignal(s) PROVE EmptyHanded'
  BY <1>6 DEF SendSignal
<1>7. ASSUME NEW s \in Senders, SendCount(s) PROVE EmptyHanded'
  BY <1>7 DEF SendCount
<1>8. ASSUME NEW f \in Flushers, FlushStart(f) PROVE EmptyHanded'
  BY <1>8 DEF FlushStart
<1>9. ASSUME NEW f \in Flushers, FlushTake(f) PROVE EmptyHanded'
  BY <1>9 DEF FlushTake
<1>10. ASSUME NEW f \in Flushers, FlushEmpty(f) PROVE EmptyHanded'
  BY <1>10 DEF FlushEmpty
<1>11. ASSUME NEW c \in Closers, CloseStart(c) PROVE EmptyHanded'
  BY <1>11 DEF CloseStart
<1>12. ASSUME NEW c \in Closers, CloseSignal(c) PROVE EmptyHanded'
  BY <1>12 DEF CloseSignal
<1>13. ASSUME NEW c \in Closers, CloseSender(c) PROVE EmptyHanded'
  BY <1>13 DEF CloseSender
<1>14. ASSUME NEW c \in Closers, CloseTimeout(c) PROVE EmptyHanded'
  BY <1>14 DEF CloseTimeout
<1>15. ASSUME NEW a \in Actors, Lock(a) PROVE EmptyHanded'
  BY <1>15 DEF Lock
<1>16. ASSUME NEW a \in Actors, TrySent(a) PROVE EmptyHanded'
  BY <1>16, <1>2 DEF TrySent
<1>17. ASSUME NEW a \in Actors, TryDropped(a) PROVE EmptyHanded'
  BY <1>17, <1>2 DEF TryDropped
<1>18. ASSUME NEW a \in Actors, TryFailed(a) PROVE EmptyHanded'
  BY <1>18 DEF TryFailed
<1>19. ASSUME NEW a \in Actors, NEW D \in SUBSET hand[a], NEW R \in SUBSET hand[a],
              TryPartial(a, D, R)
       PROVE  EmptyHanded'
  <2>1. CASE Again(a, D, R) # {} /\ attempt[a] < MaxAttempts
    BY <1>19, <2>1 DEF TryPartial
  <2>2. CASE ~(Again(a, D, R) # {} /\ attempt[a] < MaxAttempts)
    BY <1>19, <2>2, <1>2 DEF TryPartial
  <2> QED  BY <2>1, <2>2
<1>20. ASSUME NEW a \in Actors, WaitDone(a) PROVE EmptyHanded'
  BY <1>20 DEF WaitDone
<1>21. ASSUME NEW a \in Actors, WaitAborted(a) PROVE EmptyHanded'
  BY <1>21, <1>2 DEF WaitAborted
<1>22. CASE NextWake
  BY <1>22 DEF NextWake
<1>23. CASE WorkerWake
  BY <1>23 DEF WorkerWake
<1>24. CASE WorkerTimer
  BY <1>24 DEF WorkerTimer
<1>25. CASE WorkerClose
  BY <1>25 DEF WorkerClose
<1>26. CASE TakeBatch
  BY <1>26 DEF TakeBatch
<1>27. CASE Age
  BY <1>27 DEF Age
<1> HIDE DEF EmptyHanded
<1>28. CASE Next
  BY <1>28, StepCases, <1>4, <1>5, <1>6, <1>7, <1>8, <1>9, <1>10, <1>11, <1>12,
     <1>13, <1>14, <1>15, <1>16, <1>17, <1>18, <1>19, <1>20, <1>21, <1>22, <1>23, <1>24,
     <1>25, <1>26, <1>27
<1> QED  BY <1>1, <1>28

(* The end of a sendBatch, whose events settle as S sent and the rest dropped. *)
LEMMA FinishSettles ==
    ASSUME TypeOK, Custody, NEW a \in Actors, Finish(a), NEW S, S \subseteq hand[a],
           sentN' = Add(sentN, S), droppedN' = Add(droppedN, hand[a] \ S),
           UNCHANGED <<buf, fresh>>
    PROVE  Custody' /\ Settled' = Settled \cup hand[a]
<1> DEFINE D == hand[a] \ S
<1>1. hand' = [hand EXCEPT ![a] = hand[a] \ (S \cup D)]
  BY ThreadSets DEF TypeOK, Finish
<1>2. D \subseteq hand[a] /\ S \cap D = {} /\ S \cup D = hand[a] /\ a \in Threads
  BY ThreadSets
<1>3. droppedN' = Add(droppedN, D)
  OBVIOUS
<1> HIDE DEF D
<1>4. Custody' /\ Settled' = Settled \cup S \cup D
  BY <1>1, <1>2, <1>3, CustodySettles
<1> QED  BY <1>2, <1>4

(* A batch that settles in part, the rest of which is tried again. *)
LEMMA PartialSettles ==
    ASSUME TypeOK, Custody, NEW a \in Actors, NEW D \in SUBSET hand[a], NEW R \in SUBSET hand[a],
           TryPartial(a, D, R), Again(a, D, R) # {}, attempt[a] < MaxAttempts
    PROVE  /\ Custody'
           /\ Settled' = Settled \cup (hand[a] \ Again(a, D, R))
           /\ hand' = [hand EXCEPT ![a] = Again(a, D, R)]
           /\ UNCHANGED <<buf, fresh, sendMu, owed>>
<1> DEFINE S == hand[a] \ (D \cup R)
<1>1. /\ sentN' = Add(sentN, S) /\ droppedN' = Add(droppedN, D)
      /\ hand' = [hand EXCEPT ![a] = Again(a, D, R)]
      /\ UNCHANGED <<buf, fresh, sendMu, owed>>
  BY DEF TryPartial
<1>2. Again(a, D, R) = hand[a] \ (S \cup D)
  BY DEF Again
<1>3. S \subseteq hand[a] /\ S \cap D = {}
  OBVIOUS
<1> HIDE DEF S
<1>4. Custody' /\ Settled' = Settled \cup S \cup D
  BY <1>1, <1>2, <1>3, CustodySettles, ThreadSets
<1>5. hand[a] \ Again(a, D, R) = S \cup D
  BY <1>2, <1>3
<1> QED  BY <1>1, <1>4, <1>5

(* Every way a sendBatch ends settles all that is left of its batch. *)
Ends(a) == \/ TrySent(a) \/ TryDropped(a) \/ WaitAborted(a)
           \/ \E D, R \in SUBSET hand[a] :
                 TryPartial(a, D, R) /\ ~(Again(a, D, R) # {} /\ attempt[a] < MaxAttempts)

LEMMA EndsSettles ==
    ASSUME TypeOK, Custody, NEW a \in Actors, Ends(a)
    PROVE  Custody' /\ Settled' = Settled \cup hand[a] /\ Finish(a)
           /\ UNCHANGED <<buf, fresh, closed, closing, final>>
<1>t. sentN \in [Events -> Nat] /\ droppedN \in [Events -> Nat]
  BY DEF TypeOK
<1>1. CASE TrySent(a)
  BY <1>1, <1>t, AddNothing, FinishSettles DEF TrySent
<1>2. CASE TryDropped(a)
  BY <1>2, <1>t, AddNothing, FinishSettles DEF TryDropped
<1>3. CASE WaitAborted(a)
  BY <1>3, <1>t, AddNothing, FinishSettles DEF WaitAborted
<1>4. ASSUME NEW D \in SUBSET hand[a], NEW R \in SUBSET hand[a], TryPartial(a, D, R),
             ~(Again(a, D, R) # {} /\ attempt[a] < MaxAttempts)
      PROVE  Custody' /\ Settled' = Settled \cup hand[a] /\ Finish(a)
             /\ UNCHANGED <<buf, fresh, closed, closing, final>>
  <2>1. /\ sentN' = Add(sentN, hand[a] \ (D \cup R))
        /\ droppedN' = Add(droppedN, D \cup Again(a, D, R))
        /\ Finish(a)
        /\ UNCHANGED <<buf, fresh, closed, closing, final>>
    BY <1>4 DEF TryPartial
  <2>2. D \cup Again(a, D, R) = hand[a] \ (hand[a] \ (D \cup R))
    BY DEF Again
  <2> QED  BY <2>1, <2>2, FinishSettles
<1> QED  BY <1>1, <1>2, <1>3, <1>4 DEF Ends

(* Under mu a sender swaps its event for the one it evicts, if it must. *)
LEMMA AppendCustody ==
    ASSUME TypeInv, EmptyHanded, Custody, NEW s \in Senders, SendAppend(s)
    PROVE  /\ Custody'
           /\ InBuf' = (InBuf \cup hand[s]) \ Victim
           /\ hand' = [hand EXCEPT ![s] = Victim]
           /\ UNCHANGED <<sentN, droppedN, fresh, closed, closing, final, sendMu, owed>>
<1> USE ThreadSets
<1>t. /\ buf \in Seq(Events) /\ hand \in [Threads -> SUBSET Events]
      /\ NoRepeats(buf) /\ MaxBuffer \in Nat \ {0} /\ Len(buf) \in Nat
  BY OptionsAssumption DEF TypeInv, TypeOK, Custody, OneHolder, NoRepeats
<1>1. PICK e \in Events : hand[s] = {e}
  BY DEF SendAppend, EmptyHanded
<1>2. e \notin Elems(buf)
  BY <1>1, InBufElems DEF Custody, OneHolder
<1>3. buf' = Queued(e) /\ hand' = [hand EXCEPT ![s] = Victim]
      /\ UNCHANGED <<sentN, droppedN, fresh, closed, closing, final, sendMu, owed>>
  BY <1>1 DEF SendAppend, history
<1>4. /\ InBuf' = (InBuf \ Victim) \cup {e} /\ NoRepeats(buf') /\ Victim \subseteq InBuf
  <2>1. InBuf' = Elems(buf')
    BY DEF InBuf, Elems
  <2>2. CASE Full
    <3> DEFINE rest == Tail(buf)
    <3>1. buf # <<>>
      BY <2>2, <1>t DEF Full
    <3>2. /\ rest \in Seq(Events) /\ Elems(rest) = Elems(buf) \ {Head(buf)}
          /\ NoRepeats(rest) /\ Head(buf) \in Elems(buf)
      BY <3>1, <1>t, TailElems
    <3>3. buf' = Append(rest, e) /\ Victim = {Head(buf)}
      BY <2>2, <1>3 DEF Queued, Victim
    <3> HIDE DEF rest
    <3>4. Elems(Append(rest, e)) = Elems(rest) \cup {e} /\ NoRepeats(Append(rest, e))
      BY <3>2, <1>2, AppendElems
    <3> QED  BY <2>1, <3>2, <3>3, <3>4, InBufElems
  <2>3. CASE ~Full
    <3>1. Elems(Append(buf, e)) = Elems(buf) \cup {e} /\ NoRepeats(Append(buf, e))
      BY <1>t, <1>2, AppendElems
    <3> QED  BY <2>1, <2>3, <1>3, <3>1, InBufElems DEF Queued, Victim
  <2> QED  BY <2>2, <2>3
<1>5. (\A u \in Threads : u # s => hand'[u] = hand[u]) /\ hand'[s] = Victim
  BY <1>3, <1>t
<1>6. Settled' = Settled /\ CountedOnce' /\ e \notin Settled \cup fresh
  BY <1>1, <1>3 DEF Settled, CountedOnce, Custody, OneHolder
<1>7. OneHolder'
  <2>1. \A u \in Threads \ {s} : e \notin hand[u] /\ hand[u] \cap Victim = {}
    BY <1>1, <1>4 DEF Custody, OneHolder
  <2>2. e \notin InBuf
    BY <1>2, InBufElems
  <2>3. \A u \in Threads : hand'[u] \cap (InBuf' \cup Settled' \cup fresh') = {}
    BY <1>3, <1>4, <1>5, <1>6, <2>1, <2>2 DEF Custody, OneHolder
  <2>4. \A u, v \in Threads : u # v => hand'[u] \cap hand'[v] = {}
    BY <1>5, <2>1 DEF Custody, OneHolder
  <2>5. InBuf' \cap (Settled' \cup fresh') = {} /\ Settled' \cap fresh' = {}
    BY <1>3, <1>4, <1>6 DEF Custody, OneHolder
  <2> QED  BY <2>3, <2>4, <2>5, <1>4 DEF OneHolder, NoRepeats
<1>8. NothingLost'
  <2> SUFFICES ASSUME NEW x \in Events \ fresh
               PROVE  x \in InBuf' \cup InHands(Threads)' \cup Settled'
    BY <1>3 DEF NothingLost
  <2>1. CASE x \in InBuf \cup Settled
    BY <2>1, <1>4, <1>5, <1>6 DEF InHands
  <2>2. CASE \E u \in Threads : x \in hand[u]
    BY <2>2, <1>1, <1>4, <1>5 DEF InHands
  <2> QED  BY <2>1, <2>2 DEF Custody, NothingLost, InHands
<1>9. InBuf' = (InBuf \cup hand[s]) \ Victim
  BY <1>1, <1>4, <1>2, InBufElems
<1> QED  BY <1>3, <1>6, <1>7, <1>8, <1>9 DEF Custody

(* The three takers of the buffer. *)
LEMMA TakeAllCustody ==
    ASSUME TypeInv, Custody, NEW a \in Actors, hand[a] = {}, buf' = <<>>,
           hand' = [hand EXCEPT ![a] = InBuf], UNCHANGED <<sentN, droppedN, fresh>>
    PROVE  Custody' /\ InBuf' = {}
<1>1. InBuf' = {} /\ NoRepeats(buf')
  BY EmptyQueue DEF InBuf, NoRepeats
<1>2. TypeOK /\ a \in Threads /\ InBuf' = InBuf \ InBuf
  BY <1>1, ThreadSets DEF TypeInv
<1> QED  BY <1>1, <1>2, CustodyTakes

LEMMA TakeBatchCustody ==
    ASSUME TypeInv, EmptyHanded, Custody, TakeBatch
    PROVE  /\ Custody' /\ InBuf' \subseteq InBuf
           /\ InBuf' \cup hand'[Worker] = InBuf \cup hand[Worker]
           /\ \A u \in Threads \ {Worker} : hand'[u] = hand[u]
<1> USE ThreadSets
<1>t. /\ buf \in Seq(Events) /\ NoRepeats(buf) /\ BatchSize \in Nat /\ TypeOK
      /\ hand[Worker] = {} /\ hand \in [Threads -> SUBSET Events]
      /\ UNCHANGED <<sentN, droppedN, fresh>>
  BY OptionsAssumption
  DEF TypeInv, TypeOK, Custody, OneHolder, NoRepeats, EmptyHanded, Resting, TakeBatch, history
<1>1. CASE Ready
  <2> DEFINE batch == {buf[i] : i \in {j \in 1..Len(buf) : j <= BatchSize}}
  <2>1. hand' = [hand EXCEPT ![Worker] = batch] /\ buf' = Rest
    BY <1>1 DEF TakeBatch
  <2>a. Rest = Back(buf, BatchSize) /\ batch = Front(buf, BatchSize)
    BY DEF Rest, Front, Back
  <2> HIDE DEF batch
  <2>2. /\ Elems(Rest) = Elems(buf) \ batch /\ batch \subseteq Elems(buf) /\ NoRepeats(Rest)
    BY <1>t, <2>a, RestElems
  <2>3. InBuf' = InBuf \ batch /\ batch \subseteq InBuf /\ NoRepeats(buf')
    BY <2>1, <2>2 DEF InBuf, Elems
  <2>4. Custody'
    BY <2>1, <2>3, <1>t, CustodyTakes
  <2> QED  BY <2>1, <2>3, <2>4, <1>t
<1>2. CASE ~Ready
  <2>1. UNCHANGED <<buf, hand>>
    BY <1>2 DEF TakeBatch
  <2> QED  BY <2>1, <1>t, CustodyKept DEF InBuf
<1> QED  BY <1>1, <1>2

(* An event a caller sends leaves fresh for its hands. *)
LEMMA SendCustody ==
    ASSUME TypeInv, EmptyHanded, Custody, NEW s \in Senders, NEW e \in Events,
           SendCheck(s, e)
    PROVE  Custody'
<1> USE ThreadSets
<1>t. hand \in [Threads -> SUBSET Events] /\ e \in fresh
      /\ UNCHANGED <<buf, sentN, droppedN>> /\ fresh' = fresh \ {e}
  BY DEF TypeInv, TypeOK, SendCheck
<1>1. InBuf' = InBuf /\ Settled' = Settled /\ CountedOnce'
  BY <1>t DEF InBuf, Settled, CountedOnce, Custody
<1>2. hand[s] = {} /\ hand'[s] = {e} /\ \A u \in Threads : u # s => hand'[u] = hand[u]
  BY <1>t DEF SendCheck, EmptyHanded, Resting
<1>3. OneHolder'
  BY <1>t, <1>1, <1>2 DEF Custody, OneHolder
<1>4. NothingLost'
  <2> SUFFICES ASSUME NEW x \in Events \ fresh'
               PROVE  x \in InBuf' \cup InHands(Threads)' \cup Settled'
    BY DEF NothingLost
  <2>1. CASE x = e
    BY <2>1, <1>2 DEF InHands
  <2>2. CASE x # e
    BY <2>2, <1>t, <1>1, <1>2 DEF Custody, NothingLost, InHands
  <2> QED  BY <2>1, <2>2
<1> QED  BY <1>1, <1>3, <1>4 DEF Custody

LEMMA CountCustody ==
    ASSUME TypeInv, Custody, NEW s \in Senders, SendCount(s)
    PROVE  /\ Custody' /\ Settled' = Settled \cup hand[s]
           /\ hand' = [hand EXCEPT ![s] = {}]
           /\ UNCHANGED <<buf, fresh, sendMu, owed, closed, closing, final>>
<1>1. /\ s \in Threads /\ TypeOK /\ sentN \in [Events -> Nat]
      /\ droppedN' = Add(droppedN, hand[s]) /\ hand' = [hand EXCEPT ![s] = {}]
      /\ UNCHANGED <<sentN, buf, fresh, sendMu, owed, closed, closing, final>>
  BY ThreadSets DEF TypeInv, TypeOK, SendCount, history
<1>2. sentN' = Add(sentN, {}) /\ hand' = [hand EXCEPT ![s] = hand[s] \ ({} \cup hand[s])]
  BY <1>1, AddNothing
<1> DEFINE none == {}
<1>a. /\ none \subseteq hand[s] /\ hand[s] \subseteq hand[s] /\ none \cap hand[s] = {}
      /\ sentN' = Add(sentN, none) /\ hand' = [hand EXCEPT ![s] = hand[s] \ (none \cup hand[s])]
  BY <1>2
<1> HIDE DEF none
<1>3. Custody' /\ Settled' = Settled \cup none \cup hand[s]
  BY <1>1, <1>a, CustodySettles
<1> QED  BY <1>1, <1>3 DEF none

CustodyInv == TypeInv /\ EmptyHanded /\ Custody

LEMMA CustodyInit == Init => EmptyHanded /\ Custody
<1> SUFFICES ASSUME Init PROVE EmptyHanded /\ Custody
  OBVIOUS
<1> USE ThreadSets DEF Init
<1>1. InBuf = {} /\ Settled = {} /\ InHands(Threads) = {}
  BY DEF InBuf, Settled, InHands
<1>2. EmptyHanded
  BY DEF EmptyHanded
<1>3. Custody
  BY <1>1 DEF Custody, OneHolder, NothingLost, CountedOnce
<1> QED  BY <1>2, <1>3

LEMMA CustodyStep == CustodyInv /\ [Next]_vars => Custody'
<1> SUFFICES ASSUME TypeInv, EmptyHanded, Custody, [Next]_vars PROVE Custody'
  BY DEF CustodyInv
<1> USE ThreadSets
<1>t. TypeOK
  BY DEF TypeInv
<1>1. CASE UNCHANGED vars
  BY <1>1, CustodyKept DEF vars, state, history
<1>2. ASSUME NEW a \in Actors, Ends(a) PROVE Custody'
  BY <1>2, <1>t, EndsSettles
<1>3. ASSUME NEW s \in Senders, SendSignal(s) PROVE Custody'
  BY <1>3, CustodyKept DEF SendSignal, history
<1>4. ASSUME NEW f \in Flushers, FlushStart(f) PROVE Custody'
  BY <1>4, CustodyKept DEF FlushStart
<1>5. ASSUME NEW f \in Flushers, FlushTake(f) PROVE Custody'
  <2>1. hand[f] = {}
    BY <1>5 DEF FlushTake, EmptyHanded, Resting
  <2> QED  BY <2>1, <1>5, TakeAllCustody DEF FlushTake
<1>6. ASSUME NEW f \in Flushers, FlushEmpty(f) PROVE Custody'
  BY <1>6, CustodyKept DEF FlushEmpty
<1>7. ASSUME NEW c \in Closers, CloseStart(c) PROVE Custody'
  BY <1>7, CustodyKept DEF CloseStart, history
<1>8. ASSUME NEW c \in Closers, CloseSignal(c) PROVE Custody'
  BY <1>8, CustodyKept DEF CloseSignal, history
<1>9. ASSUME NEW c \in Closers, CloseSender(c) PROVE Custody'
  BY <1>9, CustodyKept DEF CloseSender, history
<1>10. ASSUME NEW c \in Closers, CloseTimeout(c) PROVE Custody'
  BY <1>10, CustodyKept DEF CloseTimeout, history
<1>11. ASSUME NEW a \in Actors, Lock(a) PROVE Custody'
  BY <1>11, CustodyKept DEF Lock, history
<1>12. ASSUME NEW a \in Actors, TrySent(a) PROVE Custody'
  BY <1>12, <1>2 DEF Ends
<1>13. ASSUME NEW a \in Actors, TryDropped(a) PROVE Custody'
  BY <1>13, <1>2 DEF Ends
<1>14. ASSUME NEW a \in Actors, TryFailed(a) PROVE Custody'
  BY <1>14, CustodyKept DEF TryFailed, history
<1>15. ASSUME NEW a \in Actors, NEW D \in SUBSET hand[a], NEW R \in SUBSET hand[a],
              TryPartial(a, D, R)
       PROVE  Custody'
  <2>1. CASE Again(a, D, R) # {} /\ attempt[a] < MaxAttempts
    BY <1>15, <2>1, <1>t, PartialSettles
  <2>2. CASE ~(Again(a, D, R) # {} /\ attempt[a] < MaxAttempts)
    BY <1>15, <2>2, <1>2 DEF Ends
  <2> QED  BY <2>1, <2>2
<1>16. ASSUME NEW a \in Actors, WaitDone(a) PROVE Custody'
  BY <1>16, CustodyKept DEF WaitDone, history
<1>17. ASSUME NEW a \in Actors, WaitAborted(a) PROVE Custody'
  BY <1>17, <1>2 DEF Ends
<1>18. CASE NextWake
  BY <1>18, CustodyKept DEF NextWake, history
<1>19. CASE WorkerWake
  BY <1>19, CustodyKept DEF WorkerWake, history
<1>20. CASE WorkerTimer
  BY <1>20, CustodyKept DEF WorkerTimer, history
<1>21. CASE WorkerClose
  <2>1. hand[Worker] = {}
    BY <1>21 DEF WorkerClose, EmptyHanded, Resting
  <2> QED  BY <2>1, <1>21, TakeAllCustody DEF WorkerClose, Leftover, history
<1>22. CASE TakeBatch
  BY <1>22, TakeBatchCustody
<1>23. CASE Age
  BY <1>23, CustodyKept DEF Age, history
<1>24. CASE Next
  BY <1>24, StepCases, SendCustody, AppendCustody, CountCustody, <1>3, <1>4, <1>5, <1>6,
     <1>7, <1>8, <1>9, <1>10, <1>11, <1>12, <1>13, <1>14, <1>15, <1>16, <1>17, <1>18,
     <1>19, <1>20, <1>21, <1>22, <1>23
<1> QED  BY <1>1, <1>24

LEMMA CustodyAlways == Spec => []CustodyInv
<1>1. Init => CustodyInv
  BY TypeInit, CustodyInit DEF CustodyInv
<1>2. CustodyInv /\ [Next]_vars => CustodyInv'
  BY TypeStep, EmptyHandedStep, CustodyStep DEF CustodyInv
<1> QED  BY <1>1, <1>2, PTL DEF Spec

(* At any moment the buffer, one goroutine or one counter answers for each event  *)
(* that passed the filter, through evictions, partial retries, Flush and Close.   *)
THEOREM Answered == Spec => []Custody
<1>1. CustodyInv => Custody
  BY DEF CustodyInv
<1> QED  BY <1>1, CustodyAlways, PTL

(***************************************************************************)
(* What callers of Pipeline rely on: it implements the promise of a drain, *)
(* its Close drains the buffer, its Flush settles what it took, and its    *)
(* worker does not sleep over a due buffer.  All but the last follow from  *)
(* who holds which event, CustodyInv.                                      *)
(***************************************************************************)

(* What the counters and the set of new events change in one step: a caller's new *)
(* event is taken in, or one goroutine settles some of the events it holds.        *)
Takes   == \E s \in Senders, e \in Events : SendCheck(s, e)
Settles == \E t \in Threads : \E S, D \in SUBSET hand[t] :
              /\ S \cap D = {}
              /\ sentN' = Add(sentN, S) /\ droppedN' = Add(droppedN, D)
              /\ UNCHANGED fresh
Idles   == UNCHANGED <<sentN, droppedN, fresh>>

LEMMA TrySettles ==
    ASSUME TypeOK, NEW a \in Actors, Try(a) \/ Wait(a)
    PROVE  Settles \/ Idles
<1> USE ThreadSets
<1>t. a \in Threads /\ sentN \in [Events -> Nat] /\ droppedN \in [Events -> Nat]
  BY DEF TypeOK
<1>1. CASE TrySent(a)
  <2>1. sentN' = Add(sentN, hand[a]) /\ droppedN' = Add(droppedN, {}) /\ UNCHANGED fresh
    BY <1>1, <1>t, AddNothing DEF TrySent
  <2> QED  BY <2>1, <1>t DEF Settles
<1>2. CASE TryDropped(a) \/ WaitAborted(a)
  <2>1. sentN' = Add(sentN, {}) /\ droppedN' = Add(droppedN, hand[a]) /\ UNCHANGED fresh
    BY <1>2, <1>t, AddNothing DEF TryDropped, WaitAborted
  <2> QED  BY <2>1, <1>t DEF Settles
<1>3. CASE TryFailed(a) \/ WaitDone(a)
  BY <1>3 DEF TryFailed, WaitDone, history, Idles
<1>4. ASSUME NEW D \in SUBSET hand[a], NEW R \in SUBSET hand[a], TryPartial(a, D, R)
      PROVE  Settles
  <2>1. PICK E \in {D, D \cup Again(a, D, R)} :
          /\ sentN' = Add(sentN, hand[a] \ (D \cup R)) /\ droppedN' = Add(droppedN, E)
          /\ UNCHANGED fresh
    BY <1>4 DEF TryPartial
  <2>2. E \in SUBSET hand[a] /\ (hand[a] \ (D \cup R)) \cap E = {}
    BY <2>1 DEF Again
  <2> QED  BY <2>1, <2>2, <1>t DEF Settles
<1> QED  BY <1>1, <1>2, <1>3, <1>4 DEF Try, Wait

LEMMA StepKinds ==
    ASSUME TypeOK, [Next]_vars
    PROVE  Takes \/ Settles \/ Idles
<1> USE ThreadSets
<1>1. CASE UNCHANGED vars
  BY <1>1 DEF vars, state, history, Idles
<1>2. ASSUME NEW s \in Senders, Send(s) PROVE Takes \/ Settles \/ Idles
  <2>1. CASE \E e \in Events : SendCheck(s, e)
    BY <2>1 DEF Takes
  <2>2. CASE SendAppend(s) \/ SendSignal(s)
    BY <2>2 DEF SendAppend, SendSignal, history, Idles
  <2>3. CASE SendCount(s)
    <3>1. sentN' = Add(sentN, {}) /\ droppedN' = Add(droppedN, hand[s]) /\ UNCHANGED fresh
      BY <2>3, AddNothing DEF SendCount, history, TypeOK
    <3> QED  BY <3>1 DEF Settles
  <2> QED  BY <1>2, <2>1, <2>2, <2>3 DEF Send
<1>3. ASSUME NEW f \in Flushers, Flush(f) PROVE Idles
  BY <1>3 DEF Flush, FlushStart, FlushTake, FlushEmpty, Idles
<1>4. ASSUME NEW c \in Closers, Close(c) PROVE Idles
  BY <1>4 DEF Close, CloseStart, CloseSignal, CloseSender, CloseTimeout, history, Idles
<1>5. ASSUME NEW a \in Actors, SendBatch(a) PROVE Settles \/ Idles
  <2>1. CASE Lock(a)
    BY <2>1 DEF Lock, history, Idles
  <2> QED  BY <1>5, <2>1, TrySettles DEF SendBatch
<1>6. CASE Run \/ Age
  BY <1>6 DEF Run, NextWake, WorkerWake, WorkerTimer, WorkerClose, TakeBatch, Age, history, Idles
<1> QED  BY <1>1, <1>2, <1>3, <1>4, <1>5, <1>6 DEF Next

----------------------------------------------------------------------------
(* The refinement: fate maps every step to a step of Delivery or to a stutter. *)

LEMMA FateInit == Init => Promise!Init
  BY DEF Init, Promise!Init, fate

LEMMA FateTakes ==
    ASSUME CustodyInv, Takes
    PROVE  Promise!Next
<1>1. PICK s \in Senders, e \in Events : SendCheck(s, e)
  BY DEF Takes
<1>2. e \in fresh /\ Admits(e) /\ fresh' = fresh \ {e} /\ UNCHANGED <<sentN, droppedN>>
  BY <1>1 DEF SendCheck
<1>3. sentN[e] = 0 /\ droppedN[e] = 0
  BY <1>2 DEF CustodyInv, TypeInv, TypeOK, Custody, OneHolder, Settled
<1>4. fate[e] = "new" /\ e \in {x \in Events : Admits(x)}
  BY <1>2 DEF fate
<1>5. fate' = [fate EXCEPT ![e] = "held"]
  <2>1. fate'[e] = "held"
    BY <1>2, <1>3 DEF fate
  <2>2. \A x \in Events : x # e => fate'[x] = fate[x]
    BY <1>2 DEF fate
  <2>3. fate = [x \in Events |-> fate[x]] /\ fate' = [x \in Events |-> fate'[x]]
    BY DEF fate
  <2> HIDE DEF fate
  <2> QED  BY <2>1, <2>2, <2>3
<1>6. Promise!Accept(e)
  BY <1>4, <1>5 DEF Promise!Accept
<1> QED  BY <1>6 DEF Promise!Next

LEMMA FateSettles ==
    ASSUME CustodyInv, Settles
    PROVE  Promise!Next
<1>1. PICK t \in Threads : \E S, D \in SUBSET hand[t] :
          /\ S \cap D = {}
          /\ sentN' = Add(sentN, S) /\ droppedN' = Add(droppedN, D)
          /\ UNCHANGED fresh
  BY DEF Settles
<1>2. PICK S \in SUBSET hand[t], D \in SUBSET hand[t] :
          /\ S \cap D = {}
          /\ sentN' = Add(sentN, S) /\ droppedN' = Add(droppedN, D)
          /\ UNCHANGED fresh
  BY <1>1
<1>3. hand[t] \subseteq Events /\ hand[t] \cap (Settled \cup fresh) = {}
  BY DEF CustodyInv, TypeInv, TypeOK, Custody, OneHolder
<1>4. \A e \in Events : sentN[e] \in Nat /\ droppedN[e] \in Nat
  BY DEF CustodyInv, TypeInv, TypeOK
<1>5. \A e \in hand[t] : e \in Events /\ e \notin fresh /\ sentN[e] = 0 /\ droppedN[e] = 0
  BY <1>3, <1>4 DEF Settled
<1>6. \A e \in Events : /\ sentN'[e] = IF e \in S THEN sentN[e] + 1 ELSE sentN[e]
                        /\ droppedN'[e] = IF e \in D THEN droppedN[e] + 1 ELSE droppedN[e]
  BY <1>2 DEF Add
<1>7. S \in SUBSET Promise!Pending /\ D \in SUBSET Promise!Pending
  BY <1>5 DEF Promise!Pending, fate
<1>8. \A e \in Events : fate'[e] = IF e \in S THEN "sent"
                                   ELSE IF e \in D THEN "dropped" ELSE fate[e]
  BY <1>2, <1>4, <1>5, <1>6 DEF fate
<1>9. Promise!Settle(S, D)
  BY <1>2, <1>8 DEF Promise!Settle, fate
<1> QED  BY <1>7, <1>9 DEF Promise!Next

LEMMA FateStep == CustodyInv /\ [Next]_vars => [Promise!Next]_fate
<1> SUFFICES ASSUME CustodyInv, [Next]_vars PROVE [Promise!Next]_fate
  OBVIOUS
<1>1. CASE Idles
  BY <1>1 DEF Idles, fate
<1>2. TypeOK
  BY DEF CustodyInv, TypeInv
<1> QED  BY <1>1, <1>2, StepKinds, FateTakes, FateSettles

(* wrapped implements the promise of a drain: an event that passed the level filter *)
(* settles once, as sent or as dropped, and no answer of the backend, retry, Flush or *)
(* Close changes that afterwards.                                                   *)
THEOREM Implements == Spec => Delivers
<1>1. Spec => []CustodyInv /\ Init /\ [][Next]_vars
  BY CustodyAlways DEF Spec
<1>2. Spec => Promise!Init /\ [][Promise!Next]_fate
  BY <1>1, FateInit, FateStep, PTL
<1> QED  BY <1>2 DEF Delivers, Promise!Spec

----------------------------------------------------------------------------
(* Close.  The worker ends in the flushAll of its closing case, which empties the *)
(* buffer: what is in the buffer from then on entered it behind the closed flag.  *)

DrainInv ==
    /\ closing => closed
    /\ \A c \in Closers : pc[c] = "signal" => closed
    /\ final => closed /\ InBuf \subseteq late /\ pc[Worker] \in {"lock", "try", "wait", "done"}
    /\ pc[Worker] = "done" => final
    /\ \A c \in Closers : hand[c] = {}

LEMMA DrainInit == Init => DrainInv
  BY ThreadSets DEF Init, DrainInv

LEMMA DrainStep == CustodyInv /\ DrainInv /\ [Next]_vars => DrainInv'
<1> SUFFICES ASSUME TypeInv, EmptyHanded, Custody, DrainInv, [Next]_vars PROVE DrainInv'
  BY DEF CustodyInv
<1> USE ThreadSets
<1>t. TypeOK /\ pc \in [Threads -> Places] /\ hand \in [Threads -> SUBSET Events]
  BY DEF TypeInv, TypeOK
<1>1. CASE UNCHANGED vars
  BY <1>1 DEF DrainInv, InBuf, vars, state, history
<1>2. ASSUME NEW a \in Actors, Ends(a) PROVE DrainInv'
  <2>1. Finish(a) /\ UNCHANGED <<buf, closed, closing, final>>
    BY <1>2, <1>t, EndsSettles
  <2>2. UNCHANGED late /\ pc[a] \in {"try", "wait"}
    BY <1>2 DEF Ends, TrySent, TryDropped, WaitAborted, TryPartial
  <2>3. InBuf' = InBuf /\ \A c \in Closers : hand'[c] = hand[c] /\ pc'[c] = pc[c]
    BY <2>1, <1>t DEF InBuf, Finish
  <2>4. CASE a = Worker
    <3>1. pc'[Worker] = IF final THEN "done" ELSE "arm"
      BY <2>1, <2>4, <1>t DEF Finish
    <3> QED  BY <2>1, <2>2, <2>3, <3>1 DEF DrainInv
  <2>5. CASE a # Worker
    <3>1. pc'[Worker] = pc[Worker]
      BY <2>1, <2>5, <1>t DEF Finish
    <3> QED  BY <2>1, <2>2, <2>3, <3>1 DEF DrainInv
  <2> QED  BY <2>4, <2>5
<1>3. ASSUME NEW s \in Senders, NEW e \in Events, SendCheck(s, e) PROVE DrainInv'
  BY <1>3, <1>t DEF DrainInv, SendCheck, InBuf
<1>4. ASSUME NEW s \in Senders, SendAppend(s) PROVE DrainInv'
  <2>1. /\ InBuf' = (InBuf \cup hand[s]) \ Victim
        /\ hand' = [hand EXCEPT ![s] = Victim]
        /\ UNCHANGED <<closed, closing, final>>
    BY <1>4, AppendCustody
  <2>2. /\ late' = IF closed THEN late \cup hand[s] ELSE late
        /\ pc' = [pc EXCEPT ![s] = "signal"]
    BY <1>4 DEF SendAppend
  <2>3. s # Worker /\ s \notin Closers
    OBVIOUS
  <2> QED  BY <2>1, <2>2, <2>3, <1>t DEF DrainInv
<1>5. ASSUME NEW s \in Senders, SendSignal(s) PROVE DrainInv'
  BY <1>5, <1>t DEF DrainInv, SendSignal, InBuf, history
<1>6. ASSUME NEW s \in Senders, SendCount(s) PROVE DrainInv'
  BY <1>6, <1>t DEF DrainInv, SendCount, InBuf, history
<1>7. ASSUME NEW f \in Flushers, FlushStart(f) PROVE DrainInv'
  BY <1>7, <1>t DEF DrainInv, FlushStart, InBuf
<1>8. ASSUME NEW f \in Flushers, FlushTake(f) PROVE DrainInv'
  <2>1. InBuf' \subseteq InBuf /\ f \notin Closers /\ f # Worker
    BY <1>8, EmptyQueue DEF FlushTake, InBuf
  <2>2. \A c \in Closers : hand'[c] = hand[c] /\ pc'[c] = pc[c]
    BY <1>8, <1>t, <2>1 DEF FlushTake
  <2> QED  BY <1>8, <1>t, <2>1, <2>2 DEF DrainInv, FlushTake
<1>9. ASSUME NEW f \in Flushers, FlushEmpty(f) PROVE DrainInv'
  BY <1>9, <1>t DEF DrainInv, FlushEmpty, InBuf
<1>10. ASSUME NEW c \in Closers, CloseStart(c) PROVE DrainInv'
  BY <1>10, <1>t DEF DrainInv, CloseStart, InBuf, history
<1>11. ASSUME NEW c \in Closers, CloseSignal(c) PROVE DrainInv'
  BY <1>11, <1>t DEF DrainInv, CloseSignal, InBuf, history
<1>12. ASSUME NEW c \in Closers, CloseSender(c) PROVE DrainInv'
  BY <1>12, <1>t DEF DrainInv, CloseSender, InBuf, history
<1>13. ASSUME NEW c \in Closers, CloseTimeout(c) PROVE DrainInv'
  BY <1>13, <1>t DEF DrainInv, CloseTimeout, InBuf, history
<1>14. ASSUME NEW a \in Actors, Lock(a) PROVE DrainInv'
  BY <1>14, <1>t DEF DrainInv, Lock, InBuf, history
<1>15. ASSUME NEW a \in Actors, TrySent(a) \/ TryDropped(a) \/ WaitAborted(a) PROVE DrainInv'
  BY <1>15, <1>2 DEF Ends
<1>16. ASSUME NEW a \in Actors, TryFailed(a) PROVE DrainInv'
  BY <1>16, <1>t DEF DrainInv, TryFailed, InBuf, history
<1>17. ASSUME NEW a \in Actors, NEW D \in SUBSET hand[a], NEW R \in SUBSET hand[a],
              TryPartial(a, D, R)
       PROVE  DrainInv'
  <2>1. CASE Again(a, D, R) # {} /\ attempt[a] < MaxAttempts
    BY <1>17, <2>1, <1>t DEF DrainInv, TryPartial, InBuf
  <2>2. CASE ~(Again(a, D, R) # {} /\ attempt[a] < MaxAttempts)
    BY <1>17, <2>2, <1>2 DEF Ends
  <2> QED  BY <2>1, <2>2
<1>18. ASSUME NEW a \in Actors, WaitDone(a) PROVE DrainInv'
  BY <1>18, <1>t DEF DrainInv, WaitDone, InBuf, history
<1>19. CASE NextWake \/ WorkerWake \/ WorkerTimer
  BY <1>19, <1>t DEF DrainInv, NextWake, WorkerWake, WorkerTimer, InBuf, history
<1>20. CASE WorkerClose
  <2>1. InBuf' = {}
    BY <1>20, EmptyQueue DEF WorkerClose, InBuf
  <2>2. pc'[Worker] \in {"done", "lock"} /\ \A c \in Closers : pc'[c] = pc[c] /\ hand'[c] = hand[c]
    BY <1>20, <1>t DEF WorkerClose
  <2> QED  BY <1>20, <2>1, <2>2 DEF DrainInv, WorkerClose
<1>21. CASE TakeBatch
  <2>1. InBuf' \subseteq InBuf /\ \A c \in Closers : hand'[c] = hand[c]
    BY <1>21, TakeBatchCustody
  <2>2. pc'[Worker] \in {"lock", "arm"} /\ \A c \in Closers : pc'[c] = pc[c]
    BY <1>21, <1>t DEF TakeBatch
  <2> QED  BY <1>21, <2>1, <2>2 DEF DrainInv, TakeBatch, history
<1>22. CASE Age
  BY <1>22 DEF DrainInv, Age, InBuf, history
<1> HIDE DEF DrainInv
<1>23. CASE Next
  BY <1>23, StepCases, <1>3, <1>4, <1>5, <1>6, <1>7, <1>8, <1>9, <1>10, <1>11,
     <1>12, <1>13, <1>14, <1>15, <1>16, <1>17, <1>18, <1>19, <1>20, <1>21, <1>22
<1> QED  BY <1>1, <1>23

(* Close loses nothing that was accepted before it: once the worker has ended, an  *)
(* event is settled, with a Flush or a Send that will settle it, or came too late.  *)
THEOREM Drains == Spec => []CloseDrains
<1>1. Spec => [](CustodyInv /\ DrainInv)
  BY CustodyAlways, DrainInit, DrainStep, PTL DEF Spec
<1>2. CustodyInv /\ DrainInv => CloseDrains
  <2> SUFFICES ASSUME CustodyInv, DrainInv, pc[Worker] = "done", NEW e \in Events \ fresh
               PROVE  e \in late \cup Settled \cup InHands(Flushers \cup Senders)
    BY DEF CloseDrains
  <2>1. e \in InBuf \cup InHands(Threads) \cup Settled
    BY DEF CustodyInv, Custody, NothingLost
  <2>2. CASE e \in InBuf
    BY <2>2 DEF DrainInv
  <2>3. CASE \E t \in Threads : e \in hand[t]
    <3>1. hand[Worker] = {}
      BY ThreadSets DEF CustodyInv, EmptyHanded, Resting
    <3>2. \A c \in Closers : hand[c] = {}
      BY DEF DrainInv
    <3> QED  BY <2>3, <3>1, <3>2 DEF InHands, Threads, Actors
  <2> QED  BY <2>1, <2>2, <2>3 DEF InHands
<1> QED  BY <1>1, <1>2, PTL

----------------------------------------------------------------------------
(* Flush.  From the moment it has emptied the buffer, what it owes is settled, in *)
(* its own hands, or in the batch that holds sendMu; it cannot return before that *)
(* batch ends, because it must lock sendMu itself.                                *)

Sending == {"lock", "try", "wait"}
InFlight == IF sendMu = Nobody THEN {} ELSE hand[sendMu]

OwedInv == \A f \in Flushers : pc[f] \in Sending => owed[f] \subseteq Settled \cup hand[f] \cup InFlight

(* What FlushSettles says of one step. *)
Settling == \A f \in Flushers : pc[f] \in Sending /\ pc'[f] = "idle" => owed[f] \subseteq Settled'

FlushInv == CustodyInv /\ OneInFlight /\ OwedInv

LEMMA OwedStep == FlushInv /\ [Next]_vars => OwedInv' /\ Settling
<1> SUFFICES ASSUME TypeInv, EmptyHanded, Custody, OneInFlight, OwedInv, [Next]_vars
             PROVE  OwedInv' /\ Settling
  BY DEF FlushInv, CustodyInv
<1> USE ThreadSets DEF Sending
<1>t. /\ TypeOK /\ pc \in [Threads -> Places] /\ hand \in [Threads -> SUBSET Events]
      /\ sendMu \in Actors \cup {Nobody}
      /\ owed \in [Flushers -> SUBSET Events]
  BY DEF TypeInv, TypeOK
<1>1. ASSUME UNCHANGED <<sentN, droppedN, sendMu, owed>>,
             \A a \in Actors : hand'[a] = hand[a],
             \A f \in Flushers : pc'[f] \in Sending => pc[f] \in Sending,
             \A f \in Flushers : pc'[f] = "idle" => pc[f] \notin Sending
      PROVE  OwedInv' /\ Settling
  BY <1>1, <1>t DEF OwedInv, Settling, InFlight, Settled
<1>2. ASSUME NEW a \in Actors, Ends(a) PROVE OwedInv' /\ Settling
  <2>1. Settled' = Settled \cup hand[a] /\ Finish(a)
    BY <1>2, <1>t, EndsSettles
  <2>2. sendMu = a
    BY <1>2 DEF Ends, TrySent, TryDropped, WaitAborted, TryPartial, OneInFlight
  <2>3. InFlight = hand[a] /\ InFlight' = {}
    BY <2>1, <2>2 DEF InFlight, Finish, Released
  <2>4. \A f \in Flushers \ {a} : pc'[f] = pc[f] /\ hand'[f] = hand[f] /\ owed'[f] = owed[f]
    BY <2>1, <1>t DEF Finish, Returned
  <2>5. OwedInv'
    <3>1. a \in Flushers => pc'[a] = "idle"
      BY <2>1, <1>t DEF Finish
    <3> QED  BY <2>1, <2>3, <2>4, <3>1 DEF OwedInv
  <2>6. Settling
    BY <2>1, <2>3, <2>4 DEF OwedInv, Settling
  <2> QED  BY <2>5, <2>6
<1>3. ASSUME NEW s \in Senders, NEW e \in Events, SendCheck(s, e) PROVE OwedInv' /\ Settling
  BY <1>3, <1>1, <1>t DEF SendCheck
<1>4. ASSUME NEW s \in Senders, SendAppend(s) PROVE OwedInv' /\ Settling
  BY <1>4, <1>1, <1>t DEF SendAppend
<1>5. ASSUME NEW s \in Senders, SendSignal(s) PROVE OwedInv' /\ Settling
  BY <1>5, <1>1, <1>t DEF SendSignal, history
<1>6. ASSUME NEW s \in Senders, SendCount(s) PROVE OwedInv' /\ Settling
  <2>1. /\ Settled' = Settled \cup hand[s] /\ hand' = [hand EXCEPT ![s] = {}]
        /\ UNCHANGED <<sendMu, owed>>
    BY <1>6, CountCustody
  <2>2. \A a \in Actors : hand'[a] = hand[a] /\ pc'[a] = pc[a]
    BY <1>6, <2>1, <1>t DEF SendCount
  <2>3. InFlight' = InFlight
    BY <2>1, <2>2, <1>t DEF InFlight
  <2> QED  BY <2>1, <2>2, <2>3 DEF OwedInv, Settling
<1>7. ASSUME NEW f \in Flushers, FlushStart(f) PROVE OwedInv' /\ Settling
  BY <1>7, <1>1, <1>t DEF FlushStart
<1>8. ASSUME NEW f \in Flushers, FlushTake(f) PROVE OwedInv' /\ Settling
  <2>1. /\ hand' = [hand EXCEPT ![f] = InBuf] /\ owed' = [owed EXCEPT ![f] = InBuf \cup InFlight]
        /\ pc' = [pc EXCEPT ![f] = "lock"] /\ pc[f] = "flush"
        /\ UNCHANGED <<sentN, droppedN, sendMu>>
    BY <1>8 DEF FlushTake, InFlight
  <2>2. sendMu # f /\ f # Nobody
    BY <2>1 DEF OneInFlight
  <2>3. InFlight' = InFlight /\ Settled' = Settled
    BY <2>1, <2>2, <1>t DEF InFlight, Settled
  <2>4. OwedInv'
    <3> SUFFICES ASSUME NEW g \in Flushers, pc'[g] \in Sending
                 PROVE  owed'[g] \subseteq Settled' \cup hand'[g] \cup InFlight'
      BY DEF OwedInv
    <3>1. CASE g = f
      BY <3>1, <2>1, <2>3, <1>t
    <3>2. CASE g # f
      <4>1. owed'[g] = owed[g] /\ hand'[g] = hand[g] /\ pc'[g] = pc[g]
        BY <3>2, <2>1, <1>t
      <4> QED  BY <4>1, <2>3 DEF OwedInv
    <3> QED  BY <3>1, <3>2
  <2>5. Settling
    BY <2>1, <1>t DEF Settling
  <2> QED  BY <2>4, <2>5
<1>9. ASSUME NEW f \in Flushers, FlushEmpty(f) PROVE OwedInv' /\ Settling
  <2>1. /\ sendMu = Nobody /\ hand[f] = {} /\ pc[f] = "lock"
        /\ pc' = [pc EXCEPT ![f] = "idle"] /\ owed' = [owed EXCEPT ![f] = {}]
        /\ UNCHANGED <<sentN, droppedN, sendMu, hand>>
    BY <1>9 DEF FlushEmpty, MuFree, Returned
  <2>2. owed[f] \subseteq Settled /\ Settled' = Settled /\ InFlight' = InFlight
    BY <2>1 DEF OwedInv, InFlight, Settled
  <2>3. \A g \in Flushers \ {f} : pc'[g] = pc[g] /\ owed'[g] = owed[g]
    BY <2>1, <1>t
  <2>4. OwedInv'
    BY <2>1, <2>2, <2>3, <1>t DEF OwedInv
  <2>5. Settling
    BY <2>1, <2>2, <2>3, <1>t DEF Settling
  <2> QED  BY <2>4, <2>5
<1>10. ASSUME NEW c \in Closers, CloseStart(c) \/ CloseSignal(c) PROVE OwedInv' /\ Settling
  BY <1>10, <1>1, <1>t DEF CloseStart, CloseSignal, history
<1>11. ASSUME NEW c \in Closers, CloseSender(c) \/ CloseTimeout(c) PROVE OwedInv' /\ Settling
  BY <1>11, <1>1, <1>t DEF CloseSender, CloseTimeout, history
<1>12. ASSUME NEW a \in Actors, Lock(a) PROVE OwedInv' /\ Settling
  <2>1. /\ sendMu = Nobody /\ pc[a] = "lock" /\ pc' = [pc EXCEPT ![a] = "try"]
        /\ UNCHANGED <<sentN, droppedN, hand, owed>>
    BY <1>12 DEF Lock, MuFree, history
  <2>2. InFlight = {} /\ Settled' = Settled
    BY <2>1 DEF InFlight, Settled
  <2>3. \A f \in Flushers : pc'[f] \in Sending => pc[f] \in Sending
    BY <2>1, <1>t
  <2>4. \A f \in Flushers : pc'[f] = "idle" => pc[f] \notin Sending
    BY <2>1, <1>t
  <2> QED  BY <2>1, <2>2, <2>3, <2>4 DEF OwedInv, Settling
<1>13. ASSUME NEW a \in Actors, TrySent(a) \/ TryDropped(a) \/ WaitAborted(a)
       PROVE  OwedInv' /\ Settling
  BY <1>13, <1>2 DEF Ends
<1>14. ASSUME NEW a \in Actors, TryFailed(a) PROVE OwedInv' /\ Settling
  BY <1>14, <1>1, <1>t DEF TryFailed, history
<1>15. ASSUME NEW a \in Actors, NEW D \in SUBSET hand[a], NEW R \in SUBSET hand[a],
              TryPartial(a, D, R)
       PROVE  OwedInv' /\ Settling
  <2>1. CASE Again(a, D, R) # {} /\ attempt[a] < MaxAttempts
    <3>1. /\ Settled' = Settled \cup (hand[a] \ Again(a, D, R))
          /\ hand' = [hand EXCEPT ![a] = Again(a, D, R)]
          /\ UNCHANGED <<sendMu, owed>>
      BY <1>15, <2>1, <1>t, PartialSettles
    <3>2. pc' = [pc EXCEPT ![a] = "wait"] /\ pc[a] = "try" /\ Again(a, D, R) \subseteq hand[a]
      BY <1>15, <2>1 DEF TryPartial, Again
    <3>3. Settled' \cup hand'[a] = Settled \cup hand[a] /\ sendMu = a
          /\ InFlight' = hand'[a] /\ InFlight = hand[a]
      BY <3>1, <3>2, <1>t DEF InFlight, OneInFlight
    <3>4. \A f \in Flushers \ {a} : hand'[f] = hand[f] /\ pc'[f] = pc[f]
      BY <3>1, <3>2, <1>t
    <3>5. \A f \in Flushers : Settled \cup hand[f] \cup InFlight = Settled' \cup hand'[f] \cup InFlight'
      BY <3>1, <3>3, <3>4
    <3>6. \A f \in Flushers : (pc'[f] \in Sending <=> pc[f] \in Sending)
                              /\ (pc'[f] = "idle" => pc[f] \notin Sending)
      BY <3>2, <3>4, <1>t
    <3> QED  BY <3>1, <3>5, <3>6 DEF OwedInv, Settling
  <2>2. CASE ~(Again(a, D, R) # {} /\ attempt[a] < MaxAttempts)
    BY <1>15, <2>2, <1>2 DEF Ends
  <2> QED  BY <2>1, <2>2
<1>16. ASSUME NEW a \in Actors, WaitDone(a) PROVE OwedInv' /\ Settling
  BY <1>16, <1>1, <1>t DEF WaitDone, history
<1>17. CASE NextWake \/ WorkerWake \/ WorkerTimer \/ Age
  BY <1>17, <1>1, <1>t DEF NextWake, WorkerWake, WorkerTimer, Age, history
<1>18. ASSUME pc[Worker] \in {"select", "take"}, UNCHANGED <<sentN, droppedN, sendMu, owed>>,
              \A u \in Threads \ {Worker} : hand'[u] = hand[u] /\ pc'[u] = pc[u]
       PROVE  OwedInv' /\ Settling
  <2>1. InFlight' = InFlight /\ Settled' = Settled
    BY <1>18, <1>t DEF InFlight, Settled, OneInFlight
  <2> QED  BY <1>18, <2>1 DEF OwedInv, Settling
<1>19. CASE WorkerClose \/ TakeBatch
  BY <1>19, <1>18, <1>t DEF WorkerClose, TakeBatch, history
<1> HIDE DEF Sending
<1>20. CASE Next
  BY <1>20, StepCases, <1>3, <1>4, <1>5, <1>6, <1>7, <1>8, <1>9, <1>10, <1>11,
     <1>12, <1>13, <1>14, <1>15, <1>16, <1>17, <1>19
<1>21. CASE UNCHANGED vars
  BY <1>21, <1>1 DEF vars, state, history, Sending
<1> QED  BY <1>20, <1>21

(* Flush keeps its promise: it returns only when what it took from the buffer, and  *)
(* the batch that was being sent when it looked, are settled.                        *)
THEOREM Flushes == Spec => FlushSettles
<1>1. Init => OwedInv
  BY ThreadSets DEF Init, OwedInv, Sending
<1>2. Spec => []CustodyInv /\ []OneInFlight /\ Init /\ [][Next]_vars
  BY CustodyAlways, SingleFlight DEF Spec
<1>3. CustodyInv /\ OneInFlight /\ OwedInv /\ [Next]_vars => OwedInv' /\ Settling
  BY OwedStep DEF FlushInv
<1>4. CustodyInv /\ OneInFlight /\ OwedInv /\ [Next]_vars => [Settling]_vars
  BY <1>3
<1>5. Spec => [][Settling]_vars
  BY <1>1, <1>2, <1>3, <1>4, PTL
<1>6. Settling <=> \A f \in Flushers :
          pc[f] \in {"lock", "try", "wait"} /\ pc'[f] = "idle" => owed[f] \subseteq Settled'
  BY DEF Settling, Sending
<1> QED  BY <1>5, <1>6, PTL DEF FlushSettles

----------------------------------------------------------------------------
(* The worker's sleep.  Only Append makes a sleeping worker's timer stale, and its *)
(* sender leaves a token next; the token stays until the worker wakes.             *)

LEMMA WakeupStep == TypeInv /\ NoLostWakeup /\ [Next]_vars => NoLostWakeup'
<1> SUFFICES ASSUME TypeInv, NoLostWakeup, [Next]_vars PROVE NoLostWakeup'
  OBVIOUS
<1> USE ThreadSets
<1>t. pc \in [Threads -> Places] /\ Len(buf) \in Nat /\ BatchSize \in Nat
  BY OptionsAssumption DEF TypeInv, TypeOK
<1>1. ASSUME UNCHANGED <<buf, timer, wake>>,
             pc'[Worker] = "select" => pc[Worker] = "select",
             \A s \in Senders : pc[s] = "signal" => pc'[s] = "signal"
      PROVE  NoLostWakeup'
  BY <1>1 DEF NoLostWakeup
<1>2. ASSUME pc'[Worker] # "select" \/ buf' = <<>> PROVE NoLostWakeup'
  BY <1>2 DEF NoLostWakeup
<1>3. ASSUME NEW a \in Actors, Finish(a), UNCHANGED <<buf, timer, wake>> PROVE NoLostWakeup'
  BY <1>3, <1>1, <1>t DEF Finish
<1>4. ASSUME NEW s \in Senders, SendAppend(s) PROVE NoLostWakeup'
  BY <1>4, <1>t DEF SendAppend, NoLostWakeup
<1>5. ASSUME NEW s \in Senders, SendSignal(s) PROVE NoLostWakeup'
  BY <1>5 DEF SendSignal, Token, NoLostWakeup
<1>6. ASSUME NEW s \in Senders, NEW e \in Events, SendCheck(s, e) PROVE NoLostWakeup'
  BY <1>6, <1>1, <1>t DEF SendCheck
<1>7. ASSUME NEW s \in Senders, SendCount(s) PROVE NoLostWakeup'
  BY <1>7, <1>1, <1>t DEF SendCount, history
<1>8. ASSUME NEW f \in Flushers, FlushStart(f) \/ FlushEmpty(f) PROVE NoLostWakeup'
  BY <1>8, <1>1, <1>t DEF FlushStart, FlushEmpty
<1>9. ASSUME NEW f \in Flushers, FlushTake(f) PROVE NoLostWakeup'
  BY <1>9, <1>2 DEF FlushTake
<1>10. ASSUME NEW c \in Closers, Close(c) PROVE NoLostWakeup'
  BY <1>10, <1>1, <1>t DEF Close, CloseStart, CloseSignal, CloseSender, CloseTimeout, history
<1>11. ASSUME NEW a \in Actors, Lock(a) \/ TryFailed(a) \/ WaitDone(a) PROVE NoLostWakeup'
  BY <1>11, <1>1, <1>t DEF Lock, TryFailed, WaitDone, history
<1>12. ASSUME NEW a \in Actors, TrySent(a) \/ TryDropped(a) \/ WaitAborted(a)
       PROVE  NoLostWakeup'
  BY <1>12, <1>3 DEF TrySent, TryDropped, WaitAborted
<1>13. ASSUME NEW a \in Actors, NEW D \in SUBSET hand[a], NEW R \in SUBSET hand[a],
              TryPartial(a, D, R)
       PROVE  NoLostWakeup'
  <2>1. CASE Again(a, D, R) # {} /\ attempt[a] < MaxAttempts
    BY <1>13, <2>1, <1>1, <1>t DEF TryPartial
  <2>2. CASE ~(Again(a, D, R) # {} /\ attempt[a] < MaxAttempts)
    BY <1>13, <2>2, <1>3 DEF TryPartial
  <2> QED  BY <2>1, <2>2
<1>14. CASE NextWake
  BY <1>14, <1>t DEF NextWake, NoLostWakeup
<1>15. CASE WorkerWake \/ WorkerTimer
  BY <1>15, <1>2, <1>t DEF WorkerWake, WorkerTimer
<1>16. CASE WorkerClose \/ TakeBatch
  BY <1>16, <1>2, <1>t DEF WorkerClose, TakeBatch
<1>17. CASE Age
  BY <1>17, <1>1 DEF Age, history
<1> HIDE DEF NoLostWakeup
<1>18. CASE Next
  BY <1>18, <1>4, <1>5, <1>6, <1>7, <1>8, <1>9, <1>10, <1>11, <1>12, <1>13, <1>14,
     <1>15, <1>16, <1>17 DEF Next, Send, Flush, SendBatch, Try, Wait, Run
<1>19. CASE UNCHANGED vars
  BY <1>19, <1>1 DEF vars, state
<1> QED  BY <1>18, <1>19

(* The worker never sleeps past the moment its buffer is due, whatever happens to *)
(* the buffer while it sleeps: that one token and one timer are enough.            *)
THEOREM Wakes == Spec => []NoLostWakeup
<1>1. Init => NoLostWakeup
  BY DEF Init, NoLostWakeup
<1>2. Spec => [](TypeInv /\ NoLostWakeup)
  BY TypeInit, TypeStep, <1>1, WakeupStep, PTL DEF Spec
<1> QED  BY <1>2, PTL
=============================================================================
