------------------------------ MODULE Pipeline ------------------------------
(***************************************************************************)
(* pipeline.Wrap (pipeline/pipeline.go): a batching, retrying drain over a *)
(* backend's Sender.  Goroutines share one buffer:                         *)
(*                                                                         *)
(*   - callers of Send append to it and never wait for the backend;        *)
(*   - the worker started by Wrap takes batches from it and sends them;    *)
(*   - callers of Flush take all of it and send it themselves;             *)
(*   - callers of Close stop the worker, which sends what is left, and     *)
(*     then release the Sender.                                            *)
(*                                                                         *)
(* Each critical section of the mutex mu is one step, because nothing in   *)
(* one blocks.  sendMu is held across calls of the backend, so it is a     *)
(* variable.  A batch is the set of events a goroutine holds: the order    *)
(* inside a batch decides nothing here.  Time is abstracted to what the    *)
(* code compares: whether the oldest event is older than BatchInterval.    *)
(*                                                                         *)
(* A definition marked "mutant" is a plausible bug of the definition that  *)
(* follows it; nothing uses it, PROJECT.json says which property it breaks.*)
(***************************************************************************)
EXTENDS Naturals, Sequences, FiniteSets

CONSTANTS Senders,     \* goroutines that call Send
          Flushers,    \* goroutines that call Flush
          Closers,     \* goroutines that call Close
          Worker,      \* the goroutine Wrap starts
          Nobody,      \* the holder of a free sendMu
          Events,      \* the events the callers send, each of them once
          Level,       \* an event's level, as a rank, or NoLevel
          NoLevel,     \* a level that is missing, or that levelRanks does not know
          Audit,       \* the events that carry audit records
          MinLevel,    \* the rank MinLevel sets; 0 when the option is off
          BatchSize, MaxBuffer, MaxAttempts   \* the options of config.go

Actors  == {Worker} \cup Flushers            \* the goroutines that run sendBatch
Threads == Senders \cup Actors \cup Closers

(* Goroutines are distinct, and the options are what their setters clamp them to. *)
ASSUME ThreadsAssumption ==
    /\ Worker \notin Senders \cup Flushers \cup Closers
    /\ Nobody \notin Threads
    /\ Senders \cap Flushers = {}
    /\ Senders \cap Closers = {}
    /\ Flushers \cap Closers = {}
ASSUME OptionsAssumption ==
    /\ BatchSize \in Nat \ {0}
    /\ MaxBuffer \in Nat \ {0}
    /\ MaxAttempts \in Nat \ {0}
Ranks == 0..3                                \* debug, info, warn, error
ASSUME LevelsAssumption ==
    /\ MinLevel \in Ranks
    /\ Level \in [Events -> Ranks \cup {NoLevel}]
    /\ NoLevel \notin Ranks
    /\ Audit \subseteq Events

VARIABLES
    buf,           \* the queue of events, oldest first
    aged,          \* buf is not empty and time.Since(oldestTime) >= batchInterval
    wake,          \* the wake channel holds its one token
    timer,         \* what the worker's timer is armed for, "off" when it is not
    closed,        \* the closed flag
    closing,       \* closeSig is closed
    final,         \* the worker is in the flushAll of its closing select case
    senderClosed,  \* closeSender has run
    sendMu,        \* the goroutine that holds sendMu
    pc,            \* where each goroutine is
    hand,          \* the events each goroutine holds outside the buffer
    attempt,       \* the attempt counter of each running sendBatch
    sentN,         \* what each event added to the sent counter
    droppedN       \* what each event added to the dropped counter

(* History of the environment and of earlier states; no action reads it but *)
(* the sends, which take an event that was not sent before.                 *)
VARIABLES
    fresh,         \* the events no caller has sent yet
    behind,        \* for each running Flush: the batch the worker held at its call waits yet
    owed,          \* what each running Flush must see settled
    late           \* the events that entered the buffer after Close was called

state   == <<buf, aged, wake, timer, closed, closing, final, senderClosed,
             sendMu, pc, hand, attempt, sentN, droppedN>>
history == <<fresh, behind, owed, late>>
vars    == <<state, history>>

InBuf      == {buf[i] : i \in 1..Len(buf)}
InHands(T) == UNION {hand[t] : t \in T}
Settled    == {e \in Events : sentN[e] + droppedN[e] > 0}

(* MinLevel filters an event only when it can judge it, and never an audit event. *)
Admits(e) == e \in Audit \/ Level[e] \notin {rank \in Ranks : rank < MinLevel}

(* Add each event of S to a counter, given per event. *)
Add(n, S) == [e \in Events |-> IF e \in S THEN n[e] + 1 ELSE n[e]]

Init ==
    /\ buf = <<>> /\ aged = FALSE
    /\ wake = FALSE /\ timer = "off"
    /\ closed = FALSE /\ closing = FALSE /\ final = FALSE /\ senderClosed = FALSE
    /\ sendMu = Nobody
    /\ pc = [t \in Threads |-> IF t = Worker THEN "arm" ELSE "idle"]
    /\ hand = [t \in Threads |-> {}]
    /\ attempt = [a \in Actors |-> 1]
    /\ sentN = [e \in Events |-> 0] /\ droppedN = [e \in Events |-> 0]
    /\ fresh = Events
    /\ behind = [f \in Flushers |-> FALSE] /\ owed = [f \in Flushers |-> {}]
    /\ late = {}

----------------------------------------------------------------------------
(* Send *)

(* MinLevel filters the event before anything else looks at it: the Send of a     *)
(* refused event is a stuttering step.  The closed flag is read without a lock;   *)
(* what follows acts on what was read.                                            *)
SendCheck(s, e) ==
    /\ pc[s] = "idle" /\ e \in fresh
    /\ Admits(e)
    /\ pc' = [pc EXCEPT ![s] = IF closed THEN "count" ELSE "append"]
    /\ hand' = [hand EXCEPT ![s] = {e}]
    /\ fresh' = fresh \ {e}
    /\ UNCHANGED <<buf, aged, wake, timer, closed, closing, final, senderClosed,
                   sendMu, attempt, sentN, droppedN, behind, owed, late>>

(* A full buffer gives up its oldest event to make room for e. *)
FullLate   == Len(buf) > MaxBuffer                       \* mutant: off by one
Full       == Len(buf) >= MaxBuffer
Victim     == IF Full THEN {Head(buf)} ELSE {}
Queued(e)  == Append(IF Full THEN Tail(buf) ELSE buf, e)

(* Under mu.  The caller then holds the event it evicted. *)
SendAppend(s) ==
    /\ pc[s] = "append"
    /\ \E e \in hand[s] : buf' = Queued(e)
    /\ hand' = [hand EXCEPT ![s] = Victim]
    /\ aged' = (aged /\ buf # <<>>)
    /\ pc' = [pc EXCEPT ![s] = "signal"]
    /\ late' = IF closed THEN late \cup hand[s] ELSE late
    /\ UNCHANGED <<wake, timer, closed, closing, final, senderClosed, sendMu,
                   attempt, sentN, droppedN, fresh, behind, owed>>

(* signal leaves one token, or finds one there. *)
TokenForFirst == wake \/ Len(buf) = 1                    \* mutant: wakes for the first only
Token         == TRUE
SendSignal(s) ==
    /\ pc[s] = "signal"
    /\ wake' = Token
    /\ pc' = [pc EXCEPT ![s] = IF hand[s] = {} THEN "idle" ELSE "count"]
    /\ UNCHANGED <<buf, aged, timer, closed, closing, final, senderClosed, sendMu,
                   hand, attempt, sentN, droppedN, history>>

(* The evicted event, or the one that came after Close, is counted and reported. *)
SendCount(s) ==
    /\ pc[s] = "count"
    /\ droppedN' = Add(droppedN, hand[s])
    /\ hand' = [hand EXCEPT ![s] = {}]
    /\ pc' = [pc EXCEPT ![s] = "idle"]
    /\ UNCHANGED <<buf, aged, wake, timer, closed, closing, final, senderClosed,
                   sendMu, attempt, sentN, history>>

----------------------------------------------------------------------------
(* The worker *)

(* nextWake: a full or due buffer is looked at again in a millisecond, a partial  *)
(* one when its oldest event is due, an empty one after the interval.             *)
NextWake ==
    /\ pc[Worker] = "arm"
    /\ timer' = IF buf = <<>> THEN "interval"
                ELSE IF Len(buf) >= BatchSize \/ aged THEN "soon"
                ELSE "due"
    /\ pc' = [pc EXCEPT ![Worker] = "select"]
    /\ UNCHANGED <<buf, aged, wake, closed, closing, final, senderClosed, sendMu,
                   hand, attempt, sentN, droppedN, history>>

(* The select of run takes any case that is ready. *)
WorkerWake ==
    /\ pc[Worker] = "select"
    /\ wake
    /\ wake' = FALSE
    /\ timer' = "off"
    /\ pc' = [pc EXCEPT ![Worker] = "take"]
    /\ UNCHANGED <<buf, aged, closed, closing, final, senderClosed, sendMu,
                   hand, attempt, sentN, droppedN, history>>

WorkerTimer ==
    /\ pc[Worker] = "select"
    /\ timer' = "off"
    /\ pc' = [pc EXCEPT ![Worker] = "take"]
    /\ UNCHANGED <<buf, aged, wake, closed, closing, final, senderClosed, sendMu, hand, attempt, sentN, droppedN, history>>

(* closeSig is closed: flushAll takes everything and sends it, and the worker ends. *)
NoLeftover == {}                                         \* mutant: ends without a flush
Leftover   == InBuf
WorkerClose ==
    /\ pc[Worker] = "select"
    /\ closing
    /\ timer' = "off"
    /\ buf' = <<>> /\ aged' = FALSE
    /\ hand' = [hand EXCEPT ![Worker] = Leftover]
    /\ final' = TRUE
    /\ pc' = [pc EXCEPT ![Worker] = IF Leftover = {} THEN "done" ELSE "lock"]
    /\ UNCHANGED <<wake, closed, closing, senderClosed, sendMu, attempt, sentN,
                   droppedN, history>>

(* takeBatchIfReady: a full batch, or a partial one whose oldest event is due. *)
ReadyWhenFull == Len(buf) >= BatchSize                   \* mutant: never looks at the age
Ready    == buf # <<>> /\ (Len(buf) >= BatchSize \/ aged)
Overlap  == SubSeq(buf, BatchSize, Len(buf))             \* mutant: off by one
Rest     == SubSeq(buf, BatchSize + 1, Len(buf))
TakeBatch ==
    /\ pc[Worker] = "take"
    /\ IF Ready
       THEN /\ buf' = Rest
            /\ aged' = (aged /\ Len(buf) > BatchSize)
            /\ hand' = [hand EXCEPT ![Worker] =
                            {buf[i] : i \in {j \in 1..Len(buf) : j <= BatchSize}}]
            /\ pc' = [pc EXCEPT ![Worker] = "lock"]
       ELSE /\ pc' = [pc EXCEPT ![Worker] = "arm"]
            /\ UNCHANGED <<buf, aged, hand>>
    /\ UNCHANGED <<wake, timer, closed, closing, final, senderClosed, sendMu,
                   attempt, sentN, droppedN, history>>

----------------------------------------------------------------------------
(* Flush *)

(* Flush of a closed pipeline returns at once, which is a stuttering step. *)
FlushStart(f) ==
    /\ pc[f] = "idle"
    /\ ~closed
    /\ pc' = [pc EXCEPT ![f] = "flush"]
    /\ behind' = [behind EXCEPT ![f] = hand[Worker] # {}]
    /\ UNCHANGED <<buf, aged, wake, timer, closed, closing, final, senderClosed,
                   sendMu, hand, attempt, sentN, droppedN, fresh, owed, late>>

FlushTake(f) ==
    /\ pc[f] = "flush"
    /\ buf' = <<>> /\ aged' = FALSE
    /\ hand' = [hand EXCEPT ![f] = InBuf]
    /\ pc' = [pc EXCEPT ![f] = "lock"]
    /\ owed' = [owed EXCEPT ![f] =
                    InBuf \cup (IF sendMu = Nobody THEN {} ELSE hand[sendMu])]
    /\ UNCHANGED <<wake, timer, closed, closing, final, senderClosed, sendMu,
                   attempt, sentN, droppedN, fresh, behind, late>>

(* The end of a Flush forgets its history. *)
Returned(f) == /\ behind' = [behind EXCEPT ![f] = FALSE]
               /\ owed' = [owed EXCEPT ![f] = {}]

MuIgnored == TRUE                                        \* mutant: does not wait
MuFree    == sendMu = Nobody

(* A Flush that found the buffer empty still takes sendMu once, and returns. *)
FlushEmpty(f) ==
    /\ pc[f] = "lock" /\ hand[f] = {}
    /\ MuFree
    /\ pc' = [pc EXCEPT ![f] = "idle"]
    /\ Returned(f)
    /\ UNCHANGED <<buf, aged, wake, timer, closed, closing, final, senderClosed,
                   sendMu, hand, attempt, sentN, droppedN, fresh, late>>

----------------------------------------------------------------------------
(* sendBatch, run by the worker and by Flush while it holds sendMu *)

Lock(a) ==
    /\ pc[a] = "lock" /\ hand[a] # {}
    /\ MuFree
    /\ sendMu' = a
    /\ pc' = [pc EXCEPT ![a] = "try"]
    /\ UNCHANGED <<buf, aged, wake, timer, closed, closing, final, senderClosed,
                   hand, attempt, sentN, droppedN, history>>

StillHeld == sendMu                                      \* mutant: never unlocks
Released  == Nobody

(* sendBatch returns: its attempt counter goes, the deferred Unlock runs and the *)
(* caller goes on.                                                               *)
Finish(a) ==
    /\ sendMu' = Released
    /\ hand' = [hand EXCEPT ![a] = {}]
    /\ attempt' = [attempt EXCEPT ![a] = 1]
    /\ IF a = Worker
       THEN /\ pc' = [pc EXCEPT ![a] = IF final THEN "done" ELSE "arm"]
            /\ behind' = [f \in Flushers |-> FALSE]
            /\ UNCHANGED owed
       ELSE /\ pc' = [pc EXCEPT ![a] = "idle"]
            /\ Returned(a)

(* The backend took the whole batch. *)
TrySent(a) ==
    /\ pc[a] = "try"
    /\ sentN' = Add(sentN, hand[a])
    /\ Finish(a)
    /\ UNCHANGED <<buf, aged, wake, timer, closed, closing, final, senderClosed,
                   droppedN, fresh, late>>

(* A RetryError that is not retryable, or the last attempt: the batch is dropped. *)
TryDropped(a) ==
    /\ pc[a] = "try"
    /\ droppedN' = Add(droppedN, hand[a])
    /\ Finish(a)
    /\ UNCHANGED <<buf, aged, wake, timer, closed, closing, final, senderClosed,
                   sentN, fresh, late>>

(* Any other error, or a panic, with attempts left: back off. *)
TryFailed(a) ==
    /\ pc[a] = "try"
    /\ attempt[a] < MaxAttempts
    /\ pc' = [pc EXCEPT ![a] = "wait"]
    /\ UNCHANGED <<buf, aged, wake, timer, closed, closing, final, senderClosed,
                   sendMu, hand, attempt, sentN, droppedN, history>>

(* dropPartial: D and R are the events the PartialError's Dropped and Retry    *)
(* indexes name.  D wins where they overlap; the rest reached the backend.     *)
(* Events to retry with no attempt left are dropped with the others.           *)
AgainWhole(a, D, R)   == hand[a]                         \* mutant: those that arrived too
Again(a, D, R)        == R \ D
TryPartial(a, D, R) ==
    LET again == Again(a, D, R)
        retry == again # {} /\ attempt[a] < MaxAttempts
    IN
    /\ pc[a] = "try"
    /\ sentN' = Add(sentN, hand[a] \ (D \cup R))
    /\ droppedN' = Add(droppedN, IF retry THEN D ELSE D \cup again)
    /\ IF retry
       THEN /\ hand' = [hand EXCEPT ![a] = again]
            /\ pc' = [pc EXCEPT ![a] = "wait"]
            /\ UNCHANGED <<sendMu, attempt, behind, owed>>
       ELSE Finish(a)
    /\ UNCHANGED <<buf, aged, wake, timer, closed, closing, final, senderClosed,
                   fresh, late>>

(* The backoff ends. *)
SameAttempt(a) == attempt[a]                             \* mutant: a try is not counted
NextAttempt(a) == attempt[a] + 1
WaitDone(a) ==
    /\ pc[a] = "wait"
    /\ attempt' = [attempt EXCEPT ![a] = NextAttempt(a)]
    /\ pc' = [pc EXCEPT ![a] = "try"]
    /\ UNCHANGED <<buf, aged, wake, timer, closed, closing, final, senderClosed,
                   sendMu, hand, sentN, droppedN, history>>

(* The pipeline is closing, or the context of the Flush ended.  The worker sends *)
(* under context.Background, so only closeSig ends its wait.                     *)
WaitAborted(a) ==
    /\ pc[a] = "wait"
    /\ closing \/ a # Worker
    /\ droppedN' = Add(droppedN, hand[a])
    /\ Finish(a)
    /\ UNCHANGED <<buf, aged, wake, timer, closed, closing, final, senderClosed,
                   sentN, fresh, late>>

----------------------------------------------------------------------------
(* Close *)

CloseStart(c) ==
    /\ pc[c] = "idle"
    /\ closed' = TRUE
    /\ pc' = [pc EXCEPT ![c] = "signal"]
    /\ UNCHANGED <<buf, aged, wake, timer, closing, final, senderClosed, sendMu,
                   hand, attempt, sentN, droppedN, history>>

CloseSignal(c) ==
    /\ pc[c] = "signal"
    /\ closing' = TRUE
    /\ pc' = [pc EXCEPT ![c] = "await"]
    /\ UNCHANGED <<buf, aged, wake, timer, closed, final, senderClosed, sendMu,
                   hand, attempt, sentN, droppedN, history>>

(* The worker is done: release the Sender and return. *)
CloseSender(c) ==
    /\ pc[c] = "await"
    /\ pc[Worker] = "done"
    /\ senderClosed' = TRUE
    /\ pc' = [pc EXCEPT ![c] = "idle"]
    /\ UNCHANGED <<buf, aged, wake, timer, closed, closing, final, sendMu,
                   hand, attempt, sentN, droppedN, history>>

(* The deadline of Close passes first.  The worker goes on. *)
CloseTimeout(c) ==
    /\ pc[c] = "await"
    /\ pc' = [pc EXCEPT ![c] = "idle"]
    /\ UNCHANGED <<buf, aged, wake, timer, closed, closing, final, senderClosed,
                   sendMu, hand, attempt, sentN, droppedN, history>>

----------------------------------------------------------------------------
(* BatchInterval passes since the oldest event was buffered. *)
Age ==
    /\ buf # <<>> /\ ~aged
    /\ aged' = TRUE
    /\ UNCHANGED <<buf, wake, timer, closed, closing, final, senderClosed, sendMu,
                   pc, hand, attempt, sentN, droppedN, history>>

Send(s)  == \/ \E e \in Events : SendCheck(s, e)
            \/ SendAppend(s) \/ SendSignal(s) \/ SendCount(s)
Flush(f) == FlushStart(f) \/ FlushTake(f) \/ FlushEmpty(f)
Close(c) == CloseStart(c) \/ CloseSignal(c) \/ CloseSender(c) \/ CloseTimeout(c)
Run      == NextWake \/ WorkerWake \/ WorkerTimer \/ WorkerClose \/ TakeBatch

(* What the backend answers to one SendBatch. *)
Try(a) == \/ TrySent(a) \/ TryDropped(a) \/ TryFailed(a)
          \/ \E D, R \in SUBSET hand[a] : TryPartial(a, D, R)
Wait(a) == WaitDone(a) \/ WaitAborted(a)
SendBatch(a) == Lock(a) \/ Try(a) \/ Wait(a)

Next == \/ \E s \in Senders : Send(s)
        \/ \E f \in Flushers : Flush(f)
        \/ \E c \in Closers : Close(c)
        \/ \E a \in Actors : SendBatch(a)
        \/ Run
        \/ Age

Spec == Init /\ [][Next]_vars

(* Every goroutine that can run does, the backend answers every SendBatch, the   *)
(* clock moves.  sync.Mutex hands a lock to a waiter it has starved, and select  *)
(* picks at random among its ready cases: hence strong fairness for those two.   *)
(* No caller has to call anything, and the Close deadline need not pass.         *)
Fairness ==
    /\ \A s \in Senders : WF_vars(SendAppend(s) \/ SendSignal(s) \/ SendCount(s))
    /\ \A f \in Flushers : WF_vars(FlushTake(f)) /\ SF_vars(FlushEmpty(f))
    /\ \A c \in Closers : WF_vars(CloseSignal(c) \/ CloseSender(c))
    /\ \A a \in Actors : SF_vars(Lock(a)) /\ WF_vars(Try(a) \/ Wait(a))
    /\ WF_vars(NextWake \/ TakeBatch) /\ WF_vars(WorkerTimer) /\ SF_vars(WorkerClose)
    /\ WF_vars(Age)

FairSpec == Spec /\ Fairness

----------------------------------------------------------------------------
(* Properties *)

Places == {"idle", "append", "signal", "count", "arm", "select", "take", "flush",
           "lock", "try", "wait", "await", "done"}

TypeOK ==
    /\ buf \in Seq(Events) /\ Len(buf) <= MaxBuffer
    /\ aged \in BOOLEAN /\ wake \in BOOLEAN /\ timer \in {"off", "interval", "due", "soon"}
    /\ closed \in BOOLEAN /\ closing \in BOOLEAN /\ final \in BOOLEAN
    /\ senderClosed \in BOOLEAN
    /\ sendMu \in Actors \cup {Nobody}
    /\ pc \in [Threads -> Places]
    /\ hand \in [Threads -> SUBSET Events]
    /\ attempt \in [Actors -> 1..MaxAttempts]
    /\ sentN \in [Events -> Nat] /\ droppedN \in [Events -> Nat]
    /\ fresh \subseteq Events /\ late \subseteq Events
    /\ behind \in [Flushers -> BOOLEAN] /\ owed \in [Flushers -> SUBSET Events]

(* Exactly one goroutine, or the buffer, answers for an event: an event is never  *)
(* queued twice, never both queued and in a batch, never in two batches, and never *)
(* settled while something still holds it.  Eviction, partial retries and the      *)
(* three takers of the buffer all have to agree on this.                           *)
OneHolder ==
    /\ \A i, j \in 1..Len(buf) : buf[i] = buf[j] => i = j
    /\ \A t \in Threads : hand[t] \cap (InBuf \cup Settled \cup fresh) = {}
    /\ \A t, u \in Threads : t # u => hand[t] \cap hand[u] = {}
    /\ InBuf \cap (Settled \cup fresh) = {}
    /\ Settled \cap fresh = {}

(* No event vanishes: an event that passed the filter is buffered, in some        *)
(* goroutine's hands, or counted as sent or dropped (Stats adds up).              *)
NothingLost == Events \ fresh \subseteq InBuf \cup InHands(Threads) \cup Settled

(* The counters count an event once: as sent or as dropped, never both. *)
CountedOnce == \A e \in Events : sentN[e] + droppedN[e] <= 1

(* The three together: who answers for an event. *)
Custody == OneHolder /\ NothingLost /\ CountedOnce

(* At most one SendBatch is in flight, and its goroutine holds sendMu. *)
OneInFlight ==
    \A a \in Actors : pc[a] \in {"try", "wait"} <=> sendMu = a

(* The worker never sleeps past the moment its buffer is due: while it sleeps    *)
(* over a non-empty buffer its timer was armed for that buffer's state, or a     *)
(* wake token is there, or the sender that changed the buffer is about to leave  *)
(* one (the reason nextWake and signal exist).                                   *)
NoLostWakeup ==
    pc[Worker] = "select" /\ buf # <<>> =>
        \/ wake
        \/ \E s \in Senders : pc[s] = "signal"
        \/ timer = "soon"
        \/ timer = "due" /\ Len(buf) < BatchSize

(* Close sends everything that was accepted before it: once the worker is done,   *)
(* an event that is not settled is with a Flush that took it, with a Send that is  *)
(* about to count it, or entered the buffer behind the closed flag.                *)
CloseDrains ==
    pc[Worker] = "done" =>
        Events \subseteq fresh \cup late \cup Settled \cup InHands(Flushers \cup Senders)

(* A Flush returns only when all it took, and the batch that held sendMu when it *)
(* looked, are settled.                                                          *)
FlushSettles ==
    [][\A f \in Flushers :
          pc[f] \in {"lock", "try", "wait"} /\ pc'[f] = "idle"
             => owed[f] \subseteq Settled']_vars

(* Until somebody calls Close, every buffered event is eventually sent or dropped. *)
EventuallySettled ==
    \A e \in {e \in Events : Admits(e)} : e \in InBuf ~> (e \in Settled \/ closed)

(* Close ends the worker, whatever the backend answers and however long it backs off. *)
CloseEndsWorker == closing ~> pc[Worker] = "done"

(* Every Flush returns. *)
FlushReturns == \A f \in Flushers : pc[f] = "flush" ~> pc[f] = "idle"

(* The pipeline keeps the promise of a drain. *)
fate == [e \in Events |-> IF e \in fresh THEN "new"
                          ELSE IF sentN[e] > 0 THEN "sent"
                          ELSE IF droppedN[e] > 0 THEN "dropped" ELSE "held"]
Promise == INSTANCE Delivery WITH Event <- Events, Wanted <- {e \in Events : Admits(e)}
Delivers == Promise!Spec
----------------------------------------------------------------------------
(* What the comments and the documents say, and the code does not keep *)

(* "A closed worker never sends again, so the event is reported rather than       *)
(* buffered where nothing will read it" (Send): when the worker is done, nothing  *)
(* is left in the buffer.                                                         *)
ClosedHoldsNothing == pc[Worker] = "done" => buf = <<>>

(* "It also waits for a batch the worker already took" (Flush): the batch that   *)
(* the worker held when Flush was called is settled when Flush returns.           *)
FlushLeavesNoneInFlight ==
    [][\A f \in Flushers :
          pc[f] \in {"lock", "try", "wait"} /\ pc'[f] = "idle" => ~behind[f]]_vars

(* Wrap releases the Sender "after the last batch" (senderCloser): no goroutine    *)
(* still has a batch for it.                                                      *)
SenderClosedLast == senderClosed => InHands(Actors) = {}

(* "MaxBuffer events are queued at once, across the channel and any batch awaiting *)
(* retry" (SPEC-pipeline.md).                                                     *)
RetriesCountTowardMaxBuffer ==
    Len(buf) + Cardinality(InHands({a \in Actors : pc[a] = "wait"})) <= MaxBuffer

(* Close sends what is left as a final batch and "the retry policy applies"        *)
(* (SPEC-pipeline.md): a retryable failure with attempts left does not end it.    *)
FinalBatchIsRetried == [][~(final /\ pc[Worker] = "wait" /\ pc'[Worker] = "done")]_vars
=============================================================================
