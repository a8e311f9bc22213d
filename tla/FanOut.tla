------------------------------- MODULE FanOut -------------------------------
(***************************************************************************)
(* pipeline.FanOut (pipeline/fanout.go): a drain that queues every event   *)
(* for every one of its drains, each with a bounded queue and a worker.    *)
(*                                                                         *)
(* mu is a Go RWMutex: Send holds the read side, Flush and Close the write *)
(* side, and a writer that waits keeps new readers out.  pending.Add and   *)
(* the channel operation beside it are one step: nobody reads pending      *)
(* while a Send holds mu.  A call of Send is named by its event.           *)
(***************************************************************************)
EXTENDS Naturals, Sequences, FiniteSets

CONSTANTS Events,     \* the calls of Send
          N,          \* how many drains there are: drains 1..N
          Cap,        \* fanOutQueue
          MayHang,    \* the drains whose Send may never return
          Flushers,   \* the calls of Flush
          Closers,    \* the calls of Close
          Timed,      \* the calls whose ctx ends
          None        \* nothing

Drains == 1..N
Calls  == Flushers \cup Closers

ASSUME FanOutAssumption ==
    /\ {N, Cap} \subseteq Nat \ {0} /\ MayHang \subseteq Drains /\ Timed \subseteq Calls
    /\ Flushers \cap Closers = {} /\ Events \cap Calls = {} /\ None \notin Events

VARIABLES
    pc,        \* where each call is: Events and Calls
    next,      \* the drain a call turns to next
    queue,     \* each drain's channel
    hung,      \* the drains whose Send never returns
    busy,      \* what each worker is delivering
    worker,    \* "run", "empty" (the loop after stop) or "done"
    pending,   \* f.pending
    closed,    \* f.closed; f.stop is closed with it
    expired,   \* the calls whose ctx has ended
    got,       \* history: what each drain's Send returned from, or panicked on
    dropped,   \* history: what each drain's full queue refused
    before,    \* history: the events whose Send had returned when a call began
    shut       \* history: the drains whose Close was called

drains == <<queue, hung, busy, worker, pending, got, dropped>>
calls  == <<pc, next, closed, expired, before, shut>>
vars   == <<drains, calls>>

Init ==
    /\ pc = [c \in Events \cup Calls |-> "new"] /\ next = [c \in Events \cup Calls |-> 1]
    /\ queue = [d \in Drains |-> <<>>] /\ busy = [d \in Drains |-> None]
    /\ worker = [d \in Drains |-> "run"] /\ pending = 0
    /\ hung \in SUBSET MayHang /\ closed = FALSE /\ expired = {} /\ shut = {}
    /\ got = [d \in Drains |-> {}] /\ dropped = [d \in Drains |-> {}]
    /\ before = [c \in Calls |-> {}]

At(c, place) == pc' = [pc EXCEPT ![c] = place]

(* mu *)
Readers == {e \in Events : pc[e] = "queue"}
Writers == {c \in Calls : pc[c] \in {"wait", "flush"}}
Waiting == {c \in Calls : pc[c] = "lock"}
RLock   == Writers \cup Waiting = {}
WLock   == Writers \cup Readers = {}

----------------------------------------------------------------------------
(* Send *)

SendEnter(e) ==
    /\ pc[e] = "new" /\ RLock
    /\ At(e, IF closed THEN "done" ELSE "queue")
    /\ UNCHANGED <<drains, next, closed, expired, before, shut>>

KeptCount(n) == n + 1                                  \* mutant: a drop is not taken back
DropCount(n) == n
SendQueue(e) ==
    /\ pc[e] = "queue"
    /\ LET d == next[e] IN
       /\ \/ /\ Len(queue[d]) < Cap
             /\ queue' = [queue EXCEPT ![d] = Append(@, e)]
             /\ pending' = pending + 1 /\ UNCHANGED dropped
          \/ /\ Len(queue[d]) = Cap
             /\ dropped' = [dropped EXCEPT ![d] = @ \cup {e}]
             /\ pending' = DropCount(pending) /\ UNCHANGED queue
       /\ next' = [next EXCEPT ![e] = d + 1]
       /\ At(e, IF d = N THEN "done" ELSE "queue")
    /\ UNCHANGED <<hung, busy, worker, closed, expired, got, before, shut>>

----------------------------------------------------------------------------
(* worker and deliver *)

Take(d) ==
    /\ worker[d] # "done" /\ busy[d] = None /\ queue[d] # <<>>
    /\ busy' = [busy EXCEPT ![d] = Head(queue[d])]
    /\ queue' = [queue EXCEPT ![d] = Tail(@)]
    /\ UNCHANGED <<calls, hung, worker, pending, got, dropped>>

(* The drain's Send returns, or panics, which deliver recovers from. *)
InTurn(d)   == hung = {}                               \* mutant: one worker serves all drains
Delivers(d) == d \notin hung
Deliver(d) ==
    /\ busy[d] # None /\ Delivers(d)
    /\ busy' = [busy EXCEPT ![d] = None]
    /\ got' = [got EXCEPT ![d] = @ \cup {busy[d]}]
    /\ pending' = pending - 1
    /\ UNCHANGED <<calls, hung, queue, worker, dropped>>

WorkerStop(d) ==
    /\ worker[d] = "run" /\ busy[d] = None /\ closed
    /\ worker' = [worker EXCEPT ![d] = "empty"]
    /\ UNCHANGED <<calls, hung, queue, busy, pending, got, dropped>>

AtStop(d)  == TRUE                                     \* mutant: the queue is left behind
Emptied(d) == queue[d] = <<>>
WorkerEnd(d) ==
    /\ worker[d] = "empty" /\ busy[d] = None /\ Emptied(d)
    /\ worker' = [worker EXCEPT ![d] = "done"]
    /\ UNCHANGED <<calls, hung, queue, busy, pending, got, dropped>>

----------------------------------------------------------------------------
(* Flush and Close *)

Begin(c) ==
    /\ pc[c] = "new" /\ At(c, "lock")
    /\ before' = [before EXCEPT ![c] = {e \in Events : pc[e] = "done" /\ next[e] > N}]
    /\ UNCHANGED <<drains, next, closed, expired, shut>>

Expire(c) ==
    /\ c \in Timed \ expired /\ pc[c] # "new"
    /\ expired' = expired \cup {c}
    /\ UNCHANGED <<drains, pc, next, closed, before, shut>>

FlushLock(c) ==
    /\ c \in Flushers /\ pc[c] = "lock" /\ WLock
    /\ At(c, "wait")
    /\ UNCHANGED <<drains, next, closed, expired, before, shut>>

(* waitIdle *)
QueuesEmpty == \A d \in Drains : queue[d] = <<>>       \* mutant: an event in delivery is forgotten
Idle        == pending = 0
FlushIdle(c) ==
    /\ pc[c] = "wait" /\ Idle
    /\ At(c, "flush")
    /\ UNCHANGED <<drains, next, closed, expired, before, shut>>

FlushExpired(c) ==
    /\ pc[c] = "wait" /\ c \in expired
    /\ At(c, "done")
    /\ UNCHANGED <<drains, next, closed, expired, before, shut>>

(* each: a drain that fails or panics does not stop it. *)
FlushDrain(c) ==
    /\ pc[c] = "flush"
    /\ next' = [next EXCEPT ![c] = @ + 1]
    /\ At(c, IF next[c] = N THEN "done" ELSE "flush")
    /\ UNCHANGED <<drains, closed, expired, before, shut>>

CloseStop(c) ==
    /\ c \in Closers /\ pc[c] = "lock" /\ WLock
    /\ closed' = TRUE
    /\ At(c, "idle")
    /\ UNCHANGED <<drains, next, expired, before, shut>>

TimedOut(c)  == c \in expired
WorkersDone == \A d \in Drains : worker[d] = "done"
CloseWait(c) ==
    /\ pc[c] = "idle" /\ (WorkersDone \/ TimedOut(c))
    /\ At(c, "close")
    /\ UNCHANGED <<drains, next, closed, expired, before, shut>>

CloseDrain(c) ==
    /\ pc[c] = "close"
    /\ shut' = shut \cup {next[c]}
    /\ next' = [next EXCEPT ![c] = @ + 1]
    /\ At(c, IF next[c] = N THEN "done" ELSE "close")
    /\ UNCHANGED <<drains, closed, expired, before>>

----------------------------------------------------------------------------
Send(e)    == SendEnter(e) \/ SendQueue(e)
Work(d)    == Take(d) \/ Deliver(d) \/ WorkerStop(d) \/ WorkerEnd(d)
Flush(c)   == FlushLock(c) \/ FlushIdle(c) \/ FlushExpired(c) \/ FlushDrain(c)
Close(c)   == CloseStop(c) \/ CloseWait(c) \/ CloseDrain(c)

Next == \/ \E e \in Events : Send(e)
        \/ \E d \in Drains : Work(d)
        \/ \E c \in Calls : Begin(c) \/ Expire(c) \/ Flush(c) \/ Close(c)

Spec == Init /\ [][Next]_vars

(* Goroutines are scheduled, a drain that is not hung returns, and a ctx with a *)
(* deadline ends.  No caller has to call anything.                              *)
Fairness == /\ \A d \in Drains : WF_vars(Work(d))
            /\ \A c \in Closers : WF_vars(Expire(c)) /\ WF_vars(Close(c))
FairSpec == Spec /\ Fairness

----------------------------------------------------------------------------
(* Properties *)

(* pending counts what is queued or in delivery, once each, whatever was dropped. *)
Queued(d, e) == \E i \in 1..Len(queue[d]) : queue[d][i] = e
InHand(d)    == {e \in Events : busy[d] = e \/ Queued(d, e)}
Held         == {h \in Drains \X Events : h[2] \in InHand(h[1])}
TypeOK ==
    /\ pc \in [Events \cup Calls -> {"new", "lock", "queue", "wait", "flush", "idle",
                                     "close", "done"}]
    /\ next \in [Events \cup Calls -> 1..N + 1]
    /\ queue \in [Drains -> Seq(Events)] /\ \A d \in Drains : Len(queue[d]) <= Cap
    /\ busy \in [Drains -> Events \cup {None}] /\ hung \subseteq Drains
    /\ worker \in [Drains -> {"run", "empty", "done"}]
    /\ closed \in BOOLEAN /\ expired \subseteq Calls /\ shut \subseteq Drains
    /\ got \in [Drains -> SUBSET Events] /\ dropped \in [Drains -> SUBSET Events]
    /\ before \in [Calls -> SUBSET Events]
    /\ pending = Cardinality(Held)

(* "A Flush sees no half-queued event", and flushes a drain only when all that was *)
(* sent before it reached that drain, or was dropped at its full queue.  It can       *)
(* tell since pending is what is queued or in delivery (TypeOK).                       *)
FlushCovers ==
    /\ TypeOK
    /\ \A c \in Flushers : pc[c] = "flush" =>
          \A d \in Drains : before[c] \subseteq got[d] \cup dropped[d]

(* "Close sets closed with no Send in flight": a worker that ended left nothing     *)
(* behind; and unless a Close ran out of time, no drain is closed before its last   *)
(* delivery, nor is anything queued for it afterwards.                              *)
ClosedLast ==
    \A d \in Drains :
        worker[d] = "done" \/ (d \in shut /\ expired \cap Closers = {})
            => InHand(d) = {}

(* "A slow, hung, or panicking drain never delays the others": what is queued for a *)
(* drain that is not hung is delivered, whatever the others do.                     *)
OthersDeliver == \A e \in Events : \A d \in Drains \ MayHang :
                     Queued(d, e) ~> e \in got[d]

(* "The drains still close even when a hung one used up the ctx budget": a Close    *)
(* with a deadline that holds no lock any more closes every drain and returns.      *)
CloseEnds == \A c \in Closers \cap Timed :
                 pc[c] = "idle" ~> (pc[c] = "done" /\ shut = Drains)

(* A hung drain harms nobody else: the two together. *)
Isolation == OthersDeliver /\ CloseEnds

----------------------------------------------------------------------------
(* What the comments say, and the code does not keep *)

(* Close: "The waits are bounded by ctx." *)
CloseBounded == \A c \in Closers \cap Timed : pc[c] = "lock" ~> pc[c] = "done"
=============================================================================
