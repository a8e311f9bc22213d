------------------------------- MODULE Memory --------------------------------
(***************************************************************************)
(* drain/memory: a ring of the newest events and the streams that watch    *)
(* it.                                                                     *)
(*                                                                         *)
(* Send stores under mu and then forwards under subMu: two critical        *)
(* sections, with other senders, Clear, Snapshot and the streams between   *)
(* them.  A stream (SSEHandler, StreamHandler) registers its channel,      *)
(* reads a snapshot, replays a part of it and then reads the channel; the  *)
(* goroutine of Subscribe deregisters and closes the channel once the      *)
(* request is done.                                                        *)
(***************************************************************************)
EXTENDS Naturals, Sequences, SequencesExt

CONSTANTS Senders,      \* the goroutines that call Send
          Streams,      \* the requests to SSEHandler and StreamHandler
          Size,         \* of the ring
          Buffer,       \* subscriberBuffer
          MaxSends,     \* how many events are sent
          MaxClears     \* how often Clear is called

(* New gives a ring of no size its default; a channel may hold no event at all. *)
MemoryAssumption == Size \in Nat \ {0} /\ Buffer \in Nat

VARIABLES
    buf, next,          \* the ring
    subs,               \* the registered channels
    chan, shut,         \* what each stream's channel holds, whether it is closed
    missed,             \* Dropped, for each stream
    spc, sending,       \* where each sender is, and its event
    pc,                 \* where each stream is
    replay,             \* what it has left to replay
    got                 \* what its client was sent

(* History: the events in the order the ring took them; how many of them Clear  *)
(* took away; where in that order each stream's replay begins.                  *)
VARIABLES stored, cleared, from, clears

vars == <<buf, next, subs, chan, shut, missed, spc, sending, pc, replay, got, stored, cleared, from, clears>>

ring    == <<buf, next, stored, cleared, clears>>
sender  == <<spc, sending>>
streams == <<subs, chan, shut, missed, pc, replay, got, from>>

Init ==
    /\ buf = <<>> /\ next = 0
    /\ subs = {} /\ chan = [r \in Streams |-> <<>>] /\ shut = {}
    /\ missed = [r \in Streams |-> {}]
    /\ spc = [s \in Senders |-> "idle"] /\ sending = [s \in Senders |-> 0]
    /\ pc = [r \in Streams |-> "new"]
    /\ replay = [r \in Streams |-> <<>>] /\ got = [r \in Streams |-> <<>>]
    /\ stored = <<>> /\ cleared = 0 /\ clears = 0
    /\ from = [r \in Streams |-> 0]

----------------------------------------------------------------------------
(* Send *)

Event == Len(stored) + 1
Store(s) ==
    /\ spc[s] = "idle" /\ Len(stored) < MaxSends
    /\ spc' = [spc EXCEPT ![s] = "forward"]
    /\ sending' = [sending EXCEPT ![s] = Event]
    /\ stored' = Append(stored, Event)
    /\ IF Len(buf) < Size
       THEN buf' = Append(buf, Event) /\ UNCHANGED next
       ELSE buf' = [buf EXCEPT ![next + 1] = Event] /\ next' = (next + 1) % Size
    /\ UNCHANGED <<cleared, clears, streams>>

(* fanOut: one critical section, and a full channel misses the event. *)
Forward(s) ==
    /\ spc[s] = "forward"
    /\ spc' = [spc EXCEPT ![s] = "idle"]
    /\ chan' = [r \in Streams |-> IF r \in subs /\ Len(chan[r]) < Buffer
                                  THEN Append(chan[r], sending[s]) ELSE chan[r]]
    /\ missed' = [r \in Streams |-> IF r \in subs /\ Len(chan[r]) >= Buffer
                                    THEN missed[r] \cup {sending[s]} ELSE missed[r]]
    /\ UNCHANGED <<sending, ring, subs, shut, pc, replay, got, from>>

(* Snapshot: the oldest first. *)
AsStored == buf                                          \* mutant: from the first slot on
Snapshot == IF Len(buf) < Size THEN buf
            ELSE SubSeq(buf, next + 1, Size) \o SubSeq(buf, 1, next)

Clear ==
    /\ clears < MaxClears /\ clears' = clears + 1
    /\ buf' = <<>> /\ next' = 0
    /\ cleared' = Len(stored)
    /\ UNCHANGED <<stored, sender, streams>>

----------------------------------------------------------------------------
(* A stream *)

(* Subscribe comes before the snapshot. *)
NotYet(r)      == subs                                   \* mutant: not before the snapshot
Subscribed(r)  == subs \cup {r}
Subscribe(r) ==
    /\ pc[r] = "new" /\ pc' = [pc EXCEPT ![r] = "snapshot"]
    /\ subs' = Subscribed(r)
    /\ UNCHANGED <<ring, sender, chan, shut, missed, replay, got, from>>

(* The newest N of the snapshot, or the events after the one that since names.  *)
(* Asking for an event the ring no longer holds replays nothing, like asking    *)
(* for none.                                                                    *)
ReadSnapshot(r) ==
    /\ pc[r] = "snapshot" /\ pc' = [pc EXCEPT ![r] = "replay"]
    /\ \E n \in 0..Len(Snapshot) :
           /\ replay' = [replay EXCEPT ![r] = SubSeq(Snapshot, Len(Snapshot) - n + 1, Len(Snapshot))]
           /\ from' = [from EXCEPT ![r] = Len(stored) - n]
    /\ UNCHANGED <<ring, sender, subs, chan, shut, missed, got>>

Replay(r) ==
    /\ pc[r] = "replay"
    /\ IF replay[r] = <<>>
       THEN pc' = [pc EXCEPT ![r] = "live"] /\ UNCHANGED <<replay, got>>
       ELSE /\ got' = [got EXCEPT ![r] = Append(@, Head(replay[r]))]
            /\ replay' = [replay EXCEPT ![r] = Tail(@)] /\ UNCHANGED pc
    /\ UNCHANGED <<ring, sender, subs, chan, shut, missed, from>>

Live(r) ==
    /\ pc[r] = "live" /\ chan[r] # <<>>
    /\ got' = [got EXCEPT ![r] = Append(@, Head(chan[r]))]
    /\ chan' = [chan EXCEPT ![r] = Tail(@)]
    /\ UNCHANGED <<ring, sender, subs, shut, missed, pc, replay, from>>

(* A write fails or the client leaves: the handler returns and cancels ctx.     *)
Leave(r) ==
    /\ pc[r] \in {"replay", "live"} /\ pc' = [pc EXCEPT ![r] = "left"]
    /\ UNCHANGED <<ring, sender, subs, chan, shut, missed, replay, got, from>>

(* The goroutine of Subscribe. *)
Deregister(r) ==
    /\ pc[r] = "left" /\ r \in subs
    /\ subs' = subs \ {r}
    /\ UNCHANGED <<ring, sender, chan, shut, missed, pc, replay, got, from>>

AnyTime(r) == TRUE                                       \* mutant: closed before it is removed
MayShut(r) == r \notin subs
Shut(r) ==
    /\ pc[r] = "left" /\ MayShut(r) /\ r \notin shut
    /\ shut' = shut \cup {r}
    /\ UNCHANGED <<ring, sender, subs, chan, missed, pc, replay, got, from>>

Next ==
    \/ \E s \in Senders : Store(s) \/ Forward(s)
    \/ \E r \in Streams : \/ Subscribe(r) \/ ReadSnapshot(r) \/ Replay(r) \/ Live(r)
                          \/ Leave(r) \/ Deregister(r) \/ Shut(r)
    \/ Clear

Spec == Init /\ [][Next]_vars

----------------------------------------------------------------------------
(* The ring is the newest events since the last Clear, oldest first, however    *)
(* often it wrapped and whenever it was cleared.                                *)
HoldsNewest ==
    LET kept == Len(stored) - cleared
        n    == IF kept < Size THEN kept ELSE Size
    IN Snapshot = SubSeq(stored, Len(stored) - n + 1, Len(stored))

(* No event falls between the replay and the live view: from where its replay   *)
(* begins, a stream's client got each event, will get it from the replay or the *)
(* channel, missed it and had it counted, or the sender has yet to forward it.  *)
NoGap ==
    \A r \in Streams : pc[r] \in {"replay", "live"} =>
        \A k \in (from[r] + 1)..Len(stored) :
            \/ stored[k] \in ToSet(got[r]) \cup ToSet(replay[r]) \cup ToSet(chan[r]) \cup missed[r]
            \/ \E s \in Senders : spc[s] = "forward" /\ sending[s] = stored[k]

(* fanOut never meets a closed channel, which would panic in the sender. *)
SubscribersOpen == subs \cap shut = {}

LiveView == NoGap /\ SubscribersOpen
=============================================================================
