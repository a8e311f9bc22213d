------------------------------ MODULE Sessions ------------------------------
(***************************************************************************)
(* MCP requests (ai/mcpgo, ai/mcpsdk): one event per request.  mcpgo opens *)
(* it in a hook before the request and ends it in a hook after it, and     *)
(* finds it between the two in a bounded map that forgets what is too old. *)
(* mcpsdk holds it in a middleware around the handler.                     *)
(*                                                                         *)
(* Each request runs on a goroutine of its own, and a step is what it does *)
(* under one hold of pending.mu, or between two of them.                   *)
(***************************************************************************)
EXTENDS Naturals, FiniteSets

CONSTANTS Requests, Sessions, Ids,
          Kinds,        \* a subset of {"hooks", "middleware"}
          Capacity,     \* pendingCapacity
          None

(* Answers a request may get. *)
Results == {"ok", "input_required", "tool_error", "malformed", "protocol_error", "panic"}

VARIABLES
    kind,        \* of the server
    key,         \* the session and the id of each request
    pc,
    entries,     \* pending.entries: the request stored under each key
    byCtx,       \* pending.byCtx: the requests whose context has an event stored
    old,         \* the stored requests past pendingTTL
    hand,        \* what the goroutine of a request took and ends next: requests
    result,      \* of each request
    event,       \* of each request: None, or how often and by whom it ended, and its level
    seen,        \* the request whose event its handler wrote to, or None
    reports      \* WLOG_CAP_REACHED

(* History: the requests whose entry another one replaced, those refused at the cap, *)
(* and those whose after hook found nothing.                                         *)
VARIABLES replaced, refused, missed

pending == <<entries, byCtx, old>>
history == <<replaced, refused, missed>>
vars    == <<kind, key, pc, pending, hand, result, event, seen, reports, history>>

SessionsAssumption == Capacity \in Nat \ {0} /\ Kinds \subseteq {"hooks", "middleware"} /\ None \notin Requests

Keys == Sessions \X Ids
Held == {k \in Keys : entries[k] # None}
Go(r, place) == pc' = [pc EXCEPT ![r] = place]

Init ==
    /\ kind \in Kinds /\ key \in [Requests -> Keys]
    /\ pc = [r \in Requests |-> "new"]
    /\ entries = [k \in Keys |-> None] /\ byCtx = {} /\ old = {}
    /\ hand = [r \in Requests |-> {}] /\ result = [r \in Requests |-> None]
    /\ event = [r \in Requests |-> None] /\ seen = [r \in Requests |-> None] /\ reports = 0
    /\ replaced = {} /\ refused = {} /\ missed = {}

----------------------------------------------------------------------------
(* BeforeAny of mcpgo, and the top of the middleware of mcpsdk: work.Start.  A *)
(* notification has no event.                                                  *)
Opened == [ends |-> 0, by |-> None, level |-> None]
Begin(r) ==
    /\ pc[r] = "new"
    /\ event' = [event EXCEPT ![r] = Opened]
    /\ Go(r, IF kind = "hooks" THEN "store" ELSE "handler")
    /\ UNCHANGED <<kind, key, pending, hand, result, seen, reports, history>>

Notify(r) ==
    /\ pc[r] = "new"
    /\ Go(r, "returned")
    /\ UNCHANGED <<kind, key, pending, hand, result, event, seen, reports, history>>

(* pending.store: what is too old goes first, then the new entry, if there is room. *)
KeepsContexts(gone) == byCtx                          \* mutant: their contexts stay
Without(gone) == byCtx \ gone
Dropped == {k \in Held : entries[k] \in old}
Store(r) ==
    /\ pc[r] = "store"
    /\ LET swept == [k \in Keys |-> IF k \in Dropped THEN None ELSE entries[k]]
           gone  == {entries[k] : k \in Dropped}
           full  == Cardinality(Held \ Dropped) >= Capacity
           was   == swept[key[r]]
       IN  /\ entries' = IF full THEN swept ELSE [swept EXCEPT ![key[r]] = r]
           /\ byCtx' = Without(gone) \cup (IF full THEN {} ELSE {r})
           /\ old' = old \ gone
           /\ hand' = [hand EXCEPT ![r] = gone]
           /\ reports' = reports + Cardinality(gone) + (IF full THEN 1 ELSE 0)
           /\ replaced' = IF full \/ was = None THEN replaced ELSE replaced \cup {was}
           /\ refused' = IF full THEN refused \cup {r} ELSE refused
    /\ Go(r, "sweep")
    /\ UNCHANGED <<kind, key, result, event, seen, missed>>

(* work.Handle.End, which only the first call of counts.  A level that was named wins. *)
Ends(e, by, level) ==
    [event EXCEPT ![e] = IF @.ends > 0 THEN @
                         ELSE [ends |-> 1, by |-> by, level |-> level]]

(* The expired events end, unlocked, with errPendingExpired. *)
Sweep(r) ==
    /\ pc[r] = "sweep"
    /\ IF hand[r] = {} THEN Go(r, "handler") /\ UNCHANGED <<hand, event>>
       ELSE \E e \in hand[r] : /\ event' = Ends(e, "expiry", "error")
                               /\ hand' = [hand EXCEPT ![r] = @ \ {e}]
                               /\ UNCHANGED pc
    /\ UNCHANGED <<kind, key, pending, result, seen, reports, history>>

(* Five minutes go by since a request was stored, and those stored before it. *)
Expire(r) ==
    /\ r \in byCtx \ old
    /\ old' = old \cup {r}
    /\ UNCHANGED <<kind, key, pc, entries, byCtx, hand, result, event, seen, reports, history>>

(* The handler runs: with the event of its own context, when the tool middleware    *)
(* finds one.                                                                       *)
Handle(r) ==
    /\ pc[r] = "handler"
    /\ seen' = [seen EXCEPT ![r] = IF kind = "middleware" \/ r \in byCtx THEN r ELSE None]
    /\ Go(r, IF kind = "middleware" THEN "record" ELSE "after")
    /\ UNCHANGED <<kind, key, pending, hand, result, event, reports, history>>

(* The server never calls the after hook: the client went away. *)
Abandon(r) ==
    /\ pc[r] = "after"
    /\ Go(r, "returned")
    /\ UNCHANGED <<kind, key, pending, hand, result, event, seen, reports, history>>

(* A request that failed before its before hook, to parse or for its capabilities, *)
(* has an after hook alone: pending.take removes whatever has its key.             *)
Unparsed(r) ==
    /\ kind = "hooks" /\ pc[r] = "new"
    /\ Go(r, "after")
    /\ UNCHANGED <<kind, key, pending, hand, result, event, seen, reports, history>>

(* pending.take, at any age. *)
NotOld(e) == e # None /\ e \notin old                      \* mutant: age is checked
Takes(e)  == e # None
Take(r) ==
    /\ pc[r] = "after"
    /\ LET e == entries[key[r]]
       IN  IF Takes(e)
           THEN /\ entries' = [entries EXCEPT ![key[r]] = None]
                /\ byCtx' = byCtx \ {e} /\ old' = old \ {e}
                /\ hand' = [hand EXCEPT ![r] = {e}]
                /\ Go(r, "record") /\ UNCHANGED missed
           ELSE /\ missed' = missed \cup {r}
                /\ Go(r, "returned") /\ UNCHANGED <<pending, hand>>
    /\ UNCHANGED <<kind, key, result, event, seen, reports, replaced, refused>>

(* classify: the level its result asks for. *)
ToolFails == "error"                                       \* mutant
ToolLevel == "warn"
LevelOf(x) == CASE x \in {"ok", "input_required"}   -> "info"
                [] x = "tool_error"                -> ToolLevel
                [] x = "malformed"                 -> "warn"
                [] x \in {"protocol_error", "panic"} -> "error"

(* finish and record: the result and its level, and work.Handle.End.  mcpsdk panics again. *)
Answers(r) == IF event[r] = None THEN {"malformed"}
              ELSE IF kind = "hooks" THEN Results \ {"panic"} ELSE Results
Record(r) ==
    /\ pc[r] = "record"
    /\ \E x \in Answers(r) :
           /\ result' = [result EXCEPT ![r] = x]
           /\ \E e \in IF kind = "hooks" THEN hand[r] ELSE {r} :
                  event' = Ends(e, r, LevelOf(x))
           /\ Go(r, IF x = "panic" THEN "panicked" ELSE "returned")
    /\ hand' = [hand EXCEPT ![r] = {}]
    /\ UNCHANGED <<kind, key, pending, seen, reports, history>>

Next == \E r \in Requests :
            \/ Begin(r) \/ Notify(r) \/ Unparsed(r) \/ Store(r) \/ Sweep(r) \/ Handle(r)
            \/ Abandon(r) \/ Take(r) \/ Record(r) \/ Expire(r)

Spec == Init /\ [][Next]_vars

----------------------------------------------------------------------------
Events == {r \in Requests : event[r] # None}
InHand == UNION {hand[r] : r \in Requests}
Stored == {entries[k] : k \in Held}
Open(r) == pc[r] \notin {"new", "returned", "panicked"}

(* Two requests that shared a key. *)
Shared(r) == \E q \in Requests \ {r} : key[q] = key[r]

(* An event that was started is still stored, or on its way, or it ended once; only  *)
(* one the cap refused, or whose key was given to a second request before its end,   *)
(* stays open for good, and the first of these is reported (pending.store, take).    *)
EventPerRequest ==
    \A r \in Events :
        \/ event[r].ends = 1 /\ r \notin Stored \cup InHand
        \/ event[r].ends = 0 /\ r \in Stored \cup InHand \cup replaced \cup refused
        \/ event[r].ends = 0 /\ (pc[r] = "store" \/ (kind = "middleware" /\ Open(r)))
Told == reports >= Cardinality(refused)

(* The event of a request is ended with its own result and level, or by its expiry,  *)
(* unless another request carried the same session and id; and its handler writes to *)
(* its own event or to none (pendingKey, byCtx).                                     *)
RightEvent ==
    /\ \A r \in Events :
           event[r].ends = 1 =>
               \/ event[r].by = "expiry" /\ event[r].level = "error"
               \/ /\ event[r].by = r \/ (Shared(r) /\ key[event[r].by] = key[r])
                  /\ event[r].level = CASE result[event[r].by] \in {"ok", "input_required"} -> "info"
                                        [] result[event[r].by] \in {"tool_error", "malformed"} -> "warn"
                                        [] OTHER -> "error"
    /\ \A r \in Requests : seen[r] \in {r, None}

(* An after hook that finds nothing belongs to a request that has no event, or whose *)
(* event the cap refused, expiry ended, or another request with its key took.        *)
MissExplained ==
    \A r \in missed : \/ event[r] = None \/ r \in refused \/ Shared(r)
                      \/ event[r].by = "expiry" \/ r \in InHand

(* What the map holds is bounded, whatever never ends. *)
Bounded == Cardinality(Held) <= Capacity /\ Cardinality(byCtx \ replaced) <= Capacity

SessionsTell == EventPerRequest /\ Told /\ RightEvent /\ MissExplained /\ Bounded

----------------------------------------------------------------------------
(* What the comments say, and the code does not keep: "a request that never gets an  *)
(* after hook costs bounded memory".  A context whose key was given away stays.      *)
ContextsBounded == Cardinality(byCtx) <= Capacity
=============================================================================
