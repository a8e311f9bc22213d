------------------------------- MODULE Event --------------------------------
(***************************************************************************)
(* The life of wide events (event.go, detach.go): Start and Detach open a  *)
(* unit of work, goroutines write to it, its end func seals and emits it,  *)
(* and a write that comes later is counted on an ancestor.                 *)
(*                                                                         *)
(* Each event has a mutex.  A critical section that takes no other lock is *)
(* one step; a late write is several, because it takes the ancestors'      *)
(* mutexes while it holds its own, and so is emit, which names a missing   *)
(* trace after it unlocked.                                                *)
(* The fields are the set of writes they came from.  Which writes a cap    *)
(* refuses is in Fields, and what follows the seal is in Logger.           *)
(***************************************************************************)
EXTENDS Naturals, FiniteSets

CONSTANTS NUnits,      \* how many events are opened
          Threads,     \* goroutines of the program
          NWrites,     \* how many calls of Set, Append, AppendLog and the like
          None,        \* no event, no thread, no trace
          MaxFields    \* how many writes an event has room for

(* The events and, after them, the writes, numbered in the order in which they begin. *)
Units  == 1..NUnits
Writes == NUnits + 1..NUnits + NWrites

ASSUME EventAssumption ==
    /\ None \notin Units \cup Threads \cup Writes
    /\ {NUnits, NWrites, MaxFields} \subseteq Nat

VARIABLES
    life,        \* of each event: "absent", "open", "ended"
    mu,          \* the thread that holds its mutex
    sealed,      \* the sealed events
    parent,      \* the event it was detached from
    fields,      \* the writes it holds
    dropped,     \* the writes it refused and counted
    lateWrites,  \* the writes counted in wlog.late_writes
    trace,       \* the trace id in its fields: the event that made the id
    out,         \* what emit copied, once it is sealed
    closed,      \* the Logger's closed flag
    reported,    \* the writes reported as WLOG_LATE_WRITE
    pc, unit,    \* where each thread is, and the event it works on
    arg,         \* its write, or the event it makes
    at           \* the ancestor a late write has reached

(* History: the event each write was made on, the writes that returned, and the *)
(* events Detach opened with no event on the context.                           *)
VARIABLES target, returned, bare

event  == <<life, mu, sealed, parent, fields, dropped, lateWrites, trace, out>>
thread == <<pc, unit, arg, at>>
history == <<target, returned, bare>>
vars   == <<event, thread, closed, reported, history>>

NoOutput == [fields |-> {}, dropped |-> {}, lateWrites |-> {}, trace |-> None]

Init ==
    /\ life = [u \in Units |-> "absent"] /\ mu = [u \in Units |-> None]
    /\ sealed = {} /\ parent = [u \in Units |-> None]
    /\ fields = [u \in Units |-> {}] /\ dropped = [u \in Units |-> {}]
    /\ lateWrites = [u \in Units |-> {}] /\ trace = [u \in Units |-> None]
    /\ out = [u \in Units |-> NoOutput]
    /\ closed = FALSE /\ reported = {}
    /\ pc = [t \in Threads |-> "idle"] /\ unit = [t \in Threads |-> None]
    /\ arg = [t \in Threads |-> None] /\ at = [t \in Threads |-> None]
    /\ target = [w \in Writes |-> None] /\ returned = {} /\ bare = {}

Go(t, place, u, a, p) ==
    /\ pc' = [pc EXCEPT ![t] = place]
    /\ unit' = [unit EXCEPT ![t] = u]
    /\ arg' = [arg EXCEPT ![t] = a]
    /\ at' = [at EXCEPT ![t] = p]
Return(t) == Go(t, "idle", None, None, None)

----------------------------------------------------------------------------
(* Start and Detach *)

Fresh(u) == life[u] = "absent" /\ \A v \in Units : v < u => life[v] # "absent"

(* The new event has a trace of its own. *)
Start(t, u) ==
    /\ pc[t] = "idle" /\ Fresh(u)
    /\ life' = [life EXCEPT ![u] = "open"]
    /\ trace' = [trace EXCEPT ![u] = u]
    /\ UNCHANGED <<mu, sealed, parent, fields, dropped, lateWrites, out, thread, closed, reported, history>>

(* With no event on the context, Detach sets no trace. *)
DetachBare(t, u) ==
    /\ pc[t] = "idle" /\ Fresh(u)
    /\ life' = [life EXCEPT ![u] = "open"]
    /\ bare' = bare \cup {u}
    /\ UNCHANGED <<mu, sealed, parent, fields, dropped, lateWrites, trace, out, thread, closed, reported, target, returned>>

(* The child joins the parent's trace, and begins one when there is none. *)
OwnTrace(p, c)    == c                              \* mutant: a trace of its own
JoinedTrace(p, c) == IF trace[p] = None THEN c ELSE trace[p]
Detach(t, p, c) ==
    /\ pc[t] = "idle" /\ life[p] \in {"open", "ended"} /\ Fresh(c)
    /\ mu[p] = None
    /\ trace' = [trace EXCEPT ![c] = JoinedTrace(p, c)]
    /\ parent' = [parent EXCEPT ![c] = p]
    /\ life' = [life EXCEPT ![c] = "open"]
    /\ UNCHANGED <<mu, sealed, fields, dropped, lateWrites, out, thread,
                   closed, reported, history>>

----------------------------------------------------------------------------
(* A write, under the event's mutex *)

WriteLock(t, u, w) ==
    /\ pc[t] = "idle" /\ life[u] \in {"open", "ended"}
    /\ target[w] = None /\ \A v \in Writes : v < w => target[v] # None
    /\ mu[u] = None
    /\ mu' = [mu EXCEPT ![u] = t]
    /\ target' = [target EXCEPT ![w] = u]
    /\ Go(t, "write", u, w, None)
    /\ UNCHANGED <<life, sealed, parent, fields, dropped, lateWrites, trace, out, closed, reported, returned, bare>>

Open(u)     == u \notin sealed
RoomOver(u) == Cardinality(fields[u]) <= MaxFields  \* mutant: one too many
HasRoom(u)  == Cardinality(fields[u]) < MaxFields

WriteStore(t) ==
    /\ pc[t] = "write" /\ Open(unit[t]) /\ HasRoom(unit[t])
    /\ fields' = [fields EXCEPT ![unit[t]] = @ \cup {arg[t]}]
    /\ mu' = [mu EXCEPT ![unit[t]] = None]
    /\ returned' = returned \cup {arg[t]}
    /\ Return(t)
    /\ UNCHANGED <<life, sealed, parent, dropped, lateWrites, trace, out, closed, reported, target, bare>>

WriteDrop(t) ==
    /\ pc[t] = "write" /\ Open(unit[t]) /\ ~HasRoom(unit[t])
    /\ dropped' = [dropped EXCEPT ![unit[t]] = @ \cup {arg[t]}]
    /\ mu' = [mu EXCEPT ![unit[t]] = None]
    /\ returned' = returned \cup {arg[t]}
    /\ Return(t)
    /\ UNCHANGED <<life, sealed, parent, fields, lateWrites, trace, out, closed, reported, target, bare>>

(* recordLateWrite, which keeps the mutex of the sealed event to its end. *)
WriteLate(t) ==
    /\ pc[t] = "write" /\ ~Open(unit[t])
    /\ Go(t, "walk", unit[t], arg[t], parent[unit[t]])
    /\ UNCHANGED <<event, closed, reported, history>>

WalkLock(t) ==
    /\ pc[t] = "walk" /\ at[t] # None /\ mu[at[t]] = None
    /\ mu' = [mu EXCEPT ![at[t]] = t]
    /\ pc' = [pc EXCEPT ![t] = "count"]
    /\ UNCHANGED <<life, sealed, parent, fields, dropped, lateWrites, trace, out, unit, arg, at, closed, reported, history>>

WalkCount(t) ==
    /\ pc[t] = "count" /\ at[t] \notin sealed
    /\ lateWrites' = [lateWrites EXCEPT ![at[t]] = @ \cup {arg[t]}]
    /\ mu' = [mu EXCEPT ![at[t]] = None, ![unit[t]] = None]
    /\ returned' = returned \cup {arg[t]}
    /\ Return(t)
    /\ UNCHANGED <<life, sealed, parent, fields, dropped, trace, out, closed, reported, target, bare>>

KeepLocked(p)  == mu                                \* mutant: the unlock is missing
Unlocked(p)    == [mu EXCEPT ![p] = None]
SkipOne(p)     == IF parent[p] = None THEN None ELSE parent[parent[p]]   \* mutant
Older(p)       == parent[p]
WalkOn(t) ==
    /\ pc[t] = "count" /\ at[t] \in sealed
    /\ mu' = Unlocked(at[t])
    /\ Go(t, "walk", unit[t], arg[t], Older(at[t]))
    /\ UNCHANGED <<life, sealed, parent, fields, dropped, lateWrites, trace, out, closed, reported, history>>

(* No ancestor is open: the write is reported, still under the event's mutex. *)
Silent(w) == reported                               \* mutant: no report
Told(w)   == reported \cup {w}
WalkReport(t) ==
    /\ pc[t] = "walk" /\ at[t] = None
    /\ reported' = Told(arg[t])
    /\ mu' = [mu EXCEPT ![unit[t]] = None]
    /\ returned' = returned \cup {arg[t]}
    /\ Return(t)
    /\ UNCHANGED <<life, sealed, parent, fields, dropped, lateWrites, trace, out, closed, target, bare>>

----------------------------------------------------------------------------
(* The end func, which a caller calls once *)

(* After Close the event is reported as dropped, and never sealed. *)
EndCheck(t, u) ==
    /\ pc[t] = "idle" /\ life[u] = "open"
    /\ life' = [life EXCEPT ![u] = "ended"]
    /\ IF closed THEN UNCHANGED thread ELSE Go(t, "emit", u, None, None)
    /\ UNCHANGED <<mu, sealed, parent, fields, dropped, lateWrites, trace, out, closed, reported, history>>

EmitSeal(t) ==
    /\ pc[t] = "emit" /\ mu[unit[t]] = None
    /\ sealed' = sealed \cup {unit[t]}
    /\ out' = [out EXCEPT ![unit[t]] =
                  [fields |-> fields[unit[t]], dropped |-> dropped[unit[t]],
                   lateWrites |-> lateWrites[unit[t]], trace |-> trace[unit[t]]]]
    /\ pc' = [pc EXCEPT ![t] = "name"]
    /\ UNCHANGED <<life, mu, parent, fields, dropped, lateWrites, trace, unit, arg, at, closed, reported, history>>

(* emit names a missing trace, in the event and not in the copy it emits. *)
EmitName(t) ==
    /\ pc[t] = "name"
    /\ trace' = [trace EXCEPT ![unit[t]] = IF @ = None THEN unit[t] ELSE @]
    /\ Return(t)
    /\ UNCHANGED <<life, mu, sealed, parent, fields, dropped, lateWrites, out, closed, reported, history>>

Close ==
    /\ ~closed
    /\ closed' = TRUE
    /\ UNCHANGED <<event, thread, reported, history>>

----------------------------------------------------------------------------
Begin(t) == \E u \in Units : \/ Start(t, u)
                             \/ DetachBare(t, u)
                             \/ EndCheck(t, u)
                             \/ \E c \in Units : Detach(t, u, c)
                             \/ \E w \in Writes : WriteLock(t, u, w)
Continue(t) == \/ WriteStore(t) \/ WriteDrop(t) \/ WriteLate(t)
               \/ WalkLock(t) \/ WalkCount(t) \/ WalkOn(t) \/ WalkReport(t)
               \/ EmitSeal(t) \/ EmitName(t)

Next == (\E t \in Threads : Begin(t) \/ Continue(t)) \/ Close
Spec == Init /\ [][Next]_vars

----------------------------------------------------------------------------
(* Properties *)

Outputs == [fields : SUBSET Writes, dropped : SUBSET Writes,
            lateWrites : SUBSET Writes, trace : Units \cup {None}]
TypeOK ==
    /\ life \in [Units -> {"absent", "open", "ended"}]
    /\ mu \in [Units -> Threads \cup {None}] /\ sealed \subseteq Units
    /\ parent \in [Units -> Units \cup {None}]
    /\ fields \in [Units -> SUBSET Writes] /\ dropped \in [Units -> SUBSET Writes]
    /\ lateWrites \in [Units -> SUBSET Writes] /\ trace \in [Units -> Units \cup {None}]
    /\ out \in [Units -> Outputs] /\ closed \in BOOLEAN /\ reported \subseteq Writes
    /\ pc \in [Threads -> {"idle", "write", "walk", "count", "emit", "name"}]
    /\ unit \in [Threads -> Units \cup {None}]
    /\ arg \in [Threads -> Units \cup Writes \cup {None}]
    /\ at \in [Threads -> Units \cup {None}]
    /\ target \in [Writes -> Units \cup {None}] /\ returned \subseteq Writes
    /\ \A u \in Units : Cardinality(fields[u]) <= MaxFields

(* "A write is never lost in silence": a write that returned is in its event, in *)
(* its event's drop count, in one ancestor's late_writes, or reported, and only  *)
(* in one of them.  Nothing is added to an event once emit has copied it: what it *)
(* holds and counts, late writes of its children included, is in its output.     *)
Fates(w) == {<<"field", u>> : u \in {v \in Units : w \in fields[v]}}
            \cup {<<"dropped", u>> : u \in {v \in Units : w \in dropped[v]}}
            \cup {<<"late", u>> : u \in {v \in Units : w \in lateWrites[v]}}
            \cup {<<"reported", None>> : r \in {w} \cap reported}
WritesAccounted ==
  /\ \A w \in returned : \E f \in Fates(w) : Fates(w) = {f}
  /\ \A u \in sealed : /\ fields[u] = out[u].fields /\ dropped[u] = out[u].dropped
                      /\ lateWrites[u] = out[u].lateWrites

(* A late write is counted on "the nearest ancestor that is still open", and is  *)
(* reported only when each of them is sealed.  UpTo(x) is x and its ancestors:    *)
(* what every set of events that holds x and is closed under parent holds.        *)
UpClosed(S) == \A u \in S : parent[u] \in S \cup {None}
UpTo(x) == {u \in Units : \A S \in SUBSET Units : UpClosed(S) /\ x \in S \cup {None} => u \in S}
Ancestors(u) == UpTo(parent[u])
LateGoesNearest ==
  /\ \A w \in reported : Ancestors(target[w]) \subseteq sealed
  /\ \A p \in Units : \A w \in lateWrites[p] :
        LET u == target[w] IN
        /\ p \in Ancestors(u) /\ u \in sealed
        /\ Ancestors(u) \ UpTo(p) \subseteq sealed

(* A late write holds one mutex and waits for another: while calls are under way  *)
(* one of them can go on, and a walk only climbs, so none waits for good.          *)
Blocked(t) == \/ pc[t] = "walk" /\ at[t] # None /\ mu[at[t]] # None
              \/ pc[t] = "emit" /\ mu[unit[t]] # None
NoDeadlock == LET busy == {t \in Threads : pc[t] # "idle"}
              IN  busy # {} => \E t \in busy : ~Blocked(t)

(* "Every event of real work joins the same trace as its children": the trace   *)
(* id an event is emitted with is the one its parent is emitted with, unless an *)
(* ancestor was detached from no event: emit names that one's trace too late.   *)
Bare(c)    == UpTo(c) \cap bare # {}
TracesJoin ==
    \A c \in sealed : ~Bare(c) =>
        /\ out[c].trace # None
        /\ parent[c] \in sealed => out[c].trace = out[parent[c]].trace

(* event.go, detach.go: a write that returned is in one place and in the output; a *)
(* late one is on the nearest open ancestor; parent and child share a trace; and   *)
(* the mutexes of a chain of events are taken in one order.                        *)
WritesKept == TypeOK /\ WritesAccounted /\ LateGoesNearest /\ TracesJoin /\ NoDeadlock
=============================================================================
