----------------------------- MODULE EventProofs -----------------------------
(***************************************************************************)
(* What holds of Event for any events, goroutines and writes, and any      *)
(* order in which they run.                                                *)
(***************************************************************************)
EXTENDS Event, FiniteSetTheorems, WellFoundedInduction, TLAPS

Present(u) == life[u] # "absent"
Flying(t)  == pc[t] \in {"write", "walk", "count"}
Ending(t)  == pc[t] \in {"emit", "name"}

(* Events are opened in order, each after its parent; an event is ended before it is *)
(* sealed.                                                                           *)
Opened ==
    /\ \A u \in Units : parent[u] # None => parent[u] < u /\ Present(parent[u])
    /\ \A u \in Units : ~Present(u) => parent[u] = None
    /\ \A u, v \in Units : v < u /\ Present(u) => Present(v)
    /\ \A w \in Writes : target[w] # None => Present(target[w])

(* One goroutine ends an event, and seals it once. *)
Ended ==
    /\ \A u \in sealed : life[u] = "ended"
    /\ \A t \in Threads : Ending(t) =>
           /\ unit[t] \in Units /\ life[unit[t]] = "ended"
           /\ pc[t] = "emit" <=> unit[t] \notin sealed
    /\ \A t, s \in Threads : Ending(t) /\ Ending(s) /\ unit[t] = unit[s] => t = s

(* Who holds a mutex. *)
Holds(t, u) == \/ Flying(t) /\ unit[t] = u
               \/ pc[t] = "count" /\ at[t] = u
Locked == \A u \in Units : \A t \in Threads : mu[u] = t <=> Holds(t, u)

(* A write under way has no fate and no other goroutine; one that returned has one. *)
Fated ==
    /\ \A t \in Threads : Flying(t) =>
           /\ arg[t] \in Writes /\ unit[t] \in Units /\ target[arg[t]] = unit[t]
           /\ arg[t] \notin returned /\ Fates(arg[t]) = {}
    /\ \A t, s \in Threads : Flying(t) /\ Flying(s) /\ arg[t] = arg[s] => t = s
    /\ \A w \in Writes : target[w] = None => w \notin returned /\ Fates(w) = {}
    /\ \A w \in returned : \E f \in Fates(w) : Fates(w) = {f}

Frozen == \A u \in sealed : /\ fields[u] = out[u].fields /\ dropped[u] = out[u].dropped
                            /\ lateWrites[u] = out[u].lateWrites

(* The ancestors by any parent function f: Up(f, x) is UpTo(x) when f is parent.  *)
Closed(f, S) == \A u \in S : f[u] \in S \cup {None}
Up(f, x) == {u \in Units : \A S \in SUBSET Units : Closed(f, S) /\ x \in S \cup {None} => u \in S}

(* u is sealed and so is each of its ancestors below a, or each of them.           *)
Passed(f, S, u, a) ==
    /\ u \in S /\ a \in Up(f, f[u]) \cup {None}
    /\ Up(f, f[u]) \ Up(f, a) \subseteq S

(* A walk has passed sealed ancestors only, and so has a late write that is counted *)
(* or reported.                                                                      *)
Walked ==
    \A t \in Threads : pc[t] \in {"walk", "count"} =>
        Passed(parent, sealed, unit[t], at[t]) /\ (pc[t] = "count" => at[t] # None)
Nearest ==
    /\ \A w \in reported : Passed(parent, sealed, target[w], None)
    /\ \A p \in Units : \A w \in lateWrites[p] : Passed(parent, sealed, target[w], p)

(* A trace is the parent's, and does not change, where no event above was opened by *)
(* Detach on an empty context.                                                       *)
Clear(f, B, u) == Up(f, u) \cap B = {}
Traced ==
    /\ \A u \in Units : Present(u) /\ Clear(parent, bare, u) =>
           trace[u] # None /\ (parent[u] # None => trace[u] = trace[parent[u]])
    /\ \A u \in sealed : Clear(parent, bare, u) => out[u].trace = trace[u]

Finite == \A u \in Units : IsFiniteSet(fields[u])

EventInv == /\ TypeOK /\ Finite /\ Opened /\ Ended /\ Locked /\ Fated /\ Frozen
            /\ Walked /\ Nearest /\ Traced
----------------------------------------------------------------------------
(* The ancestors *)

Parents == [Units -> Units \cup {None}]

LEMMA Names ==
    /\ None \notin Units /\ None \notin Threads /\ None \notin Writes
    /\ Units \subseteq Nat /\ Writes \subseteq Nat /\ Units \cap Writes = {} /\ MaxFields \in Nat
  BY EventAssumption DEF Units, Writes

LEMMA UpIs == \A x : UpTo(x) = Up(parent, x)
  BY DEF UpTo, UpClosed, Up, Closed

LEMMA UpNone == \A f : Up(f, None) = {}
<1> SUFFICES ASSUME NEW f, NEW u \in Up(f, None) PROVE FALSE
  OBVIOUS
<1>1. {} \in SUBSET Units /\ Closed(f, {})
  BY DEF Closed
<1> QED  BY <1>1 DEF Up

LEMMA UpHolds ==
    ASSUME NEW f \in Parents, NEW x \in Units
    PROVE  x \in Up(f, x) /\ Up(f, x) \subseteq Units
  BY Names DEF Up

(* What a closed set holds of x, it holds of all above x. *)
LEMMA UpLeast ==
    ASSUME NEW f, NEW x, NEW S \in SUBSET Units, Closed(f, S), x \in S \cup {None}
    PROVE  Up(f, x) \subseteq S
  BY DEF Up

LEMMA UpIsClosed ==
    ASSUME NEW f \in Parents, NEW x
    PROVE  Closed(f, Up(f, x))
<1> SUFFICES ASSUME NEW u \in Up(f, x), f[u] # None PROVE f[u] \in Up(f, x)
  BY DEF Closed
<1>1. u \in Units /\ f[u] \in Units
  BY DEF Up, Parents
<1>2. ASSUME NEW S \in SUBSET Units, Closed(f, S), x \in S \cup {None} PROVE f[u] \in S
  <2>1. u \in S
    BY <1>2 DEF Up
  <2> QED  BY <2>1, <1>2 DEF Closed
<1> QED  BY <1>1, <1>2 DEF Up

LEMMA UpAbove ==
    ASSUME NEW f \in Parents, NEW x, NEW u \in Up(f, x)
    PROVE  Up(f, u) \subseteq Up(f, x) /\ Up(f, f[u]) \subseteq Up(f, x)
<1>1. Up(f, x) \in SUBSET Units /\ Closed(f, Up(f, x))
  BY UpIsClosed DEF Up
<1>2. f[u] \in Up(f, x) \cup {None}
  BY <1>1 DEF Closed
<1> QED  BY <1>1, <1>2, UpLeast

(* x, and all above its parent. *)
LEMMA UpStep ==
    ASSUME NEW f \in Parents, NEW x \in Units
    PROVE  Up(f, x) = {x} \cup Up(f, f[x])
<1>1. {x} \cup Up(f, f[x]) \subseteq Up(f, x)
  BY UpHolds, UpAbove
<1> DEFINE S == {x} \cup Up(f, f[x])
<1>2. S \in SUBSET Units
  BY DEF Up
<1>3. f[x] \in S \cup {None}
  BY UpHolds DEF Parents
<1>4. Closed(f, Up(f, f[x]))
  BY UpIsClosed
<1>5. Closed(f, S)
  BY <1>3, <1>4 DEF Closed
<1>6. Up(f, x) \subseteq S
  BY <1>2, <1>5, UpLeast
<1> QED  BY <1>1, <1>6

(* A unit that is nobody's parent and gets one changes nothing above the others. *)
LEMMA UpWithout ==
    ASSUME NEW f \in Parents, NEW g \in Parents, NEW c \in Units, NEW x, x # c,
           \A u \in Units \ {c} : f[u] # c /\ g[u] = f[u]
    PROVE  Up(f, x) \subseteq Up(g, x)
<1> SUFFICES ASSUME NEW u \in Up(f, x), NEW S \in SUBSET Units, Closed(g, S), x \in S \cup {None}
             PROVE  u \in S
  BY DEF Up
<1>1. S \ {c} \in SUBSET Units /\ x \in (S \ {c}) \cup {None}
  OBVIOUS
<1>2. Closed(f, S \ {c})
  BY DEF Closed
<1> QED  BY <1>1, <1>2 DEF Up

LEMMA UpSame ==
    ASSUME NEW f \in Parents, NEW c \in Units, NEW p \in Units, p # c, f[c] = None,
           \A u \in Units : f[u] # c, NEW x, x # c
    PROVE  Up([f EXCEPT ![c] = p], x) = Up(f, x)
<1> DEFINE g == [f EXCEPT ![c] = p]
<1>1. g \in Parents
  BY DEF Parents
<1>2. \A u \in Units \ {c} : f[u] # c /\ g[u] = f[u] /\ g[u] # c
  BY DEF Parents
<1> HIDE DEF g
<1>3. Up(f, x) \subseteq Up(g, x) /\ Up(g, x) \subseteq Up(f, x)
  BY <1>1, <1>2, UpWithout
<1> QED  BY <1>3 DEF g


----------------------------------------------------------------------------
(* The steps *)

Steps(t) == Begin(t) \/ Continue(t)

LEMMA Typed ==
    ASSUME TypeOK, NEW t \in Threads
    PROVE  /\ unit[t] \in Units \cup {None} /\ at[t] \in Units \cup {None}
           /\ arg[t] \in Units \cup Writes \cup {None}
           /\ parent \in Parents
           /\ \A u \in Units : /\ mu[u] \in Threads \cup {None} /\ parent[u] \in Units \cup {None}
                               /\ fields[u] \in SUBSET Writes /\ dropped[u] \in SUBSET Writes
                               /\ lateWrites[u] \in SUBSET Writes /\ trace[u] \in Units \cup {None}
  BY DEF TypeOK, Parents

(* The types of what the steps write. *)
EventTypes ==
    /\ life \in [Units -> {"absent", "open", "ended"}]
    /\ mu \in [Units -> Threads \cup {None}] /\ sealed \subseteq Units
    /\ parent \in [Units -> Units \cup {None}]
    /\ trace \in [Units -> Units \cup {None}] /\ out \in [Units -> Outputs]
WriteTypes ==
    /\ fields \in [Units -> SUBSET Writes] /\ dropped \in [Units -> SUBSET Writes]
    /\ lateWrites \in [Units -> SUBSET Writes]
    /\ target \in [Writes -> Units \cup {None}] /\ returned \subseteq Writes /\ reported \subseteq Writes
ThreadTypes ==
    /\ pc \in [Threads -> {"idle", "write", "walk", "count", "emit", "name"}]
    /\ unit \in [Threads -> Units \cup {None}]
    /\ arg \in [Threads -> Units \cup Writes \cup {None}]
    /\ at \in [Threads -> Units \cup {None}]
Types == EventTypes /\ WriteTypes /\ ThreadTypes /\ closed \in BOOLEAN
Room  == \A u \in Units : IsFiniteSet(fields[u]) /\ Cardinality(fields[u]) <= MaxFields

LEMMA TypeParts == TypeOK /\ Finite <=> Types /\ Room
  BY DEF TypeOK, Finite, Types, EventTypes, WriteTypes, ThreadTypes, Room

LEMMA GoType ==
    ASSUME ThreadTypes, NEW t \in Threads, NEW p \in Units \cup {None}, NEW u \in Units \cup {None},
           NEW a \in Units \cup Writes \cup {None},
           NEW place \in {"idle", "write", "walk", "count", "emit", "name"}, Go(t, place, u, a, p)
    PROVE  ThreadTypes'
  BY DEF ThreadTypes, Go

LEMMA ReturnType ==
    ASSUME ThreadTypes, NEW t \in Threads, Return(t)
    PROVE  ThreadTypes'
  BY GoType DEF Return

LEMMA BeginTypes ==
    ASSUME Types, NEW t \in Threads, Begin(t)
    PROVE  Types'
<1> USE DEF Types
<1>1. ASSUME NEW u \in Units, Start(t, u) PROVE Types'
  BY <1>1 DEF Start, EventTypes, WriteTypes, ThreadTypes, thread, history
<1>2. ASSUME NEW u \in Units, DetachBare(t, u) PROVE Types'
  BY <1>2 DEF DetachBare, EventTypes, WriteTypes, ThreadTypes, thread
<1>3. ASSUME NEW u \in Units, NEW c \in Units, Detach(t, u, c) PROVE Types'
  BY <1>3 DEF Detach, JoinedTrace, EventTypes, WriteTypes, ThreadTypes, thread, history
<1>4. ASSUME NEW u \in Units, EndCheck(t, u) PROVE Types'
  <2>1. EventTypes' /\ WriteTypes' /\ closed' \in BOOLEAN
    BY <1>4 DEF EndCheck, EventTypes, WriteTypes, history
  <2>2. ThreadTypes'
    BY <1>4, GoType DEF EndCheck, thread, ThreadTypes
  <2> QED  BY <2>1, <2>2
<1>5. ASSUME NEW u \in Units, NEW w \in Writes, WriteLock(t, u, w) PROVE Types'
  <2>1. EventTypes' /\ WriteTypes' /\ closed' \in BOOLEAN
    BY <1>5 DEF WriteLock, EventTypes, WriteTypes
  <2>2. ThreadTypes'
    BY <1>5, GoType DEF WriteLock
  <2> QED  BY <2>1, <2>2
<1> QED  BY <1>1, <1>2, <1>3, <1>4, <1>5 DEF Begin

(* An ancestor was opened before. *)
LEMMA AncestorsBelow ==
    ASSUME Types, Opened, NEW x \in Units, NEW u \in Ancestors(x)
    PROVE  u \in Units /\ u < x
<1> DEFINE S == {v \in Units : v < x}
<1>1. parent \in Parents
  BY DEF Types, EventTypes, Parents
<1>2. parent[x] \in S \cup {None}
  BY <1>1 DEF Opened, Parents
<1>3. Closed(parent, S)
  <2> SUFFICES ASSUME NEW v \in S, parent[v] # None PROVE parent[v] \in S
    BY DEF Closed
  <2>1. parent[v] \in Units /\ parent[v] < v /\ v < x
    BY <1>1 DEF Opened, Parents
  <2>2. parent[v] \in Nat /\ v \in Nat /\ x \in Nat
    BY <2>1, Names
  <2>3. parent[v] < x
    BY <2>1, <2>2
  <2> QED  BY <2>1, <2>3
<1>4. Up(parent, parent[x]) \subseteq S
  BY <1>2, <1>3, UpLeast
<1> QED  BY <1>4, UpIs DEF Ancestors

(* What a step needs of the thread that takes it. *)
Busy(t) == /\ Flying(t) => unit[t] \in Units /\ arg[t] \in Writes
           /\ pc[t] = "count" => at[t] \in Units /\ at[t] # unit[t]
           /\ Ending(t) => unit[t] \in Units

LEMMA BusyOne ==
    ASSUME EventInv, NEW t \in Threads
    PROVE  Busy(t)
<1>1. Types /\ Opened
  BY TypeParts DEF EventInv
<1>2. (Flying(t) => unit[t] \in Units /\ arg[t] \in Writes) /\ (Ending(t) => unit[t] \in Units)
  BY DEF EventInv, Fated, Ended
<1>3. ASSUME pc[t] = "count" PROVE at[t] \in Units /\ at[t] # unit[t]
  <2>1. unit[t] \in Units /\ at[t] \in Ancestors(unit[t])
    BY <1>2, <1>3, UpIs DEF EventInv, Walked, Passed, Flying, Ancestors
  <2>2. at[t] \in Units /\ at[t] < unit[t]
    BY <1>1, <2>1, AncestorsBelow
  <2>3. at[t] \in Nat /\ unit[t] \in Nat
    BY <2>1, <2>2, Names
  <2> QED  BY <2>2, <2>3
<1> QED  BY <1>2, <1>3 DEF Busy

LEMMA ContinueTypes ==
    ASSUME Types, NEW t \in Threads, Busy(t), Continue(t)
    PROVE  Types'
<1> USE DEF Types
<1>1. CASE WriteStore(t)
  <2>1. EventTypes' /\ WriteTypes' /\ closed' \in BOOLEAN
    BY <1>1 DEF WriteStore, EventTypes, WriteTypes, Busy, Flying
  <2> QED  BY <1>1, <2>1, ReturnType DEF WriteStore
<1>2. CASE WriteDrop(t)
  <2>1. EventTypes' /\ WriteTypes' /\ closed' \in BOOLEAN
    BY <1>2 DEF WriteDrop, EventTypes, WriteTypes, Busy, Flying
  <2> QED  BY <1>2, <2>1, ReturnType DEF WriteDrop
<1>3. CASE WriteLate(t)
  <2>1. EventTypes' /\ WriteTypes' /\ closed' \in BOOLEAN
    BY <1>3 DEF WriteLate, EventTypes, WriteTypes, event, history
  <2>2. unit[t] \in Units /\ arg[t] \in Writes /\ parent[unit[t]] \in Units \cup {None}
    BY <1>3 DEF WriteLate, EventTypes, Busy, Flying
  <2> QED  BY <1>3, <2>1, <2>2, GoType DEF WriteLate
<1>4. CASE WalkLock(t)
  <2>1. WriteTypes' /\ closed' \in BOOLEAN
    BY <1>4 DEF WalkLock, WriteTypes, history
  <2>2. EventTypes'
    BY <1>4 DEF WalkLock, EventTypes
  <2>3. ThreadTypes'
    BY <1>4 DEF WalkLock, ThreadTypes
  <2> QED  BY <2>1, <2>2, <2>3
<1>5. CASE WalkCount(t)
  <2>1. EventTypes' /\ WriteTypes' /\ closed' \in BOOLEAN
    BY <1>5 DEF WalkCount, EventTypes, WriteTypes, Busy, Flying
  <2> QED  BY <1>5, <2>1, ReturnType DEF WalkCount
<1>6. CASE WalkOn(t)
  <2>1. EventTypes' /\ WriteTypes' /\ closed' \in BOOLEAN
    BY <1>6 DEF WalkOn, Unlocked, EventTypes, WriteTypes, history
  <2>2. unit[t] \in Units /\ arg[t] \in Writes /\ Older(at[t]) \in Units \cup {None}
    BY <1>6 DEF WalkOn, EventTypes, Older, Busy, Flying
  <2> QED  BY <1>6, <2>1, <2>2, GoType DEF WalkOn
<1>7. CASE WalkReport(t)
  <2>1. EventTypes' /\ WriteTypes' /\ closed' \in BOOLEAN
    BY <1>7 DEF WalkReport, Told, EventTypes, WriteTypes, Busy, Flying
  <2> QED  BY <1>7, <2>1, ReturnType DEF WalkReport
<1>8. CASE EmitSeal(t)
  <2>1. unit[t] \in Units
    BY <1>8 DEF EmitSeal, Busy, Ending
  <2>2. out' \in [Units -> Outputs]
    <3>1. [fields |-> fields[unit[t]], dropped |-> dropped[unit[t]],
           lateWrites |-> lateWrites[unit[t]], trace |-> trace[unit[t]]] \in Outputs
      BY <2>1 DEF EventTypes, WriteTypes, Outputs
    <3> QED  BY <1>8, <3>1 DEF EmitSeal, EventTypes
  <2>3. EventTypes' /\ WriteTypes' /\ closed' \in BOOLEAN
    BY <1>8, <2>1, <2>2 DEF EmitSeal, EventTypes, WriteTypes, history
  <2>4. ThreadTypes'
    BY <1>8 DEF EmitSeal, ThreadTypes
  <2> QED  BY <2>3, <2>4
<1>9. CASE EmitName(t)
  <2>1. EventTypes' /\ WriteTypes' /\ closed' \in BOOLEAN
    BY <1>9 DEF EmitName, EventTypes, WriteTypes, history, Busy, Ending
  <2> QED  BY <1>9, <2>1, ReturnType DEF EmitName
<1> QED  BY <1>1, <1>2, <1>3, <1>4, <1>5, <1>6, <1>7, <1>8, <1>9 DEF Continue

(* A cap admits one write more only below it. *)
LEMMA RoomKept ==
    ASSUME Types, Room, NEW t \in Threads, Busy(t), Steps(t)
    PROVE  Room'
<1>1. CASE WriteStore(t)
  <2> DEFINE u == unit[t]
  <2>1. u \in Units /\ fields' = [fields EXCEPT ![u] = @ \cup {arg[t]}]
    BY <1>1 DEF WriteStore, Busy, Flying
  <2>2. Cardinality(fields[u]) < MaxFields /\ IsFiniteSet(fields[u])
    BY <1>1, <2>1 DEF WriteStore, HasRoom, Room
  <2>3. /\ IsFiniteSet(fields[u] \cup {arg[t]})
        /\ Cardinality(fields[u] \cup {arg[t]}) = Cardinality(fields[u])
           \/ Cardinality(fields[u] \cup {arg[t]}) = Cardinality(fields[u]) + 1
    BY <2>2, FS_AddElement
  <2>4. Cardinality(fields[u]) \in Nat
    BY <2>2, FS_CardinalityType
  <2>5. Cardinality(fields[u] \cup {arg[t]}) <= MaxFields
    BY <2>2, <2>3, <2>4, Names
  <2>6. \A v \in Units : fields'[v] = IF v = u THEN fields[u] \cup {arg[t]} ELSE fields[v]
    BY <2>1 DEF Types, WriteTypes
  <2> QED  BY <2>3, <2>5, <2>6 DEF Room
<1>2. CASE Steps(t) /\ ~WriteStore(t)
  <2>1. fields' = fields
    BY <1>2 DEF Steps, Begin, Start, DetachBare, Detach, EndCheck, WriteLock, Continue, WriteDrop,
                WriteLate, WalkLock, WalkCount, WalkOn, WalkReport, EmitSeal, EmitName, event, history
  <2> QED  BY <2>1 DEF Room
<1> QED  BY <1>1, <1>2


LEMMA Others ==
    ASSUME Types, NEW t \in Threads, Steps(t), NEW s \in Threads, s # t
    PROVE  pc'[s] = pc[s] /\ unit'[s] = unit[s] /\ arg'[s] = arg[s] /\ at'[s] = at[s]
<1> USE DEF Types, ThreadTypes, Go, Return
<1>1. CASE Begin(t)
  BY <1>1 DEF Begin, Start, DetachBare, Detach, EndCheck, WriteLock, thread
<1>2. CASE WriteStore(t) \/ WriteDrop(t) \/ WriteLate(t) \/ WalkLock(t) \/ WalkCount(t)
  BY <1>2 DEF WriteStore, WriteDrop, WriteLate, WalkLock, WalkCount
<1>3. CASE WalkOn(t) \/ WalkReport(t) \/ EmitSeal(t) \/ EmitName(t)
  BY <1>3 DEF WalkOn, WalkReport, EmitSeal, EmitName
<1> QED  BY <1>1, <1>2, <1>3 DEF Steps, Continue

----------------------------------------------------------------------------
(* Events are opened in order *)

LEMMA Before ==
    ASSUME Types, Opened, NEW t \in Threads, NEW p \in Units, NEW c \in Units, Detach(t, p, c)
    PROVE  /\ p < c /\ p # c /\ Present(p) /\ ~Present(c) /\ parent[c] = None
           /\ \A u \in Units : parent[u] # c
<1>1. Present(p) /\ ~Present(c) /\ p # c
  BY DEF Detach, Fresh, Present
<1>2. p \in Nat /\ c \in Nat
  BY Names
<1>3. ~(c < p)
  BY <1>1 DEF Opened
<1>4. p < c
  BY <1>1, <1>2, <1>3
<1>5. \A u \in Units : parent[u] # c
  BY <1>1, Names DEF Opened
<1> QED  BY <1>1, <1>4, <1>5 DEF Opened

LEMMA OpenedKept ==
    ASSUME Types, Opened, NEW t \in Threads, Busy(t), Steps(t)
    PROVE  Opened'
<1> USE DEF Types, EventTypes, WriteTypes
<1>1. ASSUME NEW u \in Units, Start(t, u) \/ DetachBare(t, u) PROVE Opened'
  <2>1. life' = [life EXCEPT ![u] = "open"] /\ parent' = parent /\ target' = target /\ Fresh(u)
    BY <1>1 DEF Start, DetachBare, history
  <2>2. \A v \in Units : (Present(v)' <=> Present(v) \/ v = u)
    BY <2>1 DEF Present
  <2>3. \A v \in Units : v < u => Present(v)
    BY <2>1 DEF Fresh, Present
  <2> QED  BY <2>1, <2>2, <2>3 DEF Opened
<1>2. ASSUME NEW p \in Units, NEW c \in Units, Detach(t, p, c) PROVE Opened'
  <2>1. /\ life' = [life EXCEPT ![c] = "open"] /\ parent' = [parent EXCEPT ![c] = p]
        /\ target' = target /\ Fresh(c)
    BY <1>2 DEF Detach, history
  <2>2. \A v \in Units : (Present(v)' <=> Present(v) \/ v = c)
    BY <2>1 DEF Present
  <2>3. \A v \in Units : v < c => Present(v)
    BY <2>1 DEF Fresh, Present
  <2>4. p < c /\ Present(p)
    BY <1>2, Before
  <2>5. \A v \in Units : parent'[v] = IF v = c THEN p ELSE parent[v]
    BY <2>1
  <2> QED  BY <2>1, <2>2, <2>3, <2>4, <2>5 DEF Opened
<1>3. ASSUME NEW u \in Units, EndCheck(t, u) PROVE Opened'
  <2>1. /\ parent' = parent /\ target' = target
        /\ \A v \in Units : (Present(v)' <=> Present(v))
    BY <1>3 DEF EndCheck, history, Present
  <2> QED  BY <2>1 DEF Opened
<1>4. ASSUME NEW u \in Units, NEW w \in Writes, WriteLock(t, u, w) PROVE Opened'
  <2>1. /\ parent' = parent /\ life' = life /\ target' = [target EXCEPT ![w] = u]
        /\ life[u] \in {"open", "ended"}
    BY <1>4 DEF WriteLock
  <2> QED  BY <2>1 DEF Opened, Present
<1>5. CASE Continue(t)
  <2>1. parent' = parent /\ life' = life /\ target' = target
    BY <1>5 DEF Continue, WriteStore, WriteDrop, WriteLate, WalkLock, WalkCount, WalkOn,
                WalkReport, EmitSeal, EmitName, event, history
  <2> QED  BY <2>1 DEF Opened, Present
<1> QED  BY <1>1, <1>2, <1>3, <1>4, <1>5 DEF Steps, Begin

----------------------------------------------------------------------------
(* An event is ended once *)

LEMMA EndedKept ==
    ASSUME Types, Ended, NEW t \in Threads, Busy(t), Steps(t)
    PROVE  Ended'
<1> USE DEF Types, EventTypes, ThreadTypes
<1> DEFINE Same == sealed' = sealed /\ \A u \in sealed \cup {v \in Units : life[v] = "ended"} : life'[u] = life[u]
           Settled == Same /\ ~Ending(t)'
<1>0. ASSUME Settled PROVE Ended'
  <2>1. \A s \in Threads : Ending(s)' => s # t /\ pc'[s] = pc[s] /\ unit'[s] = unit[s]
    BY <1>0, Others
  <2>2. \A u \in sealed' : life'[u] = "ended"
    BY <1>0 DEF Ended
  <2>3. \A s \in Threads : Ending(s)' =>
           /\ unit'[s] \in Units /\ life'[unit'[s]] = "ended"
           /\ pc'[s] = "emit" <=> unit'[s] \notin sealed'
    BY <1>0, <2>1 DEF Ended, Ending
  <2>4. \A s, r \in Threads : Ending(s)' /\ Ending(r)' /\ unit'[s] = unit'[r] => s = r
    BY <2>1 DEF Ended, Ending
  <2> QED  BY <2>2, <2>3, <2>4 DEF Ended
<1>1. ASSUME NEW u \in Units, Start(t, u) \/ DetachBare(t, u) PROVE Ended'
  BY <1>0, <1>1 DEF Start, DetachBare, Fresh, Ended, Ending, thread
<1>2. ASSUME NEW p \in Units, NEW c \in Units, Detach(t, p, c) PROVE Ended'
  BY <1>0, <1>2 DEF Detach, Fresh, Ended, Ending, thread
<1>3. ASSUME NEW u \in Units, EndCheck(t, u) PROVE Ended'
  <2>1. pc[t] = "idle" /\ life[u] = "open" /\ sealed' = sealed /\ life' = [life EXCEPT ![u] = "ended"]
    BY <1>3 DEF EndCheck
  <2>2. CASE closed
    BY <1>0, <1>3, <2>1, <2>2 DEF EndCheck, thread, Ended, Ending
  <2>3. CASE ~closed
    <3>1. pc'[t] = "emit" /\ unit'[t] = u
      BY <1>3, <2>3 DEF EndCheck, Go
    <3>2. u \notin sealed /\ \A s \in Threads : Ending(s) => unit[s] # u
      BY <2>1 DEF Ended
    <3>3. \A s \in Threads : s # t => pc'[s] = pc[s] /\ unit'[s] = unit[s]
      BY Others
    <3>4. \A v \in sealed' : life'[v] = "ended"
      BY <2>1 DEF Ended
    <3>5. \A s \in Threads : Ending(s)' =>
             /\ unit'[s] \in Units /\ life'[unit'[s]] = "ended"
             /\ pc'[s] = "emit" <=> unit'[s] \notin sealed'
      BY <2>1, <3>1, <3>2, <3>3 DEF Ended, Ending
    <3>6. \A s, r \in Threads : Ending(s)' /\ Ending(r)' /\ unit'[s] = unit'[r] => s = r
      BY <3>1, <3>2, <3>3 DEF Ended, Ending
    <3> QED  BY <3>4, <3>5, <3>6 DEF Ended
  <2> QED  BY <2>2, <2>3
<1>4. ASSUME NEW u \in Units, NEW w \in Writes, WriteLock(t, u, w) PROVE Ended'
  BY <1>0, <1>4 DEF WriteLock, Go, Ending
<1>5. CASE WriteStore(t) \/ WriteDrop(t) \/ WriteLate(t) \/ WalkLock(t) \/ WalkCount(t)
  BY <1>0, <1>5 DEF WriteStore, WriteDrop, WriteLate, WalkLock, WalkCount, Go, Return, Ending, event
<1>6. CASE WalkOn(t) \/ WalkReport(t) \/ EmitName(t)
  BY <1>0, <1>6 DEF WalkOn, WalkReport, EmitName, Go, Return, Ending
<1>7. CASE EmitSeal(t)
  <2>1. /\ Ending(t) /\ unit[t] \in Units /\ life' = life /\ sealed' = sealed \cup {unit[t]}
        /\ pc'[t] = "name" /\ unit' = unit
    BY <1>7 DEF EmitSeal, Busy, Ending
  <2>2. \A s \in Threads : s # t => pc'[s] = pc[s]
    BY Others
  <2>3. \A s \in Threads : Ending(s)' <=> Ending(s)
    BY <2>1, <2>2 DEF Ending
  <2>4. \A v \in sealed' : life'[v] = "ended"
    BY <2>1 DEF Ended
  <2>5. \A s \in Threads : s # t /\ Ending(s) => unit[s] # unit[t]
    BY <2>1 DEF Ended
  <2>6. \A s \in Threads : Ending(s)' =>
           /\ unit'[s] \in Units /\ life'[unit'[s]] = "ended"
           /\ pc'[s] = "emit" <=> unit'[s] \notin sealed'
    BY <2>1, <2>2, <2>3, <2>5 DEF Ended
  <2> QED  BY <2>1, <2>3, <2>4, <2>6 DEF Ended
<1> QED  BY <1>1, <1>2, <1>3, <1>4, <1>5, <1>6, <1>7 DEF Steps, Begin, Continue

----------------------------------------------------------------------------
(* The mutexes *)

LEMMA LockedKept ==
    ASSUME Types, Locked, NEW t \in Threads, Busy(t), Steps(t)
    PROVE  Locked'
<1> USE DEF Types, EventTypes, ThreadTypes
<1>0. ASSUME NEW u \in Units, NEW s \in Threads, s # t, mu'[u] = mu[u] \/ (mu[u] # s /\ mu'[u] # s)
      PROVE  mu'[u] = s <=> Holds(s, u)'
  BY <1>0, Others DEF Locked, Holds, Flying
<1>1. ASSUME mu' = mu, \A u \in Units : Holds(t, u)' <=> Holds(t, u) PROVE Locked'
  BY <1>0, <1>1 DEF Locked
<1>2. ASSUME ~Flying(t), NEW u \in Units, mu[u] = None, mu' = [mu EXCEPT ![u] = t],
             Flying(t)', pc'[t] # "count", unit'[t] = u
      PROVE  Locked'
  <2>1. \A v \in Units : mu[v] # t
    BY <1>2 DEF Locked, Holds, Flying
  <2>2. \A v \in Units : mu'[v] = t <=> Holds(t, v)'
    BY <1>2, <2>1 DEF Holds
  <2>3. \A v \in Units, s \in Threads : s # t => mu'[v] = mu[v] \/ (mu[v] # s /\ mu'[v] # s)
    BY <1>2, Names
  <2> QED  BY <1>0, <2>2, <2>3 DEF Locked
(* The thread gives back all it held. *)
<1>3. ASSUME NEW x \in Units, NEW y \in Units, mu[x] = t, mu[y] = t, ~Holds(t, x)', ~Holds(t, y)',
             \A u \in Units : u # x /\ u # y => mu'[u] = mu[u] /\ (Holds(t, u)' <=> Holds(t, u)),
             mu'[x] = None, mu'[y] = None
      PROVE  Locked'
  <2>1. \A v \in Units : mu'[v] = t <=> Holds(t, v)'
    BY <1>3, Names DEF Locked
  <2>2. \A v \in Units, s \in Threads : s # t => mu'[v] = mu[v] \/ (mu[v] # s /\ mu'[v] # s)
    BY <1>3, Names
  <2> QED  BY <1>0, <2>1, <2>2 DEF Locked
<1>4. CASE \E u \in Units : Start(t, u) \/ DetachBare(t, u) \/ EndCheck(t, u) \/ \E c \in Units : Detach(t, u, c)
  BY <1>1, <1>4 DEF Start, DetachBare, EndCheck, Detach, Holds, Flying, thread, Go
<1>5. ASSUME NEW u \in Units, NEW w \in Writes, WriteLock(t, u, w) PROVE Locked'
  BY <1>2, <1>5 DEF WriteLock, Go, Flying
<1>6. CASE WriteStore(t) \/ WriteDrop(t) \/ WalkReport(t)
  <2>1. /\ Flying(t) /\ pc[t] # "count" /\ unit[t] \in Units /\ mu' = [mu EXCEPT ![unit[t]] = None]
        /\ pc'[t] = "idle"
    BY <1>6 DEF WriteStore, WriteDrop, WalkReport, Busy, Flying, Return, Go
  <2>2. mu[unit[t]] = t
    BY <2>1 DEF Locked, Holds
  <2>3. \A u \in Units : ~Holds(t, u)' /\ (u # unit[t] => ~Holds(t, u))
    BY <2>1 DEF Holds, Flying
  <2>4. mu'[unit[t]] = None /\ \A u \in Units : u # unit[t] => mu'[u] = mu[u]
    BY <2>1
  <2> QED  BY <1>3, <2>1, <2>2, <2>3, <2>4
<1>7. CASE WriteLate(t)
  BY <1>1, <1>7 DEF WriteLate, event, Holds, Flying, Go
<1>8. CASE WalkLock(t)
  <2>1. /\ pc[t] = "walk" /\ at[t] \in Units /\ mu[at[t]] = None /\ mu' = [mu EXCEPT ![at[t]] = t]
        /\ pc'[t] = "count" /\ unit' = unit /\ at' = at
    BY <1>8 DEF WalkLock
  <2>2. \A v \in Units : Holds(t, v)' <=> Holds(t, v) \/ v = at[t]
    BY <2>1 DEF Holds, Flying
  <2>3. \A v \in Units : mu'[v] = t <=> Holds(t, v)'
    BY <2>1, <2>2 DEF Locked
  <2>4. \A v \in Units, s \in Threads : s # t => mu'[v] = mu[v] \/ (mu[v] # s /\ mu'[v] # s)
    BY <2>1, Names
  <2> QED  BY <1>0, <2>3, <2>4 DEF Locked
<1>9. CASE WalkCount(t)
  <2>1. /\ pc[t] = "count" /\ Flying(t) /\ unit[t] \in Units /\ at[t] \in Units
        /\ mu' = [mu EXCEPT ![at[t]] = None, ![unit[t]] = None] /\ pc'[t] = "idle"
    BY <1>9 DEF WalkCount, Busy, Flying, Return, Go
  <2>2. mu[unit[t]] = t /\ mu[at[t]] = t
    BY <2>1 DEF Locked, Holds
  <2>3. \A u \in Units : ~Holds(t, u)' /\ (u # unit[t] /\ u # at[t] => ~Holds(t, u))
    BY <2>1 DEF Holds, Flying
  <2>4. /\ mu'[unit[t]] = None /\ mu'[at[t]] = None
        /\ \A u \in Units : u # unit[t] /\ u # at[t] => mu'[u] = mu[u]
    BY <2>1
  <2> QED  BY <1>3, <2>1, <2>2, <2>3, <2>4
<1>10. CASE WalkOn(t)
  <2>1. /\ pc[t] = "count" /\ Flying(t) /\ unit[t] \in Units /\ at[t] \in Units
        /\ mu' = [mu EXCEPT ![at[t]] = None] /\ pc'[t] = "walk" /\ unit'[t] = unit[t]
        /\ at[t] # unit[t]
    BY <1>10 DEF WalkOn, Unlocked, Busy, Flying, Go
  <2>2. mu[at[t]] = t
    BY <2>1 DEF Locked, Holds
  <2>3. \A u \in Units : IF u = at[t] THEN ~Holds(t, u)' ELSE Holds(t, u)' <=> Holds(t, u)
    BY <2>1 DEF Holds, Flying
  <2>4. mu'[at[t]] = None /\ \A u \in Units : u # at[t] => mu'[u] = mu[u]
    BY <2>1
  <2> QED  BY <1>3, <2>1, <2>2, <2>3, <2>4
<1>11. CASE EmitSeal(t) \/ EmitName(t)
  BY <1>1, <1>11 DEF EmitSeal, EmitName, Return, Go, Holds, Flying
<1> QED  BY <1>4, <1>5, <1>6, <1>7, <1>8, <1>9, <1>10, <1>11 DEF Steps, Begin, Continue


----------------------------------------------------------------------------
(* One fate for each write *)

FatesOf(F, D, L, R, w) ==
    {<<"field", u>> : u \in {v \in Units : w \in F[v]}}
    \cup {<<"dropped", u>> : u \in {v \in Units : w \in D[v]}}
    \cup {<<"late", u>> : u \in {v \in Units : w \in L[v]}}
    \cup {<<"reported", None>> : r \in {w} \cap R}
FatesNow(w) == FatesOf(fields, dropped, lateWrites, reported, w)

LEMMA FatesAre == \A w : Fates(w) = FatesNow(w)
  BY DEF Fates, FatesNow, FatesOf

LEMMA HasFate ==
    ASSUME NEW w, Fates(w) = {}
    PROVE  w \notin reported /\ \A u \in Units : w \notin lateWrites[u]
  BY DEF Fates

(* A write more in one of the four places. *)
FatesThen(w) == FatesOf(fields', dropped', lateWrites', reported', w)
Gets(w) ==
    /\ \E f : FatesThen(w) = FatesNow(w) \cup {f}
    /\ \A x : x # w => FatesThen(x) = FatesNow(x)

LEMMA FieldFate ==
    ASSUME NEW u \in Units, NEW w, Types, fields' = [fields EXCEPT ![u] = @ \cup {w}],
           UNCHANGED <<dropped, lateWrites, reported>>
    PROVE  Gets(w)
<1>0. \A v \in Units : fields'[v] = IF v = u THEN fields[v] \cup {w} ELSE fields[v]
  BY DEF Types, WriteTypes
<1>1. {v \in Units : w \in fields'[v]} = {v \in Units : w \in fields[v]} \cup {u}
  BY <1>0
<1>2. \A x : x # w => {v \in Units : x \in fields'[v]} = {v \in Units : x \in fields[v]}
  BY <1>0
<1>3. FatesThen(w) = FatesNow(w) \cup {<<"field", u>>}
  BY <1>1 DEF FatesNow, FatesThen, FatesOf
<1>4. \A x : x # w => FatesThen(x) = FatesNow(x)
  BY <1>2 DEF FatesNow, FatesThen, FatesOf
<1> QED  BY <1>3, <1>4 DEF Gets

LEMMA DropFate ==
    ASSUME NEW u \in Units, NEW w, Types, dropped' = [dropped EXCEPT ![u] = @ \cup {w}],
           UNCHANGED <<fields, lateWrites, reported>>
    PROVE  Gets(w)
<1>0. \A v \in Units : dropped'[v] = IF v = u THEN dropped[v] \cup {w} ELSE dropped[v]
  BY DEF Types, WriteTypes
<1>1. {v \in Units : w \in dropped'[v]} = {v \in Units : w \in dropped[v]} \cup {u}
  BY <1>0
<1>2. \A x : x # w => {v \in Units : x \in dropped'[v]} = {v \in Units : x \in dropped[v]}
  BY <1>0
<1>3. FatesThen(w) = FatesNow(w) \cup {<<"dropped", u>>}
  BY <1>1 DEF FatesNow, FatesThen, FatesOf
<1>4. \A x : x # w => FatesThen(x) = FatesNow(x)
  BY <1>2 DEF FatesNow, FatesThen, FatesOf
<1> QED  BY <1>3, <1>4 DEF Gets

LEMMA LateFate ==
    ASSUME NEW u \in Units, NEW w, Types, lateWrites' = [lateWrites EXCEPT ![u] = @ \cup {w}],
           UNCHANGED <<fields, dropped, reported>>
    PROVE  Gets(w)
<1>0. \A v \in Units : lateWrites'[v] = IF v = u THEN lateWrites[v] \cup {w} ELSE lateWrites[v]
  BY DEF Types, WriteTypes
<1>1. {v \in Units : w \in lateWrites'[v]} = {v \in Units : w \in lateWrites[v]} \cup {u}
  BY <1>0
<1>2. \A x : x # w => {v \in Units : x \in lateWrites'[v]} = {v \in Units : x \in lateWrites[v]}
  BY <1>0
<1>3. FatesThen(w) = FatesNow(w) \cup {<<"late", u>>}
  BY <1>1 DEF FatesNow, FatesThen, FatesOf
<1>4. \A x : x # w => FatesThen(x) = FatesNow(x)
  BY <1>2 DEF FatesNow, FatesThen, FatesOf
<1> QED  BY <1>3, <1>4 DEF Gets

LEMMA ReportFate ==
    ASSUME NEW w, reported' = reported \cup {w}, UNCHANGED <<fields, dropped, lateWrites>>
    PROVE  Gets(w)
<1>1. {w} \cap reported' = {w} /\ \A x : x # w => {x} \cap reported' = {x} \cap reported
  OBVIOUS
<1>2. FatesThen(w) = FatesNow(w) \cup {<<"reported", None>>}
  BY <1>1 DEF FatesNow, FatesThen, FatesOf
<1>3. \A x : x # w => FatesThen(x) = FatesNow(x)
  BY <1>1 DEF FatesNow, FatesThen, FatesOf
<1> QED  BY <1>2, <1>3 DEF Gets

(* A write returns as soon as it has its fate. *)
LEMMA Settles ==
    ASSUME Types, NEW t \in Threads, Busy(t), WriteStore(t) \/ WriteDrop(t) \/ WalkCount(t) \/ WalkReport(t)
    PROVE  /\ Flying(t) /\ pc'[t] = "idle" /\ target' = target /\ returned' = returned \cup {arg[t]}
           /\ Gets(arg[t])
<1>1. Flying(t) /\ pc'[t] = "idle" /\ target' = target /\ returned' = returned \cup {arg[t]}
  BY DEF WriteStore, WriteDrop, WalkCount, WalkReport, Flying, Return, Go, Types, ThreadTypes
<1>2. unit[t] \in Units
  BY <1>1 DEF Busy
<1>3. CASE WriteStore(t)
  BY <1>1, <1>2, <1>3, FieldFate DEF WriteStore
<1>4. CASE WriteDrop(t)
  BY <1>1, <1>2, <1>4, DropFate DEF WriteDrop
<1>5. CASE WalkCount(t)
  <2>1. at[t] \in Units
    BY <1>5 DEF WalkCount, Busy
  <2> QED  BY <1>1, <1>5, <2>1, LateFate DEF WalkCount
<1>6. CASE WalkReport(t)
  BY <1>1, <1>6, ReportFate DEF WalkReport, Told
<1> QED  BY <1>3, <1>4, <1>5, <1>6

(* The other steps give no write a fate. *)
LEMMA Waits ==
    ASSUME Types, NEW t \in Threads, Busy(t), Steps(t),
           ~(WriteStore(t) \/ WriteDrop(t) \/ WalkCount(t) \/ WalkReport(t))
    PROVE  /\ UNCHANGED <<fields, dropped, lateWrites, reported, returned>>
           /\ \/ target' = target /\ (Flying(t)' => Flying(t) /\ arg'[t] = arg[t] /\ unit'[t] = unit[t])
              \/ \E u \in Units, w \in Writes : WriteLock(t, u, w)
<1> USE DEF Types, ThreadTypes
<1>1. CASE \E u \in Units : Start(t, u) \/ DetachBare(t, u) \/ \E c \in Units : Detach(t, u, c)
  BY <1>1 DEF Start, DetachBare, Detach, thread, history, Flying
<1>2. ASSUME NEW u \in Units, EndCheck(t, u)
      PROVE  UNCHANGED <<fields, dropped, lateWrites, reported, returned, target>> /\ ~Flying(t)'
  BY <1>2 DEF EndCheck, Go, Flying, history, thread
<1>3. ASSUME NEW u \in Units, NEW w \in Writes, WriteLock(t, u, w)
      PROVE  UNCHANGED <<fields, dropped, lateWrites, reported, returned>>
  BY <1>3 DEF WriteLock
<1>4. CASE WriteLate(t) \/ WalkLock(t) \/ WalkOn(t)
  BY <1>4 DEF WriteLate, WalkLock, WalkOn, Go, Flying, event, history
<1>5. CASE EmitSeal(t) \/ EmitName(t)
  BY <1>5 DEF EmitSeal, EmitName, Return, Go, Flying, history
<1> QED  BY <1>1, <1>2, <1>3, <1>4, <1>5 DEF Steps, Begin, Continue

LEMMA FatedKept ==
    ASSUME Types, Fated, NEW t \in Threads, Busy(t), Steps(t)
    PROVE  Fated'
<1>1. (\A w : Fates(w)' = FatesThen(w)) /\ (\A w : Fates(w) = FatesNow(w))
  BY FatesAre DEF Fates, FatesThen, FatesOf
<1>2. \A s \in Threads : s # t =>
          (Flying(s)' <=> Flying(s)) /\ arg'[s] = arg[s] /\ unit'[s] = unit[s]
  BY Others DEF Flying
<1>3. CASE WriteStore(t) \/ WriteDrop(t) \/ WalkCount(t) \/ WalkReport(t)
  <2>1. /\ Flying(t) /\ pc'[t] = "idle" /\ target' = target /\ returned' = returned \cup {arg[t]}
        /\ Gets(arg[t])
    BY <1>3, Settles
  <2>2. ~Flying(t)'
    BY <2>1 DEF Flying
  <2>3. PICK f : FatesThen(arg[t]) = FatesNow(arg[t]) \cup {f}
    BY <2>1 DEF Gets
  <2>4. \A x : x # arg[t] => FatesThen(x) = FatesNow(x)
    BY <2>1 DEF Gets
  <2>5. FatesNow(arg[t]) = {} /\ target[arg[t]] = unit[t] /\ unit[t] \in Units
    BY <1>1, <2>1 DEF Fated
  <2>6. \A s \in Threads : Flying(s)' => s # t /\ Flying(s) /\ arg[s] # arg[t]
    BY <1>2, <2>1, <2>2 DEF Fated
  <2>7. \A s \in Threads : Flying(s)' =>
           /\ arg'[s] \in Writes /\ unit'[s] \in Units /\ target'[arg'[s]] = unit'[s]
           /\ arg'[s] \notin returned' /\ FatesThen(arg'[s]) = {}
    BY <1>1, <1>2, <2>1, <2>4, <2>6 DEF Fated
  <2>8. \A s, r \in Threads : Flying(s)' /\ Flying(r)' /\ arg'[s] = arg'[r] => s = r
    BY <1>2, <2>6 DEF Fated
  <2>9. \A w \in Writes : target'[w] = None => w \notin returned' /\ FatesThen(w) = {}
    BY <1>1, <2>1, <2>4, <2>5, Names DEF Fated
  <2>10. \A w \in returned' : \E g \in FatesThen(w) : FatesThen(w) = {g}
    BY <1>1, <2>1, <2>3, <2>4, <2>5 DEF Fated
  <2> QED  BY <1>1, <2>7, <2>8, <2>9, <2>10 DEF Fated
<1>4. CASE ~(WriteStore(t) \/ WriteDrop(t) \/ WalkCount(t) \/ WalkReport(t))
  <2>1. returned' = returned /\ \A w : FatesThen(w) = FatesNow(w)
    BY <1>4, Waits DEF FatesNow, FatesThen
  <2>2. \A w \in returned' : \E g \in FatesThen(w) : FatesThen(w) = {g}
    BY <1>1, <2>1 DEF Fated
  <2>3. CASE target' = target /\ (Flying(t)' => Flying(t) /\ arg'[t] = arg[t] /\ unit'[t] = unit[t])
    <3>1. \A s \in Threads : Flying(s)' => Flying(s) /\ arg'[s] = arg[s] /\ unit'[s] = unit[s]
      BY <1>2, <2>3
    <3>2. \A s \in Threads : Flying(s)' =>
             /\ arg'[s] \in Writes /\ unit'[s] \in Units /\ target'[arg'[s]] = unit'[s]
             /\ arg'[s] \notin returned' /\ FatesThen(arg'[s]) = {}
      BY <1>1, <2>1, <2>3, <3>1 DEF Fated
    <3>3. \A s, r \in Threads : Flying(s)' /\ Flying(r)' /\ arg'[s] = arg'[r] => s = r
      BY <3>1 DEF Fated
    <3>4. \A w \in Writes : target'[w] = None => w \notin returned' /\ FatesThen(w) = {}
      BY <1>1, <2>1, <2>3 DEF Fated
    <3> QED  BY <1>1, <2>2, <3>2, <3>3, <3>4 DEF Fated
  <2>4. ASSUME NEW u \in Units, NEW w \in Writes, WriteLock(t, u, w) PROVE Fated'
    <3>1. /\ target[w] = None /\ target' = [target EXCEPT ![w] = u]
          /\ pc'[t] = "write" /\ unit'[t] = u /\ arg'[t] = w
      BY <2>4 DEF WriteLock, Go, Types, ThreadTypes
    <3>2. target'[w] = u /\ \A x \in Writes : x # w => target'[x] = target[x]
      BY <3>1 DEF Types, WriteTypes
    <3>3. w \notin returned /\ FatesThen(w) = {}
      BY <1>1, <2>1, <3>1 DEF Fated
    <3>4. \A s \in Threads : s # t /\ Flying(s)' => Flying(s) /\ arg[s] # w /\ arg[s] \in Writes
      BY <1>2, <3>1, Names DEF Fated
    <3>5. \A s \in Threads : Flying(s)' =>
             /\ arg'[s] \in Writes /\ unit'[s] \in Units /\ target'[arg'[s]] = unit'[s]
             /\ arg'[s] \notin returned' /\ FatesThen(arg'[s]) = {}
      BY <1>1, <1>2, <2>1, <3>1, <3>2, <3>3, <3>4 DEF Fated
    <3>6. \A s, r \in Threads : Flying(s)' /\ Flying(r)' /\ arg'[s] = arg'[r] => s = r
      BY <1>2, <3>1, <3>4 DEF Fated
    <3>7. \A x \in Writes : target'[x] = None => x \notin returned' /\ FatesThen(x) = {}
      BY <1>1, <2>1, <3>2, Names DEF Fated
    <3> QED  BY <1>1, <2>2, <3>5, <3>6, <3>7 DEF Fated
  <2> QED  BY <1>4, <2>3, <2>4, Waits
<1> QED  BY <1>3, <1>4

----------------------------------------------------------------------------
(* A sealed event does not change *)

LEMMA FrozenKept ==
    ASSUME Types, Frozen, NEW t \in Threads, Busy(t), Steps(t)
    PROVE  Frozen'
<1> USE DEF Types, EventTypes, WriteTypes, Frozen
<1>1. CASE Begin(t)
  BY <1>1 DEF Begin, Start, DetachBare, Detach, EndCheck, WriteLock, history
<1>2. CASE WriteStore(t)
  BY <1>2 DEF WriteStore, Open
<1>3. CASE WriteDrop(t)
  BY <1>3 DEF WriteDrop, Open
<1>4. CASE WriteLate(t) \/ WalkLock(t) \/ WalkOn(t) \/ WalkReport(t) \/ EmitName(t)
  BY <1>4 DEF WriteLate, WalkLock, WalkOn, WalkReport, EmitName, event
<1>5. CASE WalkCount(t)
  BY <1>5 DEF WalkCount
<1>6. CASE EmitSeal(t)
  <2>1. /\ sealed' = sealed \cup {unit[t]} /\ UNCHANGED <<fields, dropped, lateWrites>> /\ unit[t] \in Units
        /\ out' = [out EXCEPT ![unit[t]] =
                      [fields |-> fields[unit[t]], dropped |-> dropped[unit[t]],
                       lateWrites |-> lateWrites[unit[t]], trace |-> trace[unit[t]]]]
    BY <1>6 DEF EmitSeal, Busy, Ending
  <2>2. \A u \in sealed : u # unit[t] => out'[u] = out[u]
    BY <2>1
  <2>3. /\ out'[unit[t]].fields = fields[unit[t]] /\ out'[unit[t]].dropped = dropped[unit[t]]
        /\ out'[unit[t]].lateWrites = lateWrites[unit[t]]
    BY <2>1
  <2> QED  BY <2>1, <2>2, <2>3
<1> QED  BY <1>1, <1>2, <1>3, <1>4, <1>5, <1>6 DEF Steps, Continue

----------------------------------------------------------------------------
(* The ancestors of an event that is open stay what they are *)

LEMMA AbovePresent ==
    ASSUME Types, Opened, NEW u \in Units, Present(u)
    PROVE  \A v \in Up(parent, u) \cup Ancestors(u) : Present(v) /\ v \in Units
<1> DEFINE S == {v \in Units : Present(v)}
<1>1. parent \in Parents
  BY DEF Types, EventTypes, Parents
<1>2. Closed(parent, S)
  BY <1>1 DEF Closed, Opened, Parents
<1>3. u \in S /\ parent[u] \in S \cup {None}
  BY <1>1 DEF Opened, Parents
<1>4. Up(parent, u) \subseteq S /\ Up(parent, parent[u]) \subseteq S
  BY <1>2, <1>3, UpLeast
<1> QED  BY <1>4, UpIs DEF Ancestors

LEMMA SealedGrows ==
    ASSUME NEW t \in Threads, Steps(t)
    PROVE  sealed \subseteq sealed'
<1>1. CASE Begin(t)
  BY <1>1 DEF Begin, Start, DetachBare, Detach, EndCheck, WriteLock
<1>2. CASE Continue(t)
  BY <1>2 DEF Continue, WriteStore, WriteDrop, WriteLate, WalkLock, WalkCount, WalkOn, WalkReport,
              EmitSeal, EmitName, event
<1> QED  BY <1>1, <1>2 DEF Steps

LEMMA ParentKept ==
    ASSUME NEW t \in Threads, Steps(t), ~\E p \in Units, c \in Units : Detach(t, p, c)
    PROVE  parent' = parent
<1>1. CASE Begin(t)
  BY <1>1 DEF Begin, Start, DetachBare, EndCheck, WriteLock
<1>2. CASE Continue(t)
  BY <1>2 DEF Continue, WriteStore, WriteDrop, WriteLate, WalkLock, WalkCount, WalkOn, WalkReport,
              EmitSeal, EmitName, event
<1> QED  BY <1>1, <1>2 DEF Steps

LEMMA TreeKept ==
    ASSUME Types, Opened, NEW t \in Threads, Steps(t), NEW u \in Units, Present(u)
    PROVE  /\ parent'[u] = parent[u] /\ Up(parent', u) = Up(parent, u)
           /\ Up(parent', parent[u]) = Up(parent, parent[u])
<1>1. CASE ~\E p \in Units, c \in Units : Detach(t, p, c)
  BY <1>1, ParentKept
<1>2. ASSUME NEW p \in Units, NEW c \in Units, Detach(t, p, c)
      PROVE  /\ parent'[u] = parent[u] /\ Up(parent', u) = Up(parent, u)
             /\ Up(parent', parent[u]) = Up(parent, parent[u])
  <2>1. parent' = [parent EXCEPT ![c] = p] /\ parent \in Parents
    BY <1>2 DEF Detach, Types, EventTypes, Parents
  <2>2. p # c /\ ~Present(c) /\ parent[c] = None /\ \A v \in Units : parent[v] # c
    BY <1>2, Before
  <2>3. u # c /\ parent[u] # c
    BY <2>2
  <2>4. \A x : x # c => Up([parent EXCEPT ![c] = p], x) = Up(parent, x)
    BY <2>1, <2>2, UpSame
  <2> QED  BY <2>1, <2>3, <2>4 DEF Parents
<1> QED  BY <1>1, <1>2

----------------------------------------------------------------------------
(* Late writes *)

LEMMA PassedKept ==
    ASSUME Types, Opened, NEW t \in Threads, Steps(t), NEW u \in Units, Present(u), NEW a,
           Passed(parent, sealed, u, a)
    PROVE  Passed(parent', sealed', u, a)
<1>1. /\ parent'[u] = parent[u] /\ Up(parent', parent[u]) = Up(parent, parent[u])
  BY TreeKept
<1>2. sealed \subseteq sealed'
  BY SealedGrows
<1>3. Up(parent', a) = Up(parent, a)
  <2>1. CASE a = None
    BY <2>1, UpNone
  <2>2. CASE a # None
    <3>1. a \in Ancestors(u)
      BY <2>2, UpIs DEF Passed, Ancestors
    <3>2. Present(a) /\ a \in Units
      BY <3>1, AbovePresent
    <3> QED  BY <3>2, TreeKept
  <2> QED  BY <2>1, <2>2
<1> QED  BY <1>1, <1>2, <1>3 DEF Passed

LEMMA FlyingPresent ==
    ASSUME Opened, Fated, NEW s \in Threads, Flying(s)
    PROVE  unit[s] \in Units /\ Present(unit[s]) /\ target[arg[s]] = unit[s] /\ arg[s] \in Writes
<1>1. unit[s] \in Units /\ target[arg[s]] = unit[s] /\ arg[s] \in Writes
  BY DEF Fated
<1>2. target[arg[s]] # None
  BY <1>1, Names
<1>3. Present(target[arg[s]])
  BY <1>1, <1>2 DEF Opened
<1> QED  BY <1>1, <1>3

LEMMA WalkedKept ==
    ASSUME Types, Opened, Fated, Walked, NEW t \in Threads, Busy(t), Steps(t)
    PROVE  Walked'
<1> DEFINE Walks(s) == pc[s] \in {"walk", "count"}
           Climbs(s) == Passed(parent', sealed', unit'[s], at'[s]) /\ (pc'[s] = "count" => at'[s] # None)
<1>1. \A s \in Threads : Walks(s) => Passed(parent, sealed, unit[s], at[s]) /\ unit[s] \in Units /\ Present(unit[s])
  BY FlyingPresent DEF Walked, Flying
<1>2. \A s \in Threads : Walks(s) => Passed(parent', sealed', unit[s], at[s])
  BY <1>1, PassedKept
<1>3. \A s \in Threads : s # t /\ Walks(s)' => Climbs(s)
  BY <1>2, Others DEF Walked
<1>4. Walks(t)' => Climbs(t)
  <2> USE DEF Types, EventTypes, ThreadTypes
  <2>1. CASE Begin(t) \/ WriteStore(t) \/ WriteDrop(t) \/ WalkCount(t)
    <3>1. CASE \E u \in Units : Start(t, u) \/ DetachBare(t, u) \/ EndCheck(t, u) \/ \E c \in Units : Detach(t, u, c)
      BY <3>1 DEF Start, DetachBare, EndCheck, Detach, thread, Go
    <3>2. CASE \E u \in Units, w \in Writes : WriteLock(t, u, w)
      BY <3>2 DEF WriteLock, Go
    <3>3. CASE WriteStore(t) \/ WriteDrop(t) \/ WalkCount(t)
      BY <3>3 DEF WriteStore, WriteDrop, WalkCount, Return, Go
    <3> QED  BY <2>1, <3>1, <3>2, <3>3 DEF Begin
  <2>2. CASE WalkReport(t) \/ EmitSeal(t) \/ EmitName(t)
    BY <2>2 DEF WalkReport, EmitSeal, EmitName, Return, Go
  <2>3. CASE WriteLate(t)
    <3>1. /\ pc'[t] = "walk" /\ unit'[t] = unit[t] /\ at'[t] = parent[unit[t]] /\ parent' = parent
          /\ sealed' = sealed /\ unit[t] \in sealed /\ unit[t] \in Units
      BY <2>3 DEF WriteLate, Go, Open, event, Busy, Flying
    <3>2. parent \in Parents
      BY DEF Parents
    <3>3. parent[unit[t]] \in Up(parent, parent[unit[t]]) \cup {None}
      BY <3>1, <3>2, UpHolds DEF Parents
    <3>4. Passed(parent', sealed', unit'[t], at'[t])
      BY <3>1, <3>3 DEF Passed
    <3> QED  BY <3>1, <3>4
  <2>4. CASE WalkLock(t)
    <3>1. Walks(t) /\ unit'[t] = unit[t] /\ at'[t] = at[t] /\ at[t] # None
      BY <2>4 DEF WalkLock
    <3> QED  BY <1>2, <3>1
  <2>5. CASE WalkOn(t)
    <3>1. /\ Walks(t) /\ pc'[t] = "walk" /\ unit'[t] = unit[t] /\ at'[t] = parent[at[t]] /\ parent' = parent
          /\ sealed' = sealed /\ at[t] \in sealed /\ at[t] \in Units /\ unit[t] \in Units
      BY <2>5 DEF WalkOn, Older, Go, Busy, Flying
    <3>2. Passed(parent, sealed, unit[t], at[t]) /\ parent \in Parents
      BY <1>1, <3>1 DEF Parents
    <3>3. at[t] \in Up(parent, parent[unit[t]])
      BY <3>1, <3>2, Names DEF Passed
    <3>4. parent[at[t]] \in Up(parent, parent[unit[t]]) \cup {None}
      BY <3>2, <3>3, UpIsClosed DEF Closed
    <3>5. Up(parent, at[t]) = {at[t]} \cup Up(parent, parent[at[t]])
      BY <3>1, <3>2, UpStep
    <3>6. Up(parent, parent[unit[t]]) \ Up(parent, parent[at[t]]) \subseteq sealed
      BY <3>1, <3>2, <3>5 DEF Passed
    <3>7. Passed(parent', sealed', unit'[t], at'[t])
      BY <3>1, <3>2, <3>4, <3>6 DEF Passed
    <3> QED  BY <3>1, <3>7
  <2> QED  BY <2>1, <2>2, <2>3, <2>4, <2>5 DEF Steps, Continue
<1> QED  BY <1>3, <1>4 DEF Walked

LEMMA FatedPresent ==
    ASSUME Types, Opened, Fated, NEW w \in Writes, w \in reported \/ \E p \in Units : w \in lateWrites[p]
    PROVE  target[w] \in Units /\ Present(target[w])
<1>1. Fates(w) # {}
  BY HasFate
<1>2. target[w] # None
  BY <1>1 DEF Fated
<1> QED  BY <1>2 DEF Opened, Types, WriteTypes

LEMMA TargetKept ==
    ASSUME Types, NEW t \in Threads, Steps(t), NEW w \in Writes, target[w] # None
    PROVE  target'[w] = target[w]
<1>1. CASE Begin(t)
  BY <1>1 DEF Begin, Start, DetachBare, Detach, EndCheck, WriteLock, history, Types, WriteTypes
<1>2. CASE Continue(t)
  BY <1>2 DEF Continue, WriteStore, WriteDrop, WriteLate, WalkLock, WalkCount, WalkOn, WalkReport,
              EmitSeal, EmitName, history
<1> QED  BY <1>1, <1>2 DEF Steps

LEMMA NearestKept ==
    ASSUME Types, Opened, Fated, Walked, Nearest, NEW t \in Threads, Busy(t), Steps(t)
    PROVE  Nearest'
<1>1. ASSUME NEW w \in Writes, NEW a, Passed(parent, sealed, target[w], a), target[w] \in Units, Present(target[w])
      PROVE  Passed(parent', sealed', target'[w], a)
  <2>1. target'[w] = target[w]
    BY <1>1, TargetKept, Names
  <2> QED  BY <1>1, <2>1, PassedKept
<1>2. \A w \in Writes : w \in reported => Passed(parent', sealed', target'[w], None)
  BY <1>1, FatedPresent DEF Nearest
<1>3. \A w \in Writes, p \in Units : w \in lateWrites[p] => Passed(parent', sealed', target'[w], p)
  BY <1>1, FatedPresent DEF Nearest
<1>4. reported \subseteq Writes /\ \A p \in Units : lateWrites[p] \subseteq Writes
  BY DEF Types, WriteTypes
<1>5. CASE WalkCount(t)
  <2>1. /\ reported' = reported /\ lateWrites' = [lateWrites EXCEPT ![at[t]] = @ \cup {arg[t]}]
        /\ pc[t] = "count" /\ Flying(t)
    BY <1>5 DEF WalkCount, Flying
  <2>2. /\ Passed(parent, sealed, target[arg[t]], at[t]) /\ arg[t] \in Writes
        /\ target[arg[t]] \in Units /\ Present(target[arg[t]])
    BY <2>1, FlyingPresent DEF Walked
  <2>3. Passed(parent', sealed', target'[arg[t]], at[t])
    BY <1>1, <2>2
  <2>4. \A p \in Units : \A w \in lateWrites'[p] : w \in lateWrites[p] \/ (p = at[t] /\ w = arg[t])
    BY <2>1 DEF Types, WriteTypes
  <2> QED  BY <1>2, <1>3, <1>4, <2>1, <2>3, <2>4 DEF Nearest
<1>6. CASE WalkReport(t)
  <2>1. /\ reported' = reported \cup {arg[t]} /\ lateWrites' = lateWrites
        /\ pc[t] = "walk" /\ Flying(t) /\ at[t] = None
    BY <1>6 DEF WalkReport, Told, Flying
  <2>2. /\ Passed(parent, sealed, target[arg[t]], None) /\ arg[t] \in Writes
        /\ target[arg[t]] \in Units /\ Present(target[arg[t]])
    BY <2>1, FlyingPresent DEF Walked
  <2>3. Passed(parent', sealed', target'[arg[t]], None)
    BY <1>1, <2>2
  <2> QED  BY <1>2, <1>3, <1>4, <2>1, <2>3 DEF Nearest
<1>7. CASE ~(WalkCount(t) \/ WalkReport(t))
  <2>1. UNCHANGED <<lateWrites, reported>>
    BY <1>7 DEF Steps, Begin, Start, DetachBare, Detach, EndCheck, WriteLock, Continue, WriteStore, WriteDrop,
                WriteLate, WalkLock, WalkOn, EmitSeal, EmitName, event, history
  <2> QED  BY <1>2, <1>3, <1>4, <2>1 DEF Nearest
<1> QED  BY <1>5, <1>6, <1>7

----------------------------------------------------------------------------
(* Traces *)

LEMMA ClearAbove ==
    ASSUME Types, NEW u \in Units, Clear(parent, bare, u), parent[u] # None
    PROVE  parent[u] \in Units /\ Clear(parent, bare, parent[u])
<1>1. parent \in Parents /\ parent[u] \in Units
  BY DEF Types, EventTypes, Parents
<1>2. Up(parent, u) = {u} \cup Up(parent, parent[u])
  BY <1>1, UpStep
<1> QED  BY <1>1, <1>2 DEF Clear

LEMMA ClearBefore ==
    ASSUME Types, Opened, NEW t \in Threads, Steps(t), NEW u \in Units, Present(u), Clear(parent', bare', u)
    PROVE  Clear(parent, bare, u)
<1>1. bare \subseteq bare'
  <2>1. CASE Begin(t)
    BY <2>1 DEF Begin, Start, DetachBare, Detach, EndCheck, WriteLock, history
  <2>2. CASE Continue(t)
    BY <2>2 DEF Continue, WriteStore, WriteDrop, WriteLate, WalkLock, WalkCount, WalkOn, WalkReport,
                EmitSeal, EmitName, history
  <2> QED  BY <2>1, <2>2 DEF Steps
<1>2. Up(parent', u) = Up(parent, u)
  BY TreeKept
<1> QED  BY <1>1, <1>2 DEF Clear

LEMMA TracedKept ==
    ASSUME Types, Opened, Ended, Traced, NEW t \in Threads, Busy(t), Steps(t)
    PROVE  Traced'
<1> USE DEF Types, EventTypes
(* The traces of the clear events stay, and so does what they were emitted with. *)
<1> DEFINE Stay == \A u \in Units : Present(u) /\ Clear(parent, bare, u) => trace'[u] = trace[u]
           Old(u) == Clear(parent', bare', u) =>
                         trace'[u] # None /\ (parent'[u] # None => trace'[u] = trace'[parent'[u]])
           Emitted == \A u \in sealed' : Clear(parent', bare', u) => out'[u].trace = trace'[u]
<1>1. ASSUME Stay, NEW u \in Units, Present(u) PROVE Old(u)
  <2> SUFFICES ASSUME Clear(parent', bare', u)
               PROVE  trace'[u] # None /\ (parent'[u] # None => trace'[u] = trace'[parent'[u]])
    OBVIOUS
  <2>1. Clear(parent, bare, u) /\ parent'[u] = parent[u]
    BY <1>1, ClearBefore, TreeKept
  <2>2. trace'[u] = trace[u] /\ trace[u] # None
    BY <1>1, <2>1 DEF Traced
  <2>3. ASSUME parent[u] # None PROVE trace'[u] = trace'[parent[u]]
    <3>1. parent[u] \in Units /\ Clear(parent, bare, parent[u]) /\ Present(parent[u])
      BY <1>1, <2>1, <2>3, ClearAbove DEF Opened
    <3>2. trace[u] = trace[parent[u]]
      BY <1>1, <2>1, <2>3 DEF Traced
    <3> QED  BY <1>1, <2>2, <3>1, <3>2
  <2> QED  BY <2>1, <2>2, <2>3
<1>2. \A u \in sealed : u \in Units /\ Present(u)
  BY DEF Ended, Present
<1>3. ASSUME Stay, sealed' = sealed, out' = out PROVE Emitted
  BY <1>2, <1>3, ClearBefore DEF Traced
<1>4. ASSUME Stay, Emitted, \A u \in Units : Present(u)' => Present(u) PROVE Traced'
  BY <1>1, <1>4 DEF Traced
<1>5. ASSUME NEW c \in Units, Stay, Emitted, \A u \in Units : Present(u)' => Present(u) \/ u = c, Old(c)
      PROVE  Traced'
  BY <1>1, <1>5 DEF Traced
<1> HIDE DEF Old
<1>6. ASSUME NEW u \in Units, Start(t, u) PROVE Traced'
  <2>1. /\ trace' = [trace EXCEPT ![u] = u] /\ life' = [life EXCEPT ![u] = "open"] /\ ~Present(u)
        /\ UNCHANGED <<parent, sealed, out, bare>>
    BY <1>6 DEF Start, Fresh, Present, history
  <2>2. Stay
    BY <2>1
  <2>3. parent'[u] = None /\ trace'[u] = u
    BY <2>1 DEF Opened
  <2>4. Old(u)
    BY <2>3, Names DEF Old
  <2>5. \A v \in Units : Present(v)' => Present(v) \/ v = u
    BY <2>1 DEF Present
  <2> QED  BY <1>3, <1>5, <2>1, <2>2, <2>4, <2>5
<1>7. ASSUME NEW u \in Units, DetachBare(t, u) PROVE Traced'
  <2>1. /\ trace' = trace /\ life' = [life EXCEPT ![u] = "open"] /\ bare' = bare \cup {u}
        /\ UNCHANGED <<parent, sealed, out>>
    BY <1>7 DEF DetachBare
  <2>2. u \in Up(parent', u)
    BY <2>1, UpHolds DEF Parents
  <2>3. ~Clear(parent', bare', u)
    BY <2>1, <2>2 DEF Clear
  <2>4. Old(u)
    BY <2>3 DEF Old
  <2>5. \A v \in Units : Present(v)' => Present(v) \/ v = u
    BY <2>1 DEF Present
  <2> QED  BY <1>3, <1>5, <2>1, <2>4, <2>5
<1>8. ASSUME NEW p \in Units, NEW c \in Units, Detach(t, p, c) PROVE Traced'
  <2>1. /\ trace' = [trace EXCEPT ![c] = JoinedTrace(p, c)] /\ life' = [life EXCEPT ![c] = "open"]
        /\ parent' = [parent EXCEPT ![c] = p] /\ UNCHANGED <<sealed, out, bare>>
    BY <1>8 DEF Detach, history
  <2>2. p # c /\ Present(p) /\ ~Present(c)
    BY <1>8, Before
  <2>3. Stay
    BY <2>1, <2>2
  <2>4. ASSUME Clear(parent', bare', c) PROVE trace'[c] # None /\ trace'[c] = trace'[p]
    <3>1. parent' \in Parents /\ parent'[c] = p
      BY <2>1 DEF Parents
    <3>2. Up(parent', c) = {c} \cup Up(parent', p)
      BY <3>1, UpStep
    <3>3. Clear(parent', bare', p)
      BY <2>4, <3>2 DEF Clear
    <3>4. Clear(parent, bare, p)
      BY <2>2, <3>3, ClearBefore
    <3>5. trace[p] # None
      BY <2>2, <3>4 DEF Traced
    <3> QED  BY <2>1, <2>2, <3>5 DEF JoinedTrace
  <2>5. Old(c)
    BY <2>1, <2>4 DEF Old
  <2>6. \A v \in Units : Present(v)' => Present(v) \/ v = c
    BY <2>1 DEF Present
  <2> QED  BY <1>3, <1>5, <2>1, <2>3, <2>5, <2>6
<1>9. CASE EmitSeal(t)
  <2>1. /\ sealed' = sealed \cup {unit[t]} /\ UNCHANGED <<life, parent, trace, bare>> /\ unit[t] \in Units
        /\ out' = [out EXCEPT ![unit[t]] =
                      [fields |-> fields[unit[t]], dropped |-> dropped[unit[t]],
                       lateWrites |-> lateWrites[unit[t]], trace |-> trace[unit[t]]]]
    BY <1>9 DEF EmitSeal, Busy, Ending, history
  <2>2. out'[unit[t]].trace = trace[unit[t]] /\ \A u \in sealed : u # unit[t] => out'[u] = out[u]
    BY <2>1
  <2>3. Emitted
    BY <2>1, <2>2 DEF Traced
  <2>4. \A v \in Units : Present(v)' => Present(v)
    BY <2>1 DEF Present
  <2> QED  BY <1>4, <2>1, <2>3, <2>4
<1>10. CASE EmitName(t)
  <2>1. /\ UNCHANGED <<life, parent, sealed, out, bare>> /\ unit[t] \in Units
        /\ trace' = [trace EXCEPT ![unit[t]] = IF @ = None THEN unit[t] ELSE @]
    BY <1>10 DEF EmitName, Busy, Ending, history
  <2>2. Stay
    BY <2>1 DEF Traced
  <2>3. \A v \in Units : Present(v)' => Present(v)
    BY <2>1 DEF Present
  <2> QED  BY <1>3, <1>4, <2>1, <2>2, <2>3
<1>11. CASE (\E u \in Units : EndCheck(t, u) \/ \E w \in Writes : WriteLock(t, u, w))
            \/ WriteStore(t) \/ WriteDrop(t) \/ WriteLate(t)
            \/ WalkLock(t) \/ WalkCount(t) \/ WalkOn(t) \/ WalkReport(t)
  <2>1. UNCHANGED <<parent, sealed, out, trace, bare>> /\ \A v \in Units : Present(v)' => Present(v)
    BY <1>11 DEF EndCheck, WriteLock, WriteStore, WriteDrop, WriteLate, WalkLock, WalkCount, WalkOn, WalkReport,
                 event, history, Present
  <2> QED  BY <1>3, <1>4, <2>1
<1> QED  BY <1>6, <1>7, <1>8, <1>9, <1>10, <1>11 DEF Steps, Begin, Continue

----------------------------------------------------------------------------
(* The mutexes of a chain are taken upward *)

Less == {p \in Nat \X Nat : p[1] < p[2]}
LEMMA LeastNumber ==
    ASSUME NEW T, T \subseteq Nat, T # {}
    PROVE  \E x \in T : \A y \in T : x <= y
<1>1. OpToRel(<, Nat) = Less
  BY DEF OpToRel, Less
<1>2. IsWellFoundedOn(Less, Nat)
  BY <1>1, NatLessThanWellFounded
<1>3. PICK x \in T : \A y \in T : ~(<<y, x>> \in Less)
  BY <1>2, WFMin
<1>4. ASSUME NEW y \in T PROVE x <= y
  <2>1. x \in Nat /\ y \in Nat
    OBVIOUS
  <2>2. y < x => <<y, x>> \in Less
    BY <2>1 DEF Less
  <2> QED  BY <1>3, <2>1, <2>2
<1> QED  BY <1>4

(* The event whose mutex a thread waits for. *)
Wants(t) == IF pc[t] = "walk" THEN at[t] ELSE unit[t]

LEMMA BlockedWants ==
    ASSUME EventInv, NEW t \in Threads, Blocked(t)
    PROVE  Wants(t) \in Units /\ Wants(t) \in Nat /\ mu[Wants(t)] \in Threads
<1>1. Types /\ Busy(t)
  BY BusyOne, TypeParts DEF EventInv
<1>2. Wants(t) \in Units /\ mu[Wants(t)] # None
  BY <1>1 DEF Blocked, Wants, Busy, Ending, Types, ThreadTypes
<1> QED  BY <1>1, <1>2, Names DEF Types, EventTypes

(* A thread that holds a mutex and waits for another one waits for an older event's. *)
LEMMA HolderWants ==
    ASSUME EventInv, NEW t \in Threads, Blocked(t), NEW u \in Units, mu[u] = t
    PROVE  Wants(t) < u
<1>1. Holds(t, u)
  BY DEF EventInv, Locked
<1>2. pc[t] = "walk" /\ unit[t] = u /\ at[t] # None
  BY <1>1 DEF Holds, Flying, Blocked
<1>3. at[t] \in Ancestors(u)
  BY <1>2, UpIs DEF EventInv, Walked, Passed, Ancestors
<1>4. Types /\ Opened
  BY TypeParts DEF EventInv
<1> QED  BY <1>2, <1>3, <1>4, AncestorsBelow DEF Wants

LEMMA NoneStuck == EventInv => NoDeadlock
<1> DEFINE busy == {t \in Threads : pc[t] # "idle"}
<1> SUFFICES ASSUME EventInv, busy # {}, \A t \in busy : Blocked(t) PROVE FALSE
  BY DEF NoDeadlock
<1> DEFINE T == {Wants(t) : t \in busy}
<1>1. T \subseteq Nat /\ T # {}
  BY BlockedWants
<1>2. PICK t \in busy : \A s \in busy : Wants(t) <= Wants(s)
  <2> HIDE DEF T
  <2>1. PICK x \in T : \A y \in T : x <= y
    BY <1>1, LeastNumber
  <2> QED  BY <2>1 DEF T
<1>3. Wants(t) \in Units /\ Wants(t) \in Nat /\ mu[Wants(t)] \in Threads
  BY BlockedWants
<1>4. PICK s \in Threads : s = mu[Wants(t)]
  BY <1>3
<1>5. Holds(s, Wants(t))
  BY <1>3, <1>4 DEF EventInv, Locked
<1>6. s \in busy
  BY <1>4, <1>5 DEF Holds, Flying
<1>7. Wants(s) < Wants(t) /\ Wants(s) \in Nat
  BY <1>3, <1>4, <1>6, HolderWants, BlockedWants
<1>8. Wants(t) <= Wants(s)
  BY <1>2, <1>6
<1> QED  BY <1>3, <1>7, <1>8

----------------------------------------------------------------------------
(* The invariant *)

LEMMA Initially ==
    ASSUME Init
    PROVE  EventInv
<1>1. Types
  <2>1. NoOutput \in Outputs
    BY DEF NoOutput, Outputs
  <2>2. EventTypes
    BY <2>1 DEF Init, EventTypes
  <2>3. WriteTypes
    BY DEF Init, WriteTypes
  <2>4. ThreadTypes
    BY DEF Init, ThreadTypes
  <2> QED  BY <2>2, <2>3, <2>4 DEF Init, Types
<1>2. Room
  <2>1. \A u \in Units : fields[u] = {}
    BY DEF Init
  <2>2. IsFiniteSet({}) /\ Cardinality({}) = 0
    BY FS_EmptySet
  <2> QED  BY <2>1, <2>2, Names DEF Room
<1>3. Opened /\ Ended /\ Frozen
  BY DEF Init, Opened, Ended, Frozen, Present, Ending
<1>4. Locked
  BY Names DEF Init, Locked, Holds, Flying
<1>5. Fated
  <2>1. \A w : Fates(w) = {}
    BY DEF Init, Fates
  <2> QED  BY <2>1 DEF Init, Fated, Flying
<1>6. Walked /\ Nearest /\ Traced
  BY DEF Init, Walked, Nearest, Traced, Present
<1> QED  BY <1>1, <1>2, <1>3, <1>4, <1>5, <1>6, TypeParts DEF EventInv

LEMMA Inductive ==
    ASSUME EventInv, [Next]_vars
    PROVE  EventInv'
<1>1. Types /\ Room /\ Opened /\ Ended /\ Locked /\ Fated /\ Frozen /\ Walked /\ Nearest /\ Traced
  BY TypeParts DEF EventInv
<1>2. ASSUME NEW t \in Threads, Steps(t) PROVE EventInv'
  <2>1. Busy(t)
    BY BusyOne
  <2>2. Types'
    BY <1>1, <1>2, <2>1, BeginTypes, ContinueTypes DEF Steps
  <2>3. Room'
    BY <1>1, <1>2, <2>1, RoomKept
  <2>4. Opened' /\ Ended' /\ Locked'
    BY <1>1, <1>2, <2>1, OpenedKept, EndedKept, LockedKept
  <2>5. Fated' /\ Frozen' /\ Walked' /\ Nearest' /\ Traced'
    BY <1>1, <1>2, <2>1, FatedKept, FrozenKept, WalkedKept, NearestKept, TracedKept
  <2>6. TypeOK' /\ Finite'
    BY <2>2, <2>3 DEF TypeOK, Finite, Types, EventTypes, WriteTypes, ThreadTypes, Room
  <2> QED  BY <2>4, <2>5, <2>6 DEF EventInv
<1>3. ASSUME UNCHANGED <<event, thread, reported, history>>, closed' \in BOOLEAN PROVE EventInv'
  <2>1. Types' /\ Room'
    BY <1>1, <1>3 DEF event, thread, history, Types, EventTypes, WriteTypes, ThreadTypes, Room
  <2>2. TypeOK' /\ Finite'
    BY <2>1 DEF TypeOK, Finite, Types, EventTypes, WriteTypes, ThreadTypes, Room
  <2>3. Opened' /\ Ended' /\ Locked' /\ Frozen'
    BY <1>1, <1>3 DEF event, thread, history, Opened, Ended, Locked, Frozen, Present, Ending, Holds, Flying
  <2>4. \A w : Fates(w)' = Fates(w)
    BY <1>3 DEF event, Fates
  <2>5. Fated'
    BY <1>1, <1>3, <2>4 DEF thread, history, Fated, Flying
  <2>6. Walked' /\ Nearest' /\ Traced'
    BY <1>1, <1>3 DEF event, thread, history, Walked, Nearest, Traced, Present
  <2> QED  BY <2>2, <2>3, <2>5, <2>6 DEF EventInv
<1>4. CASE Close \/ UNCHANGED vars
  <2>1. UNCHANGED <<event, thread, reported, history>> /\ closed' \in BOOLEAN
    BY <1>1, <1>4 DEF Close, vars, Types
  <2> QED  BY <1>3, <2>1
<1> QED  BY <1>2, <1>4 DEF Next, Steps

LEMMA Invariance == Spec => []EventInv
  BY Initially, Inductive, PTL DEF Spec

----------------------------------------------------------------------------
(* event.go Set and emit, detach.go recordLateWrite: a write that returned is in     *)
(* exactly one place, and what a sealed event holds and counts is what was emitted,   *)
(* wherever the goroutines stand.                                                    *)
THEOREM Accounts == Spec => []WritesAccounted
<1>1. EventInv => WritesAccounted
  BY DEF EventInv, Fated, Frozen, WritesAccounted
<1> QED  BY <1>1, Invariance, PTL

(* detach.go recordLateWrite: a late write is counted on the nearest ancestor that    *)
(* is open when the walk reaches it, and reported only when all of them are sealed.   *)
THEOREM GoesNearest == Spec => []LateGoesNearest
<1>1. ASSUME EventInv PROVE LateGoesNearest
  <2>1. Up(parent, None) = {}
    BY UpNone
  <2>2. Nearest
    BY <1>1 DEF EventInv
  <2>3. \A w \in reported : Ancestors(target[w]) \subseteq sealed
    BY <2>1, <2>2, UpIs DEF Nearest, Passed, Ancestors
  <2>4. \A p \in Units : \A w \in lateWrites[p] :
           /\ p \in Ancestors(target[w]) /\ target[w] \in sealed
           /\ Ancestors(target[w]) \ UpTo(p) \subseteq sealed
    BY <2>2, UpIs, Names DEF Nearest, Passed, Ancestors
  <2> QED  BY <2>3, <2>4 DEF LateGoesNearest
<1> QED  BY <1>1, Invariance, PTL

(* detach.go Detach and event.go emit: an event is emitted with its parent's trace,   *)
(* unless one above it was detached from no event.                                    *)
THEOREM JoinsTraces == Spec => []TracesJoin
<1>1. ASSUME EventInv PROVE TracesJoin
  <2> SUFFICES ASSUME NEW c \in sealed, ~Bare(c)
               PROVE  /\ out[c].trace # None
                      /\ parent[c] \in sealed => out[c].trace = out[parent[c]].trace
    BY DEF TracesJoin
  <2>1. Types /\ Traced /\ Ended
    BY <1>1, TypeParts DEF EventInv
  <2>2. c \in Units /\ Present(c) /\ Clear(parent, bare, c)
    BY <2>1, UpIs DEF Types, EventTypes, Ended, Present, Clear, Bare
  <2>3. out[c].trace = trace[c] /\ trace[c] # None
    BY <2>1, <2>2 DEF Traced
  <2>4. ASSUME parent[c] \in sealed PROVE out[c].trace = out[parent[c]].trace
    <3>1. parent[c] # None
      BY <2>1, <2>4, Names DEF Types, EventTypes
    <3>2. Clear(parent, bare, parent[c])
      BY <2>1, <2>2, <3>1, ClearAbove
    <3> QED  BY <2>1, <2>2, <2>3, <2>4, <3>1, <3>2 DEF Traced
  <2> QED  BY <2>3, <2>4
<1> QED  BY <1>1, Invariance, PTL

(* detach.go recordLateWrite: a goroutine takes an ancestor's mutex while it holds    *)
(* its event's, and always an older event's, so some call under way can go on.        *)
THEOREM GoesOn == Spec => []NoDeadlock
  BY NoneStuck, Invariance, PTL

(* What the records run checks on a few events, for any number of them.               *)
THEOREM Keeps == Spec => []WritesKept
<1>1. EventInv => TypeOK
  BY DEF EventInv
<1> QED  BY <1>1, Invariance, Accounts, GoesNearest, JoinsTraces, GoesOn, PTL DEF WritesKept

=============================================================================
