------------------------------- MODULE Fields -------------------------------
(***************************************************************************)
(* What one open event stores, and the caps that bound it (event.go,       *)
(* calls.go, logs.go, errors.go, level.go; gate G4).                       *)
(*                                                                         *)
(* The calls run under the event's mutex, so they are taken one at a time; *)
(* Event has their interleaving with the seal.  A value is a set of atoms  *)
(* of one unit of size each.  A group's field is a leaf, which a write     *)
(* replaces, or a map, which a write is merged into.  A SetGroup call of   *)
(* several pairs is several calls of one pair in a row.                    *)
(***************************************************************************)
EXTENDS Integers, Sequences, FiniteSets

CONSTANTS Keys, Audit,          \* top-level keys, and the audit key among them
          Leaves, Maps,         \* the names of a group's fields, by their kind
          Plain,                \* the name under which a value that is no group is kept
          Atoms,                \* the pieces values are made of
          Errors, Levels,       \* error values, and the levels SetLevel may name
          Uses,                 \* what an event may be used for: "groups", "merges", "records"
          MaxKeys, MaxGroupFields, MaxArray, MaxAudit, MaxMemory,
          MaxLogs, MaxCalls, MaxErrors,
          MaxSteps              \* bound: how many calls a behaviour has

FieldsAssumption ==
    /\ Audit \in Keys /\ Leaves \cap Maps = {} /\ Plain \notin Leaves \cup Maps
    /\ Uses \subseteq {"groups", "merges", "records"} /\ {"info", "error"} \subseteq Levels
    /\ {MaxKeys, MaxGroupFields, MaxArray, MaxAudit, MaxMemory,
        MaxLogs, MaxCalls, MaxErrors, MaxSteps} \subseteq Nat

Names == Leaves \cup Maps \cup {Plain}

VARIABLES
    kind,         \* of each key: "absent", "value", "array", "group"
    cells,        \* what it holds: atoms, by the name of the group's field
    size,         \* e.size
    dropped,      \* e.dropped, e.droppedLogs, e.droppedCalls
    droppedLogs, droppedCalls,
    logs, calls,  \* the lengths of logs[] and of calls[]
    stats,        \* how many calls call_stats counts
    failures,     \* how many failed calls call_stats counts
    level, levelSet,
    errInfo, errList

(* Bound: what this event is used for beside Set and Append: SetGroup and       *)
(* UpdateGroup ("groups"), SetGroup alone ("merges"), or logs, calls, errors.    *)
VARIABLE use

(* History: how many calls were made, how many took effect, the calls and log  *)
(* lines ended, the errors recorded in order and the last level named.         *)
VARIABLES steps, kept, ended, failed, logged, errors, named

store   == <<kind, cells, size>>
records == <<droppedLogs, droppedCalls, logs, calls, stats, failures>>
outcome == <<level, levelSet, errInfo, errList>>
history == <<ended, failed, logged, errors, named>>
vars    == <<store, dropped, records, outcome, use, steps, kept, history>>

NoError == "none"

Init ==
    /\ kind = [k \in Keys |-> "absent"] /\ cells = [k \in Keys |-> {}] /\ size = 0
    /\ dropped = 0 /\ droppedLogs = 0 /\ droppedCalls = 0
    /\ logs = 0 /\ calls = 0 /\ stats = 0 /\ failures = 0
    /\ level = "info" /\ levelSet = FALSE /\ errInfo = NoError /\ errList = <<>>
    /\ steps = 0 /\ kept = 0 /\ ended = 0 /\ failed = 0 /\ logged = 0
    /\ errors = <<>> /\ named = "info" /\ use \in Uses

----------------------------------------------------------------------------
(* The two caps every stored value passes *)

One(b) == IF b THEN 1 ELSE 0
Present(k) == kind[k] # "absent"
Slots == Cardinality({k \in Keys : Present(k)}) + One(logs > 0) + One(calls > 0) + One(stats > 0)

OneKeyMore(k)  == Present(k) \/ k = Audit \/ Slots <= MaxKeys   \* mutant: off by one
Slot(k)   == Present(k) \/ k = Audit \/ Slots < MaxKeys     \* reserveTopLevelSlot

(* chargeSize *)
Whole(old, new)  == Cardinality(new)                        \* mutant: no credit for old
Growth(old, new) == Cardinality(new) - Cardinality(old)
Charged(old, new) == LET s == size + Growth(old, new) IN IF s < 0 THEN 0 ELSE s
Fits(old, new)    == size + Growth(old, new) <= MaxMemory

Step  == steps < MaxSteps /\ steps' = steps + 1 /\ UNCHANGED use
Keep  == kept' = kept + 1 /\ UNCHANGED dropped
Quiet == UNCHANGED <<dropped, kept>>                        \* mutant: an uncounted drop
Drop  == dropped' = dropped + 1 /\ UNCHANGED kept

Put(k, as, what, charge) ==
    /\ kind' = [kind EXCEPT ![k] = as]
    /\ cells' = [cells EXCEPT ![k] = what]
    /\ size' = charge

----------------------------------------------------------------------------
(* Set, Append, SetGroup, UpdateGroup, CountDropped *)

Set(k, v) ==
    LET new == {Plain} \X v IN
    /\ Step
    /\ IF Slot(k) /\ Fits(cells[k], new)
       THEN Put(k, "value", new, Charged(cells[k], new)) /\ Keep
       ELSE Drop /\ UNCHANGED store
    /\ UNCHANGED <<records, outcome, history>>

(* A key that holds no array begins one, and the array takes its place. *)
ArrayLimit(k) == IF k = Audit THEN MaxAudit ELSE MaxArray
AppendTo(k, a) ==
    LET old == IF kind[k] = "array" THEN cells[k] ELSE {}
        new == old \cup {<<Plain, a>>}
    IN
    /\ <<Plain, a>> \notin old
    /\ Step
    /\ IF (kind[k] = "array" \/ Slot(k)) /\ Cardinality(old) < ArrayLimit(k)
              /\ Fits(cells[k], new)
       THEN Put(k, "array", new, Charged(cells[k], new)) /\ Keep
       ELSE Drop /\ UNCHANGED store
    /\ UNCHANGED <<records, outcome, history>>

(* The group is made before its field is charged for.  What a key held before it *)
(* became a group stays charged.                                                 *)
GroupOf(k)  == IF kind[k] = "group" THEN cells[k] ELSE {}
Of(g, f)    == {c \in g : c[1] = f}
SetGroup(k, f, v) ==
    LET g   == GroupOf(k)
        old == Of(g, f)
        new == {f} \X v
        full == old = {} /\ Cardinality({c[1] : c \in g}) >= MaxGroupFields
        merged == IF f \in Maps THEN g \cup new ELSE (g \ old) \cup new
    IN
    /\ use \in {"groups", "merges"} /\ Step
    /\ IF kind[k] # "group" /\ ~Slot(k) THEN Drop /\ UNCHANGED store
       ELSE IF full \/ ~Fits(old, new) THEN Drop /\ Put(k, "group", g, size)
       ELSE Keep /\ Put(k, "group", merged, Charged(old, new))
    /\ UNCHANGED <<records, outcome, history>>

(* update works on the group itself: nothing is charged. *)
UpdateGroup(k, f, v) ==
    /\ use = "groups" /\ Step
    /\ IF kind[k] # "group" /\ ~Slot(k) THEN Drop /\ UNCHANGED store
       ELSE Keep /\ Put(k, "group", GroupOf(k) \cup ({f} \X v), size)
    /\ UNCHANGED <<records, outcome, history>>

----------------------------------------------------------------------------
(* logs[], calls[] and call_stats, which are not charged for *)

AppendLog ==
    /\ use = "records" /\ Step /\ logged' = logged + 1
    /\ IF logs = 0 /\ Slots >= MaxKeys
       THEN Drop /\ UNCHANGED <<logs, droppedLogs>>
       ELSE IF logs >= MaxLogs
       THEN droppedLogs' = droppedLogs + 1 /\ UNCHANGED <<logs, dropped, kept>>
       ELSE logs' = logs + 1 /\ Keep /\ UNCHANGED droppedLogs
    /\ UNCHANGED <<store, droppedCalls, calls, stats, failures, outcome,
                   ended, failed, errors, named>>

(* recordCall: with no slot for calls[] it returns before it folds the totals. *)
NoTotalPastCap == calls < MaxCalls                          \* mutant: totals stop too
TotalPastCap   == TRUE
RecordCall(bad) ==
    LET noCalls == calls = 0 /\ MaxCalls > 0 /\ Slots >= MaxKeys
        used    == Slots + One(calls = 0 /\ MaxCalls > 0)
        noStats == stats = 0 /\ used >= MaxKeys
    IN
    /\ use = "records" /\ Step
    /\ ended' = ended + 1 /\ failed' = failed + One(bad)
    /\ calls' = IF noCalls \/ calls >= MaxCalls THEN calls ELSE calls + 1
    /\ droppedCalls' = droppedCalls + One(calls >= MaxCalls)
    /\ IF noCalls \/ noStats THEN dropped' = dropped + 1 ELSE UNCHANGED dropped
    /\ IF noCalls \/ noStats \/ ~TotalPastCap
       THEN UNCHANGED <<stats, failures>>
       ELSE stats' = stats + 1 /\ failures' = failures + One(bad)
    /\ kept' = kept + One(~noCalls /\ ~noStats /\ calls < MaxCalls)
    /\ UNCHANGED <<store, logs, droppedLogs, outcome, logged, errors, named>>

----------------------------------------------------------------------------
(* Error and SetLevel *)

NewestOut(list, e) == Append(list, e)                       \* mutant: the new error moves
Earlier(list, e)   == Append(list, errInfo)
AfterError == IF levelSet THEN level ELSE "error"
RecordError(e) ==
    /\ use = "records" /\ Step /\ errors' = Append(errors, e)
    /\ errInfo' = e /\ level' = AfterError
    /\ IF errInfo = NoError
       THEN Keep /\ UNCHANGED errList
       ELSE IF Len(errList) >= MaxErrors
       THEN Drop /\ UNCHANGED errList
       ELSE Keep /\ errList' = Earlier(errList, e)
    /\ UNCHANGED <<store, records, levelSet, ended, failed, logged, named>>

SetLevel(l) ==
    /\ use = "records" /\ Step /\ Keep
    /\ level' = l /\ levelSet' = TRUE /\ named' = l
    /\ UNCHANGED <<store, records, errInfo, errList, ended, failed, logged, errors>>

----------------------------------------------------------------------------
Values == SUBSET Atoms \ {{}}
Next == \/ \E k \in Keys, v \in Values : Set(k, v)
        \/ \E k \in Keys, a \in Atoms : AppendTo(k, a)
        \/ \E k \in Keys, f \in Leaves \cup Maps, v \in Values :
              SetGroup(k, f, v) \/ UpdateGroup(k, f, v)
        \/ AppendLog
        \/ \E bad \in BOOLEAN : RecordCall(bad)
        \/ \E e \in Errors : RecordError(e)
        \/ \E l \in Levels : SetLevel(l)

Spec == Init /\ [][Next]_vars

----------------------------------------------------------------------------
(* Properties *)

(* Only the audit array goes past the key cap, and no array past its own. *)
Capped ==
    /\ Slots - One(Present(Audit)) <= MaxKeys
    /\ \A k \in Keys : kind[k] = "array" => Cardinality(cells[k]) <= ArrayLimit(k)

TypeOK ==
    /\ Capped /\ kind \in [Keys -> {"absent", "value", "array", "group"}]
    /\ cells \in [Keys -> SUBSET (Names \X Atoms)] /\ size \in 0..MaxMemory
    /\ {dropped, droppedLogs, droppedCalls, stats, failures} \subseteq 0..MaxSteps
    /\ logs \in 0..MaxLogs /\ calls \in 0..MaxCalls
    /\ level \in Levels /\ levelSet \in BOOLEAN
    /\ errInfo \in Errors \cup {NoError} /\ errList \in Seq(Errors) /\ Len(errList) <= MaxErrors
    /\ {steps, kept, ended, failed, logged} \subseteq 0..MaxSteps
    /\ errors \in Seq(Errors) /\ named \in Levels

(* "A field beyond its cap is dropped and counted": every call that did not take  *)
(* effect is in one of the three drop counters.                                   *)
DropsCounted == steps <= kept + dropped + droppedLogs + droppedCalls

(* While only Set and Append write, size is what the event holds, and the event   *)
(* holds no more than the memory ceiling.                                         *)
Held == LET sum[S \in SUBSET Keys] ==
                IF S = {} THEN 0
                ELSE LET k == CHOOSE x \in S : TRUE
                     IN  Cardinality(cells[k]) + sum[S \ {k}]
        IN  sum[Keys]
SizeExact == use = "records" => size = Held /\ Held <= MaxMemory

(* calls[] stops at its cap and call_stats does not: while the keys leave room, a  *)
(* reader learns of every call and every failure.                                 *)
RecordsAddUp ==
    /\ ended <= calls + droppedCalls + dropped
    /\ dropped = 0 => stats = ended /\ failures = failed

(* errors[] has the earlier errors, oldest first, and error the last one; and "an *)
(* explicit SetLevel, before or after, still wins".                               *)
ErrorsAndLevel ==
    /\ level = IF levelSet THEN named ELSE IF errors = <<>> THEN "info" ELSE "error"
    /\ errors # <<>> =>
        /\ errInfo = errors[Len(errors)]
        /\ errList = SubSeq(errors, 1, Len(errList))
        /\ Len(errList) = IF Len(errors) - 1 < MaxErrors THEN Len(errors) - 1 ELSE MaxErrors

----------------------------------------------------------------------------
(* What the comments say, and the code does not keep *)

(* maxEventMemory "is the ceiling one write stops at, so a single event cannot grow *)
(* without bound (gate G4)".                                                        *)
MemoryBounded == Held <= MaxMemory
=============================================================================
