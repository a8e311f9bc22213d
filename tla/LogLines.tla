------------------------------ MODULE LogLines ------------------------------
(***************************************************************************)
(* The log adapters (log/slog, logr, hclog, zap, logrus, zerolog, std): the *)
(* lines that a program writes with its own logger while units of work      *)
(* start and end, which fold into the event of their context or reach the   *)
(* wrapped logger, and the drains that write an event as one record.        *)
(*                                                                         *)
(* A line asks whether its level is enabled, then whether its event is open, *)
(* and then writes to it; the event may end between any two of these.       *)
(***************************************************************************)
EXTENDS Naturals, FiniteSets, Sequences, SequencesExt

CONSTANTS Adapters, Writers,
          Units,       \* 1..n, in the order in which they start
          Levels,      \* of the lines
          Keys, Groups,
          MaxCalls, MaxLines, MaxMade, None

VARIABLES
    use,                  \* "places" or "attrs"
    adapter, minimum,     \* the level from which the wrapped logger writes
    unit, under,          \* "new", "open" or "sealed"; the unit that each one came from
    logs, droppedLogs, lateWrites, reported,
    pc, line,             \* of each writer
    calls, base, skipped, lost, exited,
    held,                 \* what WithAttrs, WithGroup and the like left on each logger
    made,                 \* history: the pairs and groups given to each logger, in order
    out                   \* history: the logs of an event when it was sealed

lines == <<logs, droppedLogs, lateWrites, reported, base, skipped, lost, exited>>
vars  == <<use, adapter, minimum, unit, under, pc, line, calls, lines, held, made, out>>

LogLinesAssumption ==
    /\ Adapters \subseteq {"slog", "logr", "hclog", "zap", "logrus", "zerolog", "hook", "std"}
    /\ Levels \subseteq {"trace", "debug", "info", "warn", "error", "fatal"}
    /\ MaxLines \in Nat \ {0} /\ Units = 1..Cardinality(Units)

Rank == [trace |-> 0, debug |-> 1, info |-> 2, warn |-> 3, error |-> 4, fatal |-> 5]
Writes(level) == Rank[level] >= Rank[minimum]
Open(u) == u # None /\ unit[u] = "open"                 \* HasEvent

----------------------------------------------------------------------------
(* The level of a folded line: slog, zap and hclog keep the name that the library has.   *)
SlogLevel(l) == IF l \in {"trace", "fatal"} THEN "beside" ELSE l
Four(l) == CASE l \in {"trace", "debug"} -> "debug" [] l \in {"error", "fatal"} -> "error"
             [] OTHER -> l
LogrLevel(l) == CASE Rank[l] >= Rank["error"] -> "error" [] Rank[l] >= Rank["info"] -> "info"
                  [] OTHER -> "debug"
LogrusLevel(l)  == Four(l)
ZerologLevel(l) == Four(l)
LevelName(l) ==
    CASE adapter = "slog" -> SlogLevel(l) [] adapter \in {"zap", "hclog"} -> l
      [] adapter = "logr" -> LogrLevel(l) [] adapter = "logrus" -> LogrusLevel(l)
      [] adapter \in {"zerolog", "hook"} -> ZerologLevel(l) [] adapter = "std" -> "info"

(* Whether a line is made at all.  hclog and std have no such question. *)
SlogEnabled(u, l) == Open(u) \/ Writes(l)
RECURSIVE LogrEnabled(_, _)
LogrEnabled(u, l) == IF u = None THEN Writes(l) ELSE Open(u) \/ LogrEnabled(under[u], l)
ZapEnabled(l) == Writes(l)
Enabled(u, l) ==
    CASE adapter = "slog" -> SlogEnabled(u, l) [] adapter = "logr" -> LogrEnabled(u, l)
      [] adapter = "zap" -> ZapEnabled(l) [] adapter \in {"logrus", "zerolog", "hook"} -> Writes(l)
      [] adapter \in {"hclog", "std"} -> TRUE

(* The wrapped logger, behind the level test it makes itself: hclog's Log does, and zap's *)
(* Core asks Check again.                                                                 *)
HclogBase(l) == Writes(l)
ZapBase(l)   == Writes(l)
BaseTakes(l) == CASE adapter = "hclog" -> HclogBase(l) [] adapter = "zap" -> ZapBase(l) [] OTHER -> TRUE

----------------------------------------------------------------------------
(* The attributes of a line, each with its path: what its logger holds, in order, and its *)
(* own pairs.                                                                             *)
Pair(kind, key, value) == [kind |-> kind, key |-> key, value |-> value]
Put(tree, path, p) == {a \in tree : a.path # path \/ a.key # p.key}
                      \cup {[path |-> path, key |-> p.key, value |-> p.value]}
(* addAttr goes to the group that is open; Outer, a mutant, puts it outside. *)
Inner(path) == path
Outer(path) == <<>>
Current(path) == Inner(path)
Grown(acc, p) ==
    IF p.kind = "group" THEN [path |-> Append(acc.path, p.key), tree |-> acc.tree]
    ELSE [acc EXCEPT !.tree = Put(@, Current(acc.path), p)]
OrderedAttrs(ops, own) == FoldLeft(Grown, [path |-> <<>>, tree |-> {}], ops \o own).tree
(* zap's map encoder: a namespace takes what follows. *)
AttrsOf(ops, own) == OrderedAttrs(ops, own)
(* logr: the values, the pairs of the call, then the slog attrs, and every group around all. *)
LogrAttrs(ops, own) ==
    LET pick(kind) == SelectSeq(ops, LAMBDA p : p.kind = kind)
        groups     == pick("group")
    IN  {[a EXCEPT !.path = [i \in DOMAIN groups |-> groups[i].key]] :
             a \in OrderedAttrs(pick("with") \o own \o pick("attr"), <<>>)}
HclogAttrs(ops, own)  == OrderedAttrs(ops \o own, <<>>)
LogrusAttrs(ops, own) == OrderedAttrs(ops \o own, <<>>)
(* A JSON line, of which the writer takes the level: the last one of that name. *)
ZerologAttrs(ops, own) == {a \in OrderedAttrs(ops \o own, <<>>) : a.key # "level"}
Attrs(ops, own) ==
    CASE adapter = "slog" -> OrderedAttrs(ops, own) [] adapter = "zap" -> AttrsOf(ops, own)
      [] adapter = "logr" -> LogrAttrs(ops, own) [] adapter = "hclog" -> HclogAttrs(ops, own)
      [] adapter = "logrus" -> LogrusAttrs(ops, own) [] adapter = "zerolog" -> ZerologAttrs(ops, own)
      [] adapter \in {"hook", "std"} -> {}
LineLevel(l, ops, own) ==
    IF adapter = "zerolog" /\ \E p \in ToSet(ops \o own) : p.key = "level" THEN "info"
    ELSE LevelName(l)

(* A logger made from another one: it copies what that one holds.  Aliased, a mutant,      *)
(* appends in place, so that the loggers made from it before share the new entry.          *)
Copied(from, to, p) == [held EXCEPT ![to] = Append(held[from], p)]
Aliased(from, to, p) ==
    [w \in Writers |->
        IF w = to \/ (Len(held[w]) > Len(held[from]) /\ IsPrefix(held[from], held[w]))
        THEN Append(held[from], p) ELSE held[w]]
Derived(from, to, p) == Copied(from, to, p)
Kinds == CASE adapter = "slog" -> {"attr", "group"} [] adapter = "zap" -> {"with", "group"}
           [] adapter = "logr" -> {"with", "attr", "group"}
           [] adapter \in {"hclog", "logrus", "zerolog"} -> {"with"}
           [] adapter \in {"hook", "std"} -> {}
With(from, to) ==
    /\ use = "attrs" /\ calls = 0
    /\ Len(made[from]) < MaxMade
    /\ \E kind \in Kinds : \E key \in IF kind = "group" THEN Groups ELSE Keys :
          LET p == Pair(kind, key, Len(made[from]) + 1) IN
          /\ held' = Derived(from, to, p)
          /\ made' = [made EXCEPT ![to] = Append(made[from], p)]
    /\ UNCHANGED <<use, adapter, minimum, unit, under, pc, line, calls, lines, out>>

----------------------------------------------------------------------------
Init ==
    /\ use \in {"places", "attrs"} /\ adapter \in Adapters
    /\ minimum \in IF use = "places" THEN {"debug", "warn"} ELSE {"debug"}
    /\ unit = [u \in Units |-> IF use = "attrs" /\ u = 1 THEN "open" ELSE "new"]
    /\ under = [u \in Units |-> None]
    /\ logs = [u \in Units |-> {}] /\ droppedLogs = [u \in Units |-> 0]
    /\ lateWrites = [u \in Units |-> 0] /\ reported = 0
    /\ pc = [w \in Writers |-> "idle"] /\ line = [w \in Writers |-> None]
    /\ calls = 0 /\ base = {} /\ skipped = {} /\ lost = {} /\ exited = FALSE
    /\ held = [w \in Writers |-> <<>>] /\ made = [w \in Writers |-> <<>>]
    /\ out = [u \in Units |-> {}]

(* Plugin.OnStart binds a logger to the context of each unit; logr wraps the one of the   *)
(* unit it starts under.                                                                  *)
Start(u, p) ==
    /\ use = "places" /\ unit[u] = "new" /\ \A v \in Units : v < u => unit[v] # "new"
    /\ p # None => unit[p] # "new"
    /\ unit' = [unit EXCEPT ![u] = "open"] /\ under' = [under EXCEPT ![u] = p]
    /\ UNCHANGED <<use, adapter, minimum, pc, line, calls, lines, held, made, out>>
End(u) ==
    /\ use = "places" /\ unit[u] = "open" /\ unit' = [unit EXCEPT ![u] = "sealed"]
    /\ out' = [out EXCEPT ![u] = logs[u]]
    /\ UNCHANGED <<use, adapter, minimum, under, pc, line, calls, lines, held, made>>

(* A call of the library.  in is the unit of its context or of its bound logger.          *)
Call(w, in, level, key) ==
    /\ pc[w] = "idle" /\ calls < MaxCalls /\ calls' = calls + 1
    /\ in # None => unit[in] # "new"
    /\ LET own == IF key = None THEN <<>> ELSE <<Pair("with", key, 0)>> IN
       line' = [line EXCEPT ![w] =
                   [id |-> calls, in |-> in, asked |-> in, level |-> level, plain |-> FALSE, by |-> w,
                    own |-> own, told |-> LineLevel(level, held[w], own), attrs |-> Attrs(held[w], own)]]
    /\ pc' = [pc EXCEPT ![w] = "ask"]
    /\ UNCHANGED <<use, adapter, minimum, unit, under, lines, held, made, out>>
(* wlog.Info in a unit whose drain is Drain of the wrapped handler: no level is asked for. *)
PlainLine(w, in) ==
    /\ use = "places" /\ adapter = "slog" /\ unit[in] # "new"
    /\ pc[w] = "idle" /\ calls < MaxCalls /\ calls' = calls + 1
    /\ line' = [line EXCEPT ![w] = [id |-> calls, in |-> in, asked |-> in, level |-> "info", plain |-> TRUE,
                                    by |-> w, own |-> <<>>, told |-> "info", attrs |-> {}]]
    /\ pc' = [pc EXCEPT ![w] = "fold?"]
    /\ UNCHANGED <<use, adapter, minimum, unit, under, lines, held, made, out>>

(* fatal: zap, logrus and zerolog end the process once the line is written. *)
Exits(w) == exited' = (line[w].level = "fatal" /\ adapter \in {"zap", "logrus", "zerolog", "hook"})
Returns(w) == pc' = [pc EXCEPT ![w] = "idle"] /\ line' = [line EXCEPT ![w] = None]
Still == UNCHANGED <<use, adapter, minimum, unit, under, calls, held, made, out>>

Skip(w) ==
    /\ pc[w] = "ask" /\ ~Enabled(line[w].in, line[w].level)
    /\ skipped' = skipped \cup {line[w]} /\ Exits(w) /\ Returns(w) /\ Still
    /\ UNCHANGED <<logs, droppedLogs, lateWrites, reported, base, lost>>
Goes(w) ==
    /\ pc[w] = "ask" /\ Enabled(line[w].in, line[w].level)
    /\ pc' = [pc EXCEPT ![w] = IF adapter = "std" THEN "fold" ELSE "fold?"]
    /\ Still /\ UNCHANGED <<line, lines>>

Folds(w) ==
    /\ pc[w] = "fold?" /\ Open(line[w].in)
    /\ pc' = [pc EXCEPT ![w] = "fold"]
    /\ Still /\ UNCHANGED <<line, lines>>
(* logr: the sink that the outer unit bound is the next one. *)
Outward(w) ==
    /\ pc[w] = "fold?" /\ ~Open(line[w].in)
    /\ adapter = "logr" /\ line[w].in # None
    /\ line' = [line EXCEPT ![w].in = under[@]]
    /\ Still /\ UNCHANGED <<pc, lines>>
(* zerolog: Bind put its writer in the place of the one that base had. *)
Loses(w) == adapter = "zerolog" /\ line[w].asked # None
Forward(w) ==
    /\ pc[w] = "fold?" /\ ~Open(line[w].in) /\ (adapter = "logr" => line[w].in = None)
    /\ IF Loses(w) THEN lost' = lost \cup {line[w]} /\ UNCHANGED <<base, skipped>>
       ELSE IF BaseTakes(line[w].level) THEN base' = base \cup {line[w]} /\ UNCHANGED <<lost, skipped>>
       ELSE skipped' = skipped \cup {line[w]} /\ UNCHANGED <<base, lost>>
    /\ Exits(w) /\ Returns(w) /\ Still
    /\ UNCHANGED <<logs, droppedLogs, lateWrites, reported>>

(* recordLateWrite *)
RECURSIVE Nearest(_)
Nearest(u) == IF u = None \/ Open(u) THEN u ELSE Nearest(under[u])
(* AppendLog, under the lock of the event.  Anyway, a mutant, does not look at sealed. *)
Sealed(u) == unit[u] = "sealed"
Anyway(u) == FALSE
Late(u) == Sealed(u)
AppendLog(w) ==
    /\ pc[w] = "fold"
    /\ LET u == line[w].in IN
       IF u = None THEN reported' = reported + 1 /\ UNCHANGED <<logs, droppedLogs, lateWrites>>
       ELSE IF Late(u)
       THEN LET a == Nearest(under[u]) IN
            /\ IF a = None THEN reported' = reported + 1 /\ UNCHANGED lateWrites
               ELSE lateWrites' = [lateWrites EXCEPT ![a] = @ + 1] /\ UNCHANGED reported
            /\ UNCHANGED <<logs, droppedLogs>>
       ELSE IF Cardinality(logs[u]) >= MaxLines
       THEN droppedLogs' = [droppedLogs EXCEPT ![u] = @ + 1] /\ UNCHANGED <<logs, lateWrites, reported>>
       ELSE logs' = [logs EXCEPT ![u] = @ \cup {line[w]}] /\ UNCHANGED <<droppedLogs, lateWrites, reported>>
    /\ IF adapter = "logrus" THEN pc' = [pc EXCEPT ![w] = "format"] /\ UNCHANGED <<line, exited>>
       ELSE Returns(w) /\ Exits(w)
    /\ Still /\ UNCHANGED <<base, skipped, lost>>
(* logrus writes after its hooks, so a folded entry is marked, and formatted to nothing.  *)
(* Unmarked is a mutant.                                                                  *)
Marked(w)   == TRUE
Unmarked(w) == FALSE
Mark(w) == Marked(w)
Format(w) ==
    /\ pc[w] = "format"
    /\ base' = IF Mark(w) THEN base ELSE base \cup {line[w]}
    /\ Exits(w) /\ Returns(w) /\ Still
    /\ UNCHANGED <<logs, droppedLogs, lateWrites, reported, skipped, lost>>

Step(w) == \/ Skip(w) \/ Goes(w) \/ Folds(w) \/ Outward(w) \/ Forward(w) \/ AppendLog(w) \/ Format(w)
Places(w) ==
    \/ \E in \in Units \cup {None}, l \in Levels : use = "places" /\ Call(w, in, l, None)
    \/ \E l \in Levels, k \in Keys \cup {None} : use = "attrs" /\ calls = 0 /\ Call(w, 1, l, k)
    \/ \E in \in Units : PlainLine(w, in)
    \/ \E v \in Writers : With(v, w)
    \/ Step(w)
Next ==
    /\ ~exited
    /\ \/ \E u \in Units, p \in Units \cup {None} : p # u /\ Start(u, p)
       \/ \E u \in Units : End(u)
       \/ \E w \in Writers : Places(w)

----------------------------------------------------------------------------
Sum(f) == FoldFunction(LAMBDA a, b : a + b, 0, f)
Folded == UNION {logs[u] : u \in Units}

(* A line is at one place: on the event of its context that had not ended, counted there   *)
(* as dropped, counted as late or reported, at the wrapped logger, or left out; one that   *)
(* its level leaves out is below the level of the wrapped logger.                         *)
Accounted ==
    /\ Folded \cap base = {}
    /\ calls = Cardinality(Folded) + Sum(droppedLogs) + Sum(lateWrites) + reported
               + Cardinality(base) + Cardinality(skipped) + Cardinality(lost)
               + Cardinality({w \in Writers : pc[w] \notin {"idle", "format"}})
    /\ \A l \in skipped : ~Writes(l.level)
    /\ \A l \in lost : adapter = "zerolog"
InItsEvent ==
    /\ \A u \in Units : unit[u] = "sealed" => logs[u] = out[u]
    /\ \A u \in Units : \A l \in logs[u] : l.asked # None /\ (l.asked = u \/ adapter = "logr")
    /\ \A l \in base : l.asked # None => unit[l.asked] = "sealed"
    /\ \A u \in Units : droppedLogs[u] > 0 => Cardinality(logs[u]) = MaxLines
(* The attributes of a line are the pairs given to its logger and to it, the newest of a    *)
(* name, in the groups that were open when it was given (orderedAttrs and the encoders).    *)
Given(l) == made[l.by] \o l.own
PathAt(ops, i) == LET gs == SelectSeq(SubSeq(ops, 1, i), LAMBDA p : p.kind = "group")
                  IN [j \in DOMAIN gs |-> gs[j].key]
Newest(ops, i) == ops[i].kind # "group" /\ \A j \in DOMAIN ops :
                      j > i /\ ops[j].kind # "group" /\ ops[j].key = ops[i].key => PathAt(ops, j) # PathAt(ops, i)
AttrsTell ==
    (use = "attrs" /\ adapter \in {"slog", "zap", "hclog", "logrus", "zerolog"}) =>
        \A l \in Folded :
            LET ops == Given(l) IN
            l.attrs = {a \in {[path |-> PathAt(ops, i), key |-> ops[i].key, value |-> ops[i].value] :
                              i \in {j \in DOMAIN ops : Newest(ops, j)}} :
                          adapter = "zerolog" => a.key # "level"}
LinesTell == Accounted /\ InItsEvent /\ AttrsTell

(* What the documents say, and the code does not do.                                        *)

(* log/zerolog Bind: with no event the lines reach the writer of base.                      *)
ReachBase == lost = {}
(* docs/SPEC-track-c.md, rule 2: a bridge folds a line only at a level the wrapped logger   *)
(* writes.                                                                                  *)
FoldsWhatItWrites == \A l \in Folded : l.plain \/ Writes(l.level)
(* Rule 3: the levels are debug, info, warn and error.                                      *)
FourLevels == \A l \in Folded : l.told \in {"debug", "info", "warn", "error"}
(* The wrapped logger gets no line below its level.                                         *)
BaseFilters == \A l \in base : l.plain \/ Writes(l.level)
(* plain.go: in the context of a request the line is still its own event, not folded.       *)
PlainStandsAlone == \A l \in Folded : ~l.plain
(* A level below error never stands for an error.                                           *)
ErrorsShow == \A l \in Folded : Rank[l.level] >= Rank["error"] => l.told \notin {"info", "warn"}
(* log/logr WithAttrs: what the call gives is newer than what its logger holds.             *)
NewestShows == \A l \in Folded : l.own # <<>> => \E a \in l.attrs : a.key = l.own[1].key /\ a.value = 0
(* A line that a fatal call folded is written before the process ends.                      *)
FatalTold == exited => \A u \in Units : unit[u] = "open" => \A l \in logs[u] : l.level # "fatal"
=============================================================================
