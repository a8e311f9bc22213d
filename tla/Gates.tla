------------------------------- MODULE Gates -------------------------------
(***************************************************************************)
(* The gates of tools/cmd: each one goes through a list of modules,         *)
(* targets, tasks or documents, asks a command about each, and passes or    *)
(* fails.  A command answers with an exit status and a text, and a gate     *)
(* knows the truth from nothing else.                                       *)
(*                                                                         *)
(* The run may be killed at any step.  vuln and floor -libs upgrade the     *)
(* modules they look at, in a copy of the workspace.                        *)
(***************************************************************************)
EXTENDS Naturals, Sequences

CONSTANTS Kinds,        \* the gates
          Items,        \* the items of one run: 1..n, in order
          Tasks,        \* the tasks of the plan, for the audit of verifyplan
          None

(* How an item really is: unknown when the command cannot find out, wherever the cause *)
(* lies: no network, no such test, no such file.                                       *)
Truths == {"good", "wrong", "unknown"}
Upgrading == {"vuln", "floor -libs"}

VARIABLES
    gate,
    items,       \* the items selected, each with what is true of it
    next,        \* the item to look at
    bad,         \* the problems counted
    touched,     \* where go.mod files were upgraded: a subset of {"tree", "copy"}
    verdict

vars == <<gate, items, next, bad, touched, verdict>>

GatesAssumption == Items \in Nat /\ Kinds \subseteq
    {"tidy", "vuln", "floor", "floor -libs", "fuzz", "bench", "cover", "api", "verify", "snippets",
     "schema", "docs", "pkgstate", "audit"}

----------------------------------------------------------------------------
(* What may be true of an item of each gate: as it stands, with newer libraries, on *)
(* the list of exceptions, and of which form.                                       *)
Fact(is, newer, listed, form) == [is |-> is, newer |-> newer, listed |-> listed, form |-> form]
Forms(g) ==
    CASE g = "verify"   -> {"go test", "other"}
      [] g = "snippets" -> {"build", "run", "no text", "sketch"}
      [] g = "api"      -> {"baseline", "no baseline"}
      [] OTHER          -> {"plain"}
(* An audit id: the tasks that name it, in the order of the plan, and whether the *)
(* changelog records a decision; of a task, its Verify command.                   *)
Commands == {None, "good", "wrong", "self"}
TaskIds == [owners : {<<>>} \cup {<<t>> : t \in Tasks} \cup {<<t, u>> : t, u \in Tasks}, recorded : BOOLEAN]
Audit == {[ids |-> s, command |-> c] : s \in [1..Items -> TaskIds], c \in [Tasks -> Commands]}

Inputs(g) ==
    IF g = "audit" THEN Audit
    ELSE {<<>>} \cup [1..Items -> {Fact(i, n, l, f) : i \in Truths,
                                                     n \in IF g \in Upgrading THEN Truths ELSE {"good"},
                                                     l \in IF g \in {"floor -libs", "cover"} THEN BOOLEAN ELSE {FALSE},
                                                     f \in Forms(g)}]

(* The exit status and the text of the command for an item: nothing, lines that say *)
(* nothing about the item, or what the gate looks for.                              *)
Answer(ok, text) == [ok |-> ok, text |-> text]
Answers(g, is) ==
    CASE g = "tidy" ->
            IF is = "good" THEN {Answer(TRUE, "none"), Answer(TRUE, "noise")}
            ELSE {Answer(FALSE, IF is = "wrong" THEN "marks" ELSE "noise")}
      [] g = "api" ->
            IF is = "good" THEN {Answer(b, t) : b \in BOOLEAN, t \in {"none", "noise"}}
            ELSE {Answer(b, "marks") : b \in BOOLEAN}
      [] g = "verify" ->
            {Answer(is # "wrong", IF is = "good" THEN "marks" ELSE "none")}
      [] g \in {"bench", "cover", "schema", "docs", "pkgstate"} ->
            {Answer(is # "unknown", IF is = "wrong" THEN "marks" ELSE "none")}
      [] g = "snippets" -> {Answer(is # "unknown", IF is = "good" THEN "marks" ELSE "none")}
      [] OTHER -> {Answer(is = "good", "noise")}

(* tidy: a diff is a problem, an error without a diff ends the run.  Quiet is a mutant. *)
TidyQuiet(a) == IF a.text = "marks" THEN "bad" ELSE "good"
Tidy(a) == IF a.text = "marks" THEN "bad" ELSE IF ~ a.ok THEN "stop" ELSE "good"
(* verify: the exit status, and for go test a test that ran.  ByStatus is a mutant. *)
ByStatus(a, f) == IF a.ok THEN "good" ELSE "bad"
Verify(a, f) == IF ~ a.ok \/ (f = "go test" /\ a.text # "marks") THEN "bad" ELSE "good"
(* checkBlock: a sketch is not built; a block that runs shows its output.  A build says *)
(* nothing of the output.                                                               *)
Block(a, f) ==
    CASE f = "sketch"  -> "good"
      [] f = "build"   -> IF a.ok THEN "good" ELSE "bad"
      [] f = "no text" -> "bad"
      [] f = "run"     -> IF a.ok /\ a.text = "marks" THEN "good" ELSE "bad"
(* checkAPI: the report counts and the exit status does not; a module without a baseline *)
(* ends the run.                                                                         *)
API(a, f) == IF f = "no baseline" THEN "stop" ELSE IF a.text = "marks" THEN "bad" ELSE "good"

(* vuln, floor: the exit status.  fuzz ends at the first target that fails. *)
Vuln(a)  == IF a.ok THEN "good" ELSE "bad"
Floor(a) == IF a.ok THEN "good" ELSE "bad"
Fuzz(a)  == IF a.ok THEN "good" ELSE "stop"
(* bench, schema, pkgstate: what the report shows, if there is one. *)
Bench(a)    == IF ~ a.ok THEN "stop" ELSE IF a.text = "marks" THEN "bad" ELSE "good"
Schema(a)   == IF ~ a.ok THEN "stop" ELSE IF a.text = "marks" THEN "bad" ELSE "good"
PkgState(a) == IF ~ a.ok THEN "stop" ELSE IF a.text = "marks" THEN "bad" ELSE "good"
Cover(a, f) == IF ~ a.ok THEN "stop" ELSE IF a.text = "marks" /\ ~ f.listed THEN "bad" ELSE "good"
(* docs -check: a file that cannot be read is a stale one. *)
Docs(a) == IF ~ a.ok \/ a.text = "marks" THEN "bad" ELSE "good"

Judge(g, a, f) ==
    CASE g = "tidy"     -> Tidy(a)
      [] g = "verify"   -> Verify(a, f.form)
      [] g = "snippets" -> Block(a, f.form)
      [] g = "api"      -> API(a, f.form)
      [] g = "fuzz"     -> Fuzz(a)
      [] g = "cover"    -> Cover(a, f)
      [] g = "bench"    -> Bench(a)
      [] g = "schema"   -> Schema(a)
      [] g = "pkgstate" -> PkgState(a)
      [] g = "docs"     -> Docs(a)
      [] g = "vuln"     -> Vuln(a)
      [] OTHER          -> Floor(a)
(* What a gate may say of an item.  floor -libs tests a module as it stands, then with *)
(* newer libraries, and takes a listed module for good.                                *)
Seen(g, f) ==
    CASE g = "vuln" -> {Judge(g, a, f) : a \in Answers(g, f.newer)}
      [] g = "floor -libs" ->
            IF f.listed THEN {"good"}
            ELSE IF f.is = "good" THEN {Judge(g, a, f) : a \in Answers(g, f.newer)} ELSE {"bad"}
      [] OTHER -> {Judge(g, a, f) : a \in Answers(g, f.is)}

(* auditRun: the first task that names the id and has a command, or the first of all. *)
Closing(id, command) ==
    LET able == {i \in DOMAIN id.owners : command[id.owners[i]] # None}
    IN IF able # {} THEN id.owners[CHOOSE i \in able : \A j \in able : i <= j]
       ELSE IF id.owners # <<>> THEN id.owners[1] ELSE None
HasCommand(t, command) == t # None /\ command[t] # None

----------------------------------------------------------------------------
Length == IF gate = "audit" THEN Len(items.ids) ELSE Len(items)
Init ==
    /\ gate \in Kinds /\ items \in Inputs(gate) /\ next = 1 /\ bad = 0
    /\ touched = {} /\ verdict = None

Running == verdict = None /\ UNCHANGED <<gate, items>>
(* The directory that an upgrade writes to.  InPlace is a mutant. *)
InPlace == "tree"
Upgrades == "copy"

Look ==
    /\ Running /\ gate # "audit" /\ next <= Length
    /\ \E seen \in Seen(gate, items[next]) :
        /\ bad' = IF seen = "bad" THEN bad + 1 ELSE bad
        /\ verdict' = IF seen = "stop" THEN "fail" ELSE None
    /\ touched' = IF gate \in Upgrading /\ ~ items[next].listed THEN touched \cup {Upgrades} ELSE touched
    /\ next' = next + 1

(* auditRun, one id: a decision closes an id without a task or whose task has no command; *)
(* the command of a task answers alike for each of its ids.                               *)
Audited ==
    /\ Running /\ gate = "audit" /\ next <= Length
    /\ LET id    == items.ids[next]
           task  == Closing(id, items.command)
           runs  == HasCommand(task, items.command) /\ items.command[task] # "self"
           fails == runs /\ items.command[task] = "wrong"
       IN bad' = IF fails \/ (~ HasCommand(task, items.command) /\ ~ id.recorded) THEN bad + 1 ELSE bad
    /\ next' = next + 1 /\ UNCHANGED <<touched, verdict>>

(* Gates that refuse an empty list. *)
NeedsOne == {"fuzz", "verify", "snippets", "cover"}
Finish ==
    /\ Running /\ next > Length
    /\ verdict' = IF bad > 0 \/ (Length = 0 /\ gate \in NeedsOne) THEN "fail" ELSE "pass"
    /\ UNCHANGED <<next, bad, touched>>

Killed == Running /\ verdict' = "killed" /\ UNCHANGED <<next, bad, touched>>

Next == Look \/ Audited \/ Finish \/ Killed

----------------------------------------------------------------------------
(* What a gate promises of one item. *)
Holds(g, f) ==
    CASE g = "vuln"        -> f.newer = "good"
      [] g = "floor -libs" -> f.listed \/ (f.is = "good" /\ f.newer = "good")
      [] g = "cover"       -> f.is = "good" \/ (f.listed /\ f.is = "wrong")
      [] g = "api"         -> f.form = "baseline" /\ f.is = "good"
      [] g = "verify"      -> f.is = "good" \/ (f.form = "other" /\ f.is = "unknown")
      [] g = "snippets"    -> \/ f.form = "sketch"
                              \/ f.form = "build" /\ f.is # "unknown"
                              \/ f.form = "run" /\ f.is = "good"
      [] OTHER             -> f.is = "good"

(* tools/cmd: a gate passes exactly when each of its items holds: no command that could *)
(* not find out passes for one that found nothing, and no empty list for a clean one.   *)
PassesTruly ==
    gate # "audit" /\ verdict \in {"pass", "fail"} =>
        (verdict = "pass" <=> /\ \A i \in 1..Length : Holds(gate, items[i])
                              /\ Length > 0 \/ gate \notin NeedsOne)
(* auditRun: "a closing task without a Verify command, or one whose command fails, leaves *)
(* the id without a passing test"; an audit that passes left none.                        *)
AuditCloses ==
    gate = "audit" /\ verdict = "pass" => \A i \in 1..Length :
        LET id == items.ids[i] IN
            id.recorded \/ \E j \in DOMAIN id.owners : items.command[id.owners[j]] \in {"good", "self"}
(* vuln and floor: "a killed run never leaves an upgraded go.mod in the tree". *)
TreeUntouched == "tree" \notin touched

GatesTell == PassesTruly /\ AuditCloses /\ TreeUntouched

(* floor: "With -libs the command also tests each module against newer library versions". *)
FloorStillTested ==
    gate = "floor -libs" /\ verdict = "pass" => \A i \in 1..Length : items[i].is = "good"
=============================================================================
