------------------------------ MODULE ScoreMap ------------------------------
(***************************************************************************)
(* wlog map (cmd/wlog): the rules each HTTP handler is checked against, the *)
(* score, and the gate of a build that compares it with a baseline.  The    *)
(* code of the application changes between runs; a run reads the baseline,  *)
(* and writes the map that later becomes one.                               *)
(*                                                                         *)
(* The text of a handler is the set of facts the rules look for in it.      *)
(***************************************************************************)
EXTENDS Naturals, FiniteSets, FiniteSetsExt

CONSTANTS Handlers,
          Bodies,       \* sets of facts
          RouteOf,      \* of each handler: "read", "write" or "sensitive"
          NameOf,       \* function and route, by which a baseline knows a handler
          Depth,        \* how many imports away from the patterns its package is
          Rounds,       \* of loadLocal
          MinScores,    \* what -min-score and min_score may be; 0 is no gate
          MaxRuns, None

Facts == {"sets", "fails", "reports", "guided", "swallows", "prints", "denied", "near",
          "literal", "audits", "excused", "unexplained"}

ScoreMapAssumption ==
    /\ Bodies \subseteq SUBSET Facts /\ 0 \in MinScores /\ MinScores \subseteq Nat
    /\ RouteOf \in [Handlers -> {"read", "write", "sensitive"}]

VARIABLES
    code,        \* [body: of each handler, wrapped: where the middleware is, builds: BOOLEAN]
    config,      \* min_score of wlog.map.yaml
    baseline,    \* "file" or "git": what the build passes as -baseline
    files,       \* the map at the path of -out, and at the path of -baseline
    head,        \* the map git has
    runs,
    run          \* the last run

vars == <<code, config, baseline, files, head, runs, run>>

----------------------------------------------------------------------------
(* rules.Evaluate.  A check that had nothing to look at is not applicable.      *)
Check(rule, weight, applicable, pass) ==
    [rule |-> rule, weight |-> weight, applicable |-> applicable, pass |-> pass,
     suggestion |-> FALSE, excused |-> FALSE]
(* suggest and passSuggestion leave Applicable false. *)
Suggest(rule, pass) == [Check(rule, 0, FALSE, pass) EXCEPT !.suggestion = TRUE]

Has(facts, f) == f \in facts
IsWrite(h)    == RouteOf[h] # "read"

(* One rule each.  sees: whether the call of Middleware is in the packages searched. *)
Coverage(sees)        == Check("coverage", 30, TRUE, sees)
ContextSet(facts)     == Check("context", 20, TRUE, facts \cap {"sets", "reports", "audits"} # {})
ErrorsReachWlog(facts) ==
    Check("errors", 15, Has(facts, "fails"), {"fails", "reports"} \subseteq facts)
ErrorGuidance(facts)  ==
    Check("guidance", 15, Has(facts, "reports"), {"reports", "guided"} \subseteq facts)
(* An error path: it returns an error, reports one, or discards one. *)
SwallowedError(facts) ==
    LET path == facts \cap {"fails", "reports", "swallows"} # {}
    IN  Check("swallowed", 15, path, path /\ ~Has(facts, "swallows"))
SensitiveAudit(facts) == Check("sensitive", 40, TRUE, Has(facts, "audits"))
NoPrint(facts)        == Check("no_print", 10, TRUE, ~Has(facts, "prints"))
NoDenylisted(facts)   == Check("denylist", 5, TRUE, ~Has(facts, "denied"))
KeysStrict(facts)     == Check("strict_keys", 0, TRUE, ~Has(facts, "near"))
UseCatalog(facts)     == Suggest("use_catalog", ~Has(facts, "literal"))
AuditCoverage(h, facts) == Suggest("audit_coverage", ~IsWrite(h) \/ Has(facts, "audits"))

Plain(h, facts, sees) ==
    {Coverage(sees), ContextSet(facts), ErrorsReachWlog(facts), ErrorGuidance(facts),
     SwallowedError(facts), NoPrint(facts), NoDenylisted(facts), KeysStrict(facts),
     UseCatalog(facts), AuditCoverage(h, facts)}
    \cup (IF RouteOf[h] = "sensitive" THEN {SensitiveAudit(facts)} ELSE {})

(* applyIgnores, for a directive that names no_print: with a reason it marks the    *)
(* failure, without one it is a finding of its own.                                 *)
Ignores(facts, checks) ==
    {IF Has(facts, "excused") /\ c.rule = "no_print" /\ c.applicable /\ ~c.pass
     THEN [c EXCEPT !.excused = TRUE] ELSE c : c \in checks}
    \cup (IF Has(facts, "unexplained") THEN {Check("ignore_reason", 0, TRUE, FALSE)} ELSE {})
Evaluate(h, facts, sees) == Ignores(facts, Plain(h, facts, sees))

(* score.Total, with the class weights 1, 1.5 and 2 doubled, and math.Round. *)
Class(h) == CASE RouteOf[h] = "sensitive" -> 4 [] RouteOf[h] = "write" -> 3
              [] RouteOf[h] = "read" -> 2
Points(h, checks) == Class(h) * MapThenSumSet(LAMBDA c : c.weight, checks)
OverAll(checks)    == checks                                   \* mutant: n/a counts
Applicable(checks) == [h \in DOMAIN checks |-> {c \in checks[h] : c.applicable}]
Passing(checks)    == [h \in DOMAIN checks |-> {c \in checks[h] : c.pass}]
SumPoints(checks)  == MapThenSumSet(LAMBDA h : Points(h, checks[h]), DOMAIN checks)
Total(all) ==
    LET checks     == Applicable(all)
        applicable == SumPoints(checks)
    IN  IF applicable = 0 THEN 100
        ELSE (200 * SumPoints(Passing(checks)) + applicable) \div (2 * applicable)

(* entry.Load: the packages of the patterns, and what they import in so many rounds. *)
Found == {h \in Handlers : Depth[h] <= Rounds}
Checks(c) == [h \in Found |-> Evaluate(h, c.body[h], c.wrapped # "nowhere")]

Failures(checks) ==
    UNION {{[handler |-> h, check |-> c] : c \in {k \in checks[h] : k.applicable /\ ~k.pass}} :
               h \in DOMAIN checks}

(* The same rules as a vet analyzer, which sees one package; a suggestion comes after the *)
(* test of Applicable.                                                                    *)
Vet(h, c, suggest) ==
    {k \in Evaluate(h, c.body[h], c.wrapped = h) :
        k.applicable /\ ~k.pass /\ (k.suggestion => suggest)}
(* report.SARIF *)
Sarif(checks) == {f \in Failures(checks) : ~f.check.excused}

----------------------------------------------------------------------------
NoMap == [score |-> 0, checks |-> [h \in {} |-> {}]]
NoRun == [exit |-> None, score |-> 0, against |-> None, checks |-> NoMap.checks,
          strict |-> FALSE, min |-> 0, wrote |-> FALSE]

Codes == [body : [Handlers -> Bodies], wrapped : Handlers \cup {"nowhere"}, builds : BOOLEAN]
Init ==
    /\ code \in {c \in Codes : c.builds /\ \E b \in Bodies : \A h \in Handlers : c.body[h] = b}
    /\ config = 0 /\ baseline \in {"file", "git"}
    /\ files = [p \in {"out", "base"} |-> None] /\ head = None
    /\ runs = 0 /\ run = NoRun

(* The developer; what a handler that is not found says is never read. *)
Edit ==
    /\ runs < MaxRuns
    /\ \/ \E h \in Found, b \in Bodies : code' = [code EXCEPT !.body[h] = b]
       \/ \E w \in Handlers \cup {"nowhere"} : code' = [code EXCEPT !.wrapped = w]
       \/ code' = [code EXCEPT !.builds = ~@]
    /\ run' = NoRun
    /\ UNCHANGED <<config, baseline, files, head, runs>>
Configure ==
    /\ runs = 0
    /\ config' \in MinScores \ {config}
    /\ UNCHANGED <<code, baseline, files, head, runs, run>>

(* compareStrict *)
ByScore(checks, was) == {}                                   \* mutant: the total only
Regressions(checks, was) ==
    {f \in Failures(checks) :
        \E h \in DOMAIN was.checks :
            /\ NameOf[h] = NameOf[f.handler]
            /\ \E c \in was.checks[h] : c.rule = f.check.rule /\ c.pass}

(* -min-score wins over the file, 0 included. *)
MinScore(flag) == IF flag = None THEN config ELSE flag

Cleared(score, checks, min, was, strict) ==
    /\ min = 0 \/ score >= min
    /\ was # None => score >= was.score
    /\ (was # None /\ strict) => Regressions(checks, was) = {}

(* What a run reads as its baseline: git show of the path of -out. *)
Against(spec) == CASE spec = None -> None [] spec = "git" -> head
                   [] OTHER -> files[spec]
(* -out and -baseline name the same file. *)
Distinct(a, b) == TRUE                                       \* mutant
Apart(spec, out) == spec # out

(* run of package main.  spec is -baseline, out is -out. *)
Ends(exit, score, was, checks, strict, min, writes) ==
    run' = [exit |-> exit, score |-> score, against |-> was, checks |-> checks,
            strict |-> strict, min |-> min, wrote |-> writes]
CannotStart(spec, out, strict) ==
    \/ strict /\ spec = None
    \/ ~code.builds \/ Found = {}
    \/ spec # None /\ Against(spec) = None
    \/ ~Apart(spec, out)
Writes(cleared, noWrite) == cleared /\ ~noWrite
Gate(spec, out, strict, flag, noWrite, checks, score) ==
    LET min     == MinScore(flag)
        was     == Against(spec)
        cleared == Cleared(score, checks, min, was, strict)
        writes  == Writes(cleared, noWrite)
    IN  /\ ~CannotStart(spec, out, strict)
        /\ Ends(IF cleared THEN 0 ELSE 1, score, was, checks, strict, min, writes)
        /\ files' = IF writes THEN [files EXCEPT ![out] = [score |-> score, checks |-> checks]]
                    ELSE files
Refuse(spec, out, strict) ==
    /\ CannotStart(spec, out, strict)
    /\ Ends(2, 0, None, NoMap.checks, strict, 0, FALSE)
    /\ UNCHANGED files

(* A build passes -baseline once there is one, and writes beside it. *)
Spec0 == IF head # None /\ baseline = "git" THEN {"git"}
         ELSE IF files["base"] # None /\ baseline = "file" THEN {"base"} ELSE {None}
Map ==
    /\ runs < MaxRuns /\ runs' = runs + 1
    /\ LET checks == Checks(code)
           score  == Total(checks)
       IN \E spec \in Spec0, out \in {"out", "base"}, strict \in BOOLEAN,
             flag \in MinScores \cup {None}, noWrite \in BOOLEAN :
              /\ out = "base" => spec = "base"
              /\ \/ Gate(spec, out, strict, flag, noWrite, checks, score)
                 \/ Refuse(spec, out, strict)
    /\ UNCHANGED <<code, config, baseline, head>>

(* The map that was written becomes the baseline. *)
Promote ==
    /\ files["out"] # None
    /\ IF baseline = "git" THEN head' = files["out"] /\ UNCHANGED files
       ELSE files' = [files EXCEPT !["base"] = files["out"]] /\ UNCHANGED head
    /\ run' = NoRun
    /\ UNCHANGED <<code, config, baseline, runs>>

Next == Edit \/ Configure \/ Map \/ Promote
Spec == Init /\ [][Next]_vars

----------------------------------------------------------------------------
Current == IF baseline = "git" THEN head ELSE files["base"]

(* The score of the baseline never falls, whatever is edited, run and promoted        *)
(* (readBaselineAt, and the write behind the gate).                                   *)
FallsNot   == Current # None => Current'.score >= Current.score
NeverFalls == [][FallsNot]_vars

(* A handler keeps what a strict baseline says of it: in a map that passed -strict, a *)
(* rule that passed in the baseline passes, or does not apply any more (compareStrict); *)
(* and a run that failed has a reason, unless two handlers share a name.              *)
PassedIn(was, h, rule) == \E c \in was.checks[h] : c.rule = rule /\ c.pass
Alike(h) == \E g \in Handlers \ {h} : NameOf[g] = NameOf[h]
Judged ==
    /\ (run.exit = 0 /\ run.strict) =>
           \A h \in DOMAIN run.checks : \A c \in run.checks[h] :
               c.applicable /\ PassedIn(run.against, h, c.rule) => c.pass
    /\ run.exit = 1 =>
           \/ run.score < run.min
           \/ run.against # None /\ run.score < run.against.score
           \/ run.against # None /\ run.strict
              /\ \E f \in Failures(run.checks) :
                     PassedIn(run.against, f.handler, f.check.rule) \/ Alike(f.handler)

(* In an application of a few handlers, where no rounding hides a failure, 100 says    *)
(* that every rule with points that applies passes: one with nothing to check neither   *)
(* gives nor takes points (score.Total).                                               *)
Scored ==
    run.exit \in {0, 1} =>
        (run.score = 100 <=> \A f \in Failures(run.checks) : f.check.weight = 0)

(* The analyzer and the map find the same, in a package that calls Middleware itself;  *)
(* SARIF holds what is not excused (analyzer.run, sarifResults).                       *)
Agree ==
    run.exit \in {0, 1} =>
        LET failed == Failures(run.checks)
            told   == Sarif(run.checks) IN
        \A h \in DOMAIN run.checks :
            LET vet == {k.rule : k \in Vet(h, code, FALSE)}
                map == {f.check.rule : f \in {g \in failed : g.handler = h}}
            IN  /\ vet \ {"coverage"} = map \ {"coverage"}
                /\ "coverage" \in map => "coverage" \in vet
                /\ {f.check.rule : f \in {g \in told : g.handler = h}} \subseteq map

MapTells == Judged /\ Scored /\ Agree

----------------------------------------------------------------------------
(* What the documents say, and the code does not do.                                   *)

(* docs/customization.md: "The analyzer takes -suggest to report suggestions". *)
SuggestionsShown ==
    \A h \in Handlers : \A k \in Evaluate(h, code.body[h], TRUE) :
        (k.suggestion /\ ~k.pass) => k \in Vet(h, [code EXCEPT !.wrapped = h], TRUE)
=============================================================================
