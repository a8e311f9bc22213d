------------------------------ MODULE Release ------------------------------
(***************************************************************************)
(* Releasing the workspace: tools/cmd/release plans the tags of every       *)
(* module, rewrites the requires, commits and tags, one step at a time;     *)
(* any step may fail and end the run with what it has done so far.          *)
(* tools/cmd/requires checks the go.mod files, tools/internal/workspace     *)
(* says which modules a change touches.                                     *)
(*                                                                         *)
(* A module is its directory and its import path: a sequence of names, the  *)
(* root module the empty one.                                              *)
(***************************************************************************)
EXTENDS Naturals, FiniteSets, Sequences, SequencesExt

CONSTANTS Mods,        \* the modules of go.work, in the order of their directories
          Needs,       \* what each of them requires at first
          Versions, Old,
          MaxMoves,    \* edits and releases the maintainer begins
          MaxCommits,
          None

Root    == <<>>
Members == ToSet(Mods)
Places  == {Append(m, "x") : m \in Members}      \* a file and a package of each module

VARIABLES
    tree,      \* the working tree: version.txt, and of each module its imports and requires
    index,     \* what git add staged
    head,      \* the last commit, with its number
    tags,      \* the commit of each tag, or None
    changed,   \* files changed since head, the go.mod files left out
    moves,
    pc, version, plan, todo    \* of the release that runs

repo == <<tree, index, head, tags, changed, moves>>
proc == <<pc, version, plan, todo>>
vars == <<repo, proc>>

ReleaseAssumption == Root \in Members /\ Old \notin Versions /\ MaxCommits \in Nat

Require(v) == [version |-> v, replaced |-> TRUE, indirect |-> FALSE]
(* The modules a go.mod requires. *)
Requires(t, m) == {r \in Members : t.requires[m][r] # None}

----------------------------------------------------------------------------
(* tools/internal/workspace and tools/cmd/requires.                           *)

(* The module that holds a path: the longest one. *)
Holders(among, p) == {m \in among : IsPrefix(m, p)}
Owner(among, p)   == CHOOSE m \in Holders(among, p) : \A n \in Holders(among, p) : Len(n) <= Len(m)

(* Affected: the touched modules and whatever requires one, over any chain.  The mutant *)
(* stops after the first round.                                                         *)
Joined(t, ms)    == ms \cup {m \in Members : Requires(t, m) \cap ms # {}}
OneRound(t, ms)  == Joined(t, ms)
RECURSIVE Dependents(_, _)
Dependents(t, ms) == IF Joined(t, ms) = ms THEN ms ELSE Dependents(t, Joined(t, ms))
Touched ==
    {Owner(Members, f) : f \in changed} \cup {m \in Members : tree.requires[m] # head.tree.requires[m]}
Affected == Dependents(tree, Touched)

(* checkModule of requires: the four codes. *)
Imported(t, m) == {Owner(Members, p) : p \in t.imports[m]} \ {m}
Direct(t, m) ==
    {Owner(Requires(t, m), p) : p \in {q \in t.imports[m] : Holders(Requires(t, m), q) # {}}}
Faults(t, m) ==
    LET asked == Imported(t, m) \cap Requires(t, m)
    IN {<<"REQ4", r>> : r \in {s \in Requires(t, m) \cap Direct(t, m) : t.requires[m][s].indirect}} \cup
       {<<"REQ1", r>> : r \in Imported(t, m) \ Requires(t, m)} \cup
       {<<"REQ2", r>> : r \in {s \in asked : t.requires[m][s].version # t.version}} \cup
       {<<"REQ3", r>> : r \in {s \in asked : ~ t.requires[m][s].replaced}}
Clean(t, codes) == \A m \in Members : \A f \in Faults(t, m) : f[1] \notin codes

----------------------------------------------------------------------------
(* plan: the root, then every module after those it requires, by rounds over the *)
(* directories; a cycle has no order.  Alphabetical is a mutant.                 *)
Alphabetical(t) == Mods
Round(t, order) ==
    FoldLeft(LAMBDA o, m : IF m \in ToSet(o) \/ ~ Requires(t, m) \subseteq ToSet(o) THEN o ELSE Append(o, m),
             order, Mods)
RECURSIVE Settled(_, _)
Settled(t, order) == IF Round(t, order) = order THEN order ELSE Settled(t, Round(t, order))
TagOrder(t) == Settled(t, <<Root>>)

(* The requires to rewrite.  OnlyOld, a mutant, rewrites those of the last release. *)
OnlyOld(t, m, v) == {r \in Requires(t, m) : t.requires[m][r].version = t.version}
Changes(t, m, v) == {r \in Requires(t, m) : t.requires[m][r].version # v}
Edits(t, v)      == {<<m, r>> \in Members \X Members : r \in Changes(t, m, v)}

(* git tag refuses a name that exists. *)
Taken(m, v)  == tags[m, v] # None

----------------------------------------------------------------------------
Bare(requires) ==
    [version |-> Old, imports |-> [m \in Members |-> {Append(r, "x") : r \in requires[m]}],
     requires |-> [m \in Members |-> [r \in Members |->
                      IF r \in requires[m] THEN Require(Old) ELSE None]]]
Init ==
    /\ tree = Bare(Needs) /\ index = tree /\ head = [number |-> 0, tree |-> tree]
    /\ tags = [t \in Members \X Versions |-> None] /\ changed = {} /\ moves = 0
    /\ pc = "idle" /\ version = None /\ plan = <<>> /\ todo = {}

(* The maintainer, between two runs: imports a package, writes a require line, touches *)
(* a file, commits.                                                                    *)
Idles == pc = "idle" /\ UNCHANGED proc
Edit == moves < MaxMoves /\ moves' = moves + 1 /\ UNCHANGED <<index, head, tags>>
Import(m, p) ==
    /\ Idles /\ Edit /\ p \notin tree.imports[m]
    /\ tree' = [tree EXCEPT !.imports[m] = @ \cup {p}]
    /\ changed' = changed \cup {Append(m, "x")}
WriteRequire(m, r, line) ==
    /\ Idles /\ Edit /\ m # Root /\ r # m /\ tree.requires[m][r] # line
    /\ tree' = [tree EXCEPT !.requires[m][r] = line] /\ UNCHANGED changed
Touch(f) == Idles /\ Edit /\ f \notin changed /\ changed' = changed \cup {f} /\ UNCHANGED tree
Snapshot(t) == head' = [number |-> head.number + 1, tree |-> t]
Develop ==
    /\ Idles /\ head.number < MaxCommits /\ tree # head.tree
    /\ Snapshot(tree) /\ index' = tree /\ changed' = {} /\ UNCHANGED <<tree, tags, moves>>

(* run: the plan, which the maintainer types back or does not. *)
Plan(v) ==
    /\ pc = "idle" /\ Len(TagOrder(tree)) = Len(Mods) /\ moves < MaxMoves /\ moves' = moves + 1
    /\ pc' = "ask" /\ version' = v /\ plan' = TagOrder(tree) /\ todo' = Edits(tree, v)
    /\ UNCHANGED <<tree, index, head, tags, changed>>
Stops == pc' = "idle" /\ version' = None /\ plan' = <<>> /\ todo' = {}
Refuse  == pc = "ask" /\ Stops /\ UNCHANGED repo
Confirm == pc = "ask" /\ pc' = "edit" /\ UNCHANGED <<repo, version, plan, todo>>

(* apply, one command at a time; the edits in a fixed order. *)
EditRequire ==
    /\ pc = "edit"
    /\ todo # {}
    /\ LET e == CHOOSE e \in todo : TRUE IN
        /\ tree' = [tree EXCEPT !.requires[e[1]][e[2]].version = version]
        /\ todo' = todo \ {e}
    /\ UNCHANGED <<index, head, tags, changed, moves, pc, version, plan>>
VersionFile == <<"tools", "x">>
WriteVersion ==
    /\ pc = "edit" /\ todo = {} /\ pc' = "add"
    /\ tree' = [tree EXCEPT !.version = version] /\ changed' = changed \cup {VersionFile}
    /\ UNCHANGED <<index, head, tags, moves, version, plan, todo>>
Add ==
    /\ pc = "add" /\ pc' = "commit" /\ index' = tree
    /\ UNCHANGED <<tree, head, tags, changed, moves, version, plan, todo>>
Commit ==
    /\ pc = "commit" /\ head.number < MaxCommits /\ index # head.tree
    /\ pc' = "tag" /\ Snapshot(index) /\ changed' = {}
    /\ UNCHANGED <<tree, index, tags, moves, version, plan, todo>>
NothingToCommit == pc = "commit" /\ index = head.tree /\ Stops /\ UNCHANGED repo
Tag ==
    /\ pc = "tag" /\ plan # <<>> /\ ~ Taken(Head(plan), version)
    /\ tags' = [tags EXCEPT ![Head(plan), version] = head] /\ plan' = Tail(plan)
    /\ UNCHANGED <<tree, index, head, changed, moves, pc, version, todo>>
TagExists == pc = "tag" /\ plan # <<>> /\ Taken(Head(plan), version) /\ Stops /\ UNCHANGED repo
(* Any command may fail, or the process die, and leave what is done. *)
Fail == pc \in {"edit", "add", "commit", "tag"} /\ plan # <<>> /\ Stops /\ UNCHANGED repo
Done == pc = "tag" /\ plan = <<>> /\ Stops /\ UNCHANGED repo

Lines == {None, Require(Old)} \cup {[version |-> v, replaced |-> FALSE, indirect |-> TRUE] : v \in Versions}
Next ==
    \/ \E m \in Members, p \in Places : Import(m, p)
    \/ \E m, r \in Members, line \in Lines : WriteRequire(m, r, line)
    \/ \E f \in Places : Touch(f)
    \/ Develop
    \/ \E v \in Versions : Plan(v)
    \/ Refuse \/ Confirm \/ EditRequire \/ WriteVersion \/ Add \/ Commit \/ NothingToCommit
    \/ Tag \/ TagExists \/ Fail \/ Done

----------------------------------------------------------------------------
Tagged == {t \in Members \X Versions : tags[t] # None}

(* apply: "a release never tags a module whose require edit did not land".  Whatever *)
(* failed and was run again, a tag names a commit whose version.txt and requires, in *)
(* every module, are of its version.                                                 *)
TagsTell ==
    \A t \in Tagged : LET c == tags[t].tree IN
        c.version = t[2] /\ \A m \in Members : \A r \in Requires(c, m) : c.requires[m][r].version = t[2]
(* tagOrder: a tag never points at a sibling that has no tag yet. *)
SiblingsFirst == \A t \in Tagged : \A r \in Requires(tags[t].tree, t[1]) : <<r, t[2]>> \in Tagged
(* The tags of one version are tags of one commit, over any number of failed runs. *)
OneCommit == \A t, u \in Tagged : t[2] = u[2] => tags[t] = tags[u]
(* Affected and requires: while requires finds no import without its require line, a *)
(* change reaches no module, over any chain of imports, that Affected leaves out.     *)
RECURSIVE Builds(_)
Builds(ms) ==
    LET more == ms \cup {m \in Members : Imported(tree, m) \cap ms # {}}
    IN IF more = ms THEN ms ELSE Builds(more)
Reached == Builds({m \in Members : \E f \in changed : IsPrefix(m, f) /\ Len(f) = Len(m) + 1})
AffectedCovers == Clean(tree, {"REQ1"}) => Reached \subseteq Affected

ReleasesTell == TagsTell /\ SiblingsFirst /\ OneCommit /\ AffectedCovers

(* run: "a mistake in an argument never leaves a half-finished release behind". *)
VersionIsNew == pc \in {"edit", "add", "commit"} => ~ Taken(Root, version)
=============================================================================
