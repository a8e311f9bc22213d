------------------------------ MODULE Scaffold ------------------------------
(***************************************************************************)
(* wlog init, wlog doctor and wlog agents in the directory of a Go module   *)
(* that its owner goes on editing.                                         *)
(*                                                                         *)
(* init plans every change from what it reads, runs go mod tidy on a copy,  *)
(* takes a snapshot, writes file by file, and builds and runs doctor over   *)
(* the result; a failure on the way restores the snapshot.  agents writes a *)
(* fenced block into AGENTS.md and a skill file.  Any write may fail and    *)
(* the process may be killed between two of them, or within one.           *)
(*                                                                         *)
(* A file is the version its owner last saved and what the tools look for   *)
(* in it.                                                                  *)
(***************************************************************************)
EXTENDS Naturals, FiniteSets, Sequences, SequencesExt

CONSTANTS Layouts,      \* the Go sources of an application at first: a.go and b.go
          Flags,        \* what -framework may say
          Documents,    \* AGENTS.md at first: a sequence of "text", "start" and "end"
          Links,        \* the files that are symbolic links
          MaxEdits,     \* files the owner saves while a tool runs
          MaxFails,     \* steps of the tools that fail
          None

GoFiles == <<"a.go", "b.go">>
Paths   == {"setup", "env", "mod"} \cup ToSet(GoFiles)

VARIABLES
    files,       \* each file, or None
    agentsMD, skill,
    pc, plan, todo, saved,
    edits, fails,
    code,        \* of the last run: None while it runs, and after a kill
    torn,        \* files cut short
    before,      \* history: files and AGENTS.md when the run began,
    stepped,     \* the files that the owner saved since,
    unrestored   \* and those that restore failed to write

disk == <<files, agentsMD, skill, torn>>
vars == <<disk, pc, plan, todo, saved, edits, fails, code, before, stepped, unrestored>>

ScaffoldAssumption == MaxEdits \in Nat /\ MaxFails \in Nat /\ Links \subseteq Paths /\ "auto" \in Flags

----------------------------------------------------------------------------
(* A Go file: the frameworks it imports, what it declares, its routers and servers in order. *)
(* A site is covered by its owner or by init; what the owner did is seen in the block of the *)
(* router, or not.                                                                          *)
Site(kind, covers, seen) == [kind |-> kind, covers |-> covers, seen |-> seen]
Source(imports, declares, sites) ==
    [saved |-> 0, imports |-> imports, declares |-> declares, sites |-> sites, compiles |-> TRUE,
     faults |-> {}]     \* "drains", "redactor" or "score": the checks its own code fails

Here(t) == {p \in ToSet(GoFiles) : t[p] # None}
Each(t) == SelectSeq(GoFiles, LAMBDA p : t[p] # None)

(* detectFramework: a router wins over net/http, whichever file comes first. *)
Detect(t) ==
    LET routed == SelectSeq(Each(t), LAMBDA p : "chi" \in t[p].imports)
    IN IF routed # <<>> THEN "chi"
       ELSE IF \E p \in Here(t) : "nethttp" \in t[p].imports THEN "nethttp" ELSE "none"

(* rewrite: every server of the file is wrapped; of the routers, the first that shows no wlog. *)
Wrapped(f) == [f EXCEPT !.sites = [i \in DOMAIN @ |->
                  IF @[i].kind = "nethttp" THEN [@[i] EXCEPT !.covers = @ \cup {"init"}] ELSE @[i]]]
Open(f, fw) == {i \in DOMAIN f.sites : /\ f.sites[i].kind = fw /\ ~ f.sites[i].seen
                                       /\ "init" \notin f.sites[i].covers}
Spliced(f, fw) ==
    LET i == CHOOSE i \in Open(f, fw) : \A j \in Open(f, fw) : i <= j
    IN [f EXCEPT !.sites[i].covers = @ \cup {"init"}]
Changes(f, fw) == IF fw = "nethttp" THEN \E i \in DOMAIN f.sites : f.sites[i].kind = fw ELSE Open(f, fw) # {}
Rewrite(f, fw) == IF fw = "nethttp" THEN Wrapped(f) ELSE Spliced(f, fw)
AlreadyUses(f, fw) == fw # "nethttp" /\ \E i \in DOMAIN f.sites : f.sites[i].kind = fw /\ f.sites[i].seen
(* patchRouter: the first file that changes or already shows wlog; without one there is no plan. *)
Patched(t, fw) ==
    LET able == SelectSeq(Each(t), LAMBDA p : Changes(t[p], fw) \/ AlreadyUses(t[p], fw))
    IN IF able = <<>> THEN "no router"
       ELSE IF Changes(t[Head(able)], fw) THEN Head(able) ELSE "nothing"

Generated(fw) == {"NewLogger"} \cup (CASE fw = "nethttp" -> {"WrapHandler"} [] fw = "chi" -> {"LoggerMiddleware"}
                                       [] OTHER -> {})
NamesTaken(t, fw) == \E p \in Here(t) : t[p].declares \cap Generated(fw) # {}
(* mergeEnvExample: the keys the file lacks.  Replaced, a mutant, writes its own. *)
Keys == {"WLOG_DRAINS"}
Replaced(env)   == [saved |-> 0, keys |-> Keys]
MergeEnv(env)   == IF env = None THEN [saved |-> 0, keys |-> Keys] ELSE [env EXCEPT !.keys = @ \cup Keys]

(* buildPlan: the writes in their order, or a refusal: <<>>. *)
Framework(t, flag) == IF flag = "auto" THEN Detect(t) ELSE flag
Refuses(t, flag) ==
    LET fw == Framework(t, flag) IN
        \/ t["setup"] # None \/ Here(t) = {} \/ NamesTaken(t, fw) \/ fw \notin {"none", "chi", "nethttp"}
        \/ fw # "none" /\ Patched(t, fw) = "no router"
Planned(t, flag) ==
    LET fw     == Framework(t, flag)
        router == IF fw = "none" THEN "nothing" ELSE Patched(t, fw)
    IN << <<"setup", [saved |-> 0, fw |-> fw]>>, <<"env", MergeEnv(t["env"])>> >>
       \o (IF router \in Paths THEN << <<router, Rewrite(t[router], fw)>> >> ELSE <<>>)
       \o (IF t["mod"].requires THEN <<>> ELSE << <<"mod", [t["mod"] EXCEPT !.requires = TRUE]>> >>)

----------------------------------------------------------------------------
(* doctor: the checks that may fail; the rest only warn.  A site of init calls what the     *)
(* setup file declares, and any middleware call of the program covers all its handlers.      *)
Sites(t) == UNION {ToSet(t[p].sites) : p \in Here(t)}
Loads(t) ==
    /\ \A p \in Here(t) : t[p].compiles
    /\ t["setup"] # None => t["mod"].requires
    /\ \A s \in Sites(t) : "init" \in s.covers => t["setup"] # None /\ t["setup"].fw = s.kind
Covered(t) == \/ t["setup"] # None /\ t["setup"].fw # "none"
              \/ \E s \in Sites(t) : "user" \in s.covers
CheckLoad(t)       == Loads(t)
CheckModule(t)     == t["mod"].requires
CheckMiddleware(t) == Loads(t) => Sites(t) = {} \/ Covered(t)
NoFault(t, fault)  == \A p \in Here(t) : fault \notin t[p].faults
CheckDrainEnv(t)   == NoFault(t, "drains")
CheckRedactor(t)   == NoFault(t, "redactor")
CheckScore(t)      == Loads(t) => NoFault(t, "score")
(* Inspect and Run: a warning alone exits 0. *)
Inspect(t) == /\ CheckLoad(t) /\ CheckModule(t) /\ CheckMiddleware(t)
              /\ CheckDrainEnv(t) /\ CheckRedactor(t) /\ CheckScore(t)
Doctor(t)  == IF Inspect(t) THEN 0 ELSE 1

----------------------------------------------------------------------------
(* agents: the first start and the first end fence.  LastEnd is a mutant.     *)
FirstOf(doc, tag) == CHOOSE i \in DOMAIN doc : doc[i] = tag /\ \A j \in 1..(i - 1) : doc[j] # tag
LastEnd(doc) == CHOOSE i \in DOMAIN doc : doc[i] = "end" /\ \A j \in (i + 1)..Len(doc) : doc[j] # "end"
EndFence(doc) == FirstOf(doc, "end")
Has(doc, tag) == tag \in ToSet(doc)
Fenced == <<"start", "block", "end">>
Merge(doc) ==
    IF ~ Has(doc, "start") /\ ~ Has(doc, "end") THEN doc \o Fenced
    ELSE IF ~ Has(doc, "start") \/ ~ Has(doc, "end") \/ EndFence(doc) < FirstOf(doc, "start") THEN <<>>
    ELSE SubSeq(doc, 1, FirstOf(doc, "start") - 1) \o Fenced \o SubSeq(doc, EndFence(doc) + 1, Len(doc))

----------------------------------------------------------------------------
Init ==
    /\ \E a, b \in Layouts, e \in {None, [saved |-> 0, keys |-> {"TOKEN"}]}, r \in BOOLEAN :
          files = [p \in Paths |-> CASE p = "a.go" -> a [] p = "b.go" -> b [] p = "env" -> e
                                     [] p = "mod" -> [saved |-> 0, requires |-> r] [] OTHER -> None]
    /\ IF Here(files) = {} THEN agentsMD \in Documents /\ skill \in {None, "ours", "edited"}
       ELSE agentsMD = <<>> /\ skill = None
    /\ pc = "idle" /\ plan = <<>> /\ todo = <<>> /\ saved = <<>>
    /\ edits = 0 /\ fails = 0 /\ code = None /\ torn = {}
    /\ before = [files |-> files, doc |-> agentsMD] /\ stepped = {} /\ unrestored = {}

Fails == fails < MaxFails /\ fails' = fails + 1
Ends(c) == pc' = "done" /\ code' = c
Past == UNCHANGED <<edits, before, stepped>>

(* The owner saves a file, or writes wlog_setup.go by hand, while a tool runs. *)
Saves ==
    /\ pc \notin {"idle", "done"} /\ edits < MaxEdits /\ edits' = edits + 1
    /\ UNCHANGED <<agentsMD, skill, torn, pc, plan, todo, saved, fails, code, before, unrestored>>
Save(p) ==
    /\ Saves /\ files[p] # None /\ p \notin torn
    /\ files' = [files EXCEPT ![p].saved = @ + 1] /\ stepped' = stepped \cup {p}
WriteSetup ==
    /\ Saves /\ files["setup"] = None
    /\ files' = [files EXCEPT !["setup"] = [saved |-> 1, fw |-> "chi"]] /\ stepped' = stepped \cup {"setup"}

(* init: the plan, on paper without --yes. *)
Begin(flag) ==
    /\ pc = "idle"
    /\ IF Refuses(files, flag) THEN Ends(1) /\ UNCHANGED plan
       ELSE \/ Ends(0) /\ UNCHANGED plan
            \/ pc' = "tidy" /\ plan' = Planned(files, flag) /\ UNCHANGED code
    /\ UNCHANGED <<disk, todo, saved, fails, unrestored>> /\ Past
Snapshot ==
    /\ pc = "tidy" /\ pc' = "apply" /\ todo' = plan
    /\ saved' = [i \in DOMAIN plan |-> <<plan[i][1], files[plan[i][1]]>>]
    /\ UNCHANGED <<disk, plan, fails, code, unrestored>> /\ Past
TidyFails == pc = "tidy" /\ Fails /\ Ends(1) /\ UNCHANGED <<disk, plan, todo, saved, unrestored>> /\ Past

(* apply: a file is renamed over the old one, but a link is written in place. *)
Target == Head(todo)[1]
InPlace == Target \in Links /\ files[Target] # None
Lands(content) == files' = [files EXCEPT ![Target] = content] /\ torn' = torn \ {Target} /\ todo' = Tail(todo)
Tears == Target \notin torn /\ torn' = torn \cup {Target} /\ UNCHANGED <<files, todo, agentsMD, skill>>
Apply ==
    /\ pc = "apply" /\ todo # <<>>
    /\ IF InPlace /\ Target \notin torn THEN Tears
       ELSE Lands(Head(todo)[2]) /\ UNCHANGED <<agentsMD, skill>>
    /\ UNCHANGED <<pc, plan, saved, fails, code, unrestored>> /\ Past
(* What is restored, in the order of restore: the snapshot backwards.  Created, a mutant, *)
(* leaves the files that were not there.                                                  *)
Created(s) == SelectSeq(Reverse(s), LAMBDA w : w[2] # None)
Restores(s) == Reverse(s)
ApplyFails ==
    /\ pc = "apply" /\ todo # <<>> /\ Fails /\ pc' = "restore" /\ todo' = Restores(saved)
    /\ UNCHANGED <<disk, plan, saved, code, unrestored>> /\ Past
(* verify: the build and doctor. *)
Verify ==
    /\ pc = "apply" /\ todo = <<>>
    /\ \/ Doctor(files) = 0 /\ Ends(0) /\ UNCHANGED <<todo, fails>>
       \/ Doctor(files) # 0 /\ pc' = "restore" /\ todo' = Restores(saved) /\ UNCHANGED <<fails, code>>
       \/ Fails /\ pc' = "restore" /\ todo' = Restores(saved) /\ UNCHANGED code
    /\ UNCHANGED <<disk, plan, saved, unrestored>> /\ Past

(* restore: a file is removed or written in place; an error is passed over. *)
Restore ==
    /\ pc = "restore" /\ todo # <<>>
    /\ IF Head(todo)[2] # None /\ Target \notin torn THEN Tears
       ELSE Lands(Head(todo)[2]) /\ UNCHANGED <<agentsMD, skill>>
    /\ UNCHANGED <<pc, plan, saved, fails, code, unrestored>> /\ Past
RestoreFails ==
    /\ pc = "restore" /\ todo # <<>> /\ Fails /\ todo' = Tail(todo) /\ unrestored' = unrestored \cup {Target}
    /\ UNCHANGED <<disk, pc, plan, saved, code>> /\ Past
Restored == pc = "restore" /\ todo = <<>> /\ Ends(1)
            /\ UNCHANGED <<disk, plan, todo, saved, fails, unrestored>> /\ Past
Killed ==
    /\ pc \notin {"idle", "done"} /\ Fails /\ Ends(None)
    /\ UNCHANGED <<disk, plan, todo, saved, unrestored>> /\ Past

(* agents: everything is refused before anything is written; then each file in place. *)
Agents ==
    /\ pc = "idle"
    /\ IF Merge(agentsMD) = <<>> \/ skill = "edited" THEN Ends(1) /\ UNCHANGED plan
       ELSE pc' = "document" /\ plan' = Merge(agentsMD) /\ UNCHANGED code
    /\ UNCHANGED <<disk, todo, saved, fails, unrestored>> /\ Past
WriteDocument ==
    /\ pc = "document"
    /\ IF "AGENTS.md" \notin torn THEN torn' = torn \cup {"AGENTS.md"} /\ UNCHANGED <<agentsMD, pc>>
       ELSE torn' = torn \ {"AGENTS.md"} /\ agentsMD' = plan /\ pc' = "skill"
    /\ UNCHANGED <<files, skill, plan, todo, saved, fails, code, unrestored>> /\ Past
WriteSkill ==
    /\ pc = "skill" /\ skill' = "ours" /\ Ends(0)
    /\ UNCHANGED <<files, agentsMD, torn, plan, todo, saved, fails, unrestored>> /\ Past
WriteFails ==
    /\ pc \in {"document", "skill"} /\ Fails /\ Ends(1)
    /\ UNCHANGED <<disk, plan, todo, saved, unrestored>> /\ Past

Next ==
    \/ \E p \in Paths : Save(p)
    \/ WriteSetup
    \/ \E flag \in Flags : Begin(flag)
    \/ Snapshot \/ TidyFails \/ Apply \/ ApplyFails \/ Verify \/ Restore \/ RestoreFails \/ Restored
    \/ Killed \/ Agents \/ WriteDocument \/ WriteSkill \/ WriteFails

----------------------------------------------------------------------------
(* init: "a failure halfway leaves the tree as it was": every file that restore could write *)
(* and that the owner left alone is as before, none of them cut short.                      *)
InitRestores ==
    code = 1 /\ pc = "done" => \A p \in Paths \ (stepped \cup unrestored) :
        files[p] = before.files[p] /\ p \notin torn
(* However a run ends, even killed, a file that the owner did not save meanwhile still has    *)
(* all that he wrote, unless a write in place was cut short.                                  *)
OwnerKept ==
    \A p \in Paths \ (stepped \cup torn) : before.files[p] # None =>
        /\ files[p] # None /\ files[p].saved = before.files[p].saved
        /\ p = "env" => before.files[p].keys \subseteq files[p].keys
        /\ p \in ToSet(GoFiles) => \A i \in DOMAIN before.files[p].sites :
              before.files[p].sites[i].covers \subseteq files[p].sites[i].covers
(* init --yes: an exit of 0 leaves a module that builds, that doctor passes, and in which the *)
(* first router that showed no wlog, or every server of its file, has the middleware; a       *)
(* router whose Use of wlog init could see has no second one.                                 *)
Covers ==
    code = 0 /\ saved # <<>> /\ stepped = {} =>
        /\ Doctor(files) = 0 /\ files["setup"] # None
        /\ files["setup"].fw # "none" => \E p \in Here(files) :
              \E s \in ToSet(files[p].sites) : s.kind = files["setup"].fw /\ s.covers # {}
        /\ \A s \in Sites(files) : s.kind # "nethttp" /\ s.seen => "init" \notin s.covers
(* agents: what is outside the fences stays, in its order; a second run changes nothing.    *)
Outside(doc) ==
    IF Has(doc, "start") /\ Has(doc, "end")
    THEN SubSeq(doc, 1, FirstOf(doc, "start") - 1) \o SubSeq(doc, FirstOf(doc, "end") + 1, Len(doc))
    ELSE doc
AgentsKeep ==
    /\ agentsMD # before.doc => Outside(agentsMD) = Outside(before.doc) /\ Merge(agentsMD) = agentsMD
    /\ code = 1 /\ fails = 0 => agentsMD = before.doc

ScaffoldTells == InitRestores /\ OwnerKept /\ Covers /\ AgentsKeep

(* What the documents say, and the code does not do.                                         *)

(* apply: "a reader never sees half a file". *)
NeverHalf == torn \cap Paths = {}
(* checkMiddleware: "all %d entry points are covered". *)
EveryOneCovered == code = 0 /\ saved # <<>> => \A s \in Sites(files) : s.covers # {}
(* restore: "puts the tree back", over what the owner saved while verify ran too. *)
LastSaveKept == \A p \in stepped : pc = "done" /\ files[p] # None => files[p].saved > 0
=============================================================================
