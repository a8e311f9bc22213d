------------------------------- MODULE Redact -------------------------------
(***************************************************************************)
(* The redactor (redact/redact.go, match.go, custom.go, patterns.go): a     *)
(* denylist of keys and a list of value patterns, derived from one another  *)
(* with New and With, and applied to one event.                             *)
(*                                                                          *)
(* A key is the sequence of its tokens, and a token is a tuple of words, so *)
(* <<a>> \o <<b>> is the token of a key that has two words glued together.  *)
(* A text is known by the patterns it matches and by its length.            *)
(***************************************************************************)
EXTENDS Naturals, Sequences, FiniteSets, SequencesExt

CONSTANTS Defaults,        \* defaultKeys: a sequence of entries
          Chains,          \* the option chains a caller may give to New or With
          Builtins, OnByDefault,   \* the built-in patterns and those that are on
          Samples,         \* the events Apply is given
          Kept, Identity,  \* the paths of kept and of identityPaths
          ClientIP, IPv4,  \* the path of http.client_ip and the pattern it is exempt from
          MaxDepth,        \* r.maxDepth
          MaxChains        \* bound: how many redactors are derived from one another

(* The built redactor, and the event of the last Apply before and after.  History: *)
(* how often each entry was added less how often it was removed, the patterns      *)
(* enabled and not removed since.                                                  *)
VARIABLES raw, builtins, custom, maskIP, before, after, held, active, derived

redactor == <<raw, builtins, custom, maskIP>>
applied  == <<before, after>>
expected == <<held, active>>
vars     == <<redactor, applied, expected, derived>>

NoEvent == [x \in {} |-> x]

Count(s, e) == Cardinality({i \in 1..Len(s) : s[i] = e})
Args(chain, op) == SelectSeq(chain, LAMBDA o : o.op = op)
Named(chain, op) == {o.arg : o \in Range(Args(chain, op))}

----------------------------------------------------------------------------
(* New and With *)

(* RemoveKeys takes out the first entry of that name. *)
AllOf(s, e)     == SelectSeq(s, LAMBDA x : x # e)      \* mutant: every entry of that name
Removed(s, e)   == LET i == CHOOSE i \in 1..Len(s) : s[i] = e /\ \A k \in 1..i - 1 : s[k] # e
                   IN  SubSeq(s, 1, i - 1) \o SubSeq(s, i + 1, Len(s))
RemoveAll(s, es) == FoldSeq(LAMBDA o, rest : Removed(rest, o.arg), s, es)

(* ReplaceKeys forgets the AddKeys and RemoveKeys before it in the chain. *)
LastReplace(chain) == LET at == {i \in 1..Len(chain) : chain[i].op = "replace"}
                      IN  IF at = {} THEN 0 ELSE CHOOSE i \in at : \A k \in at : k <= i
AfterReplace(chain) == SubSeq(chain, LastReplace(chain) + 1, Len(chain))

KeysOf(base, chain) ==
    LET start == IF LastReplace(chain) = 0 THEN base ELSE <<>>
        adds  == Args(AfterReplace(chain), "add")
    IN  start \o [i \in 1..Len(adds) |-> adds[i].arg]
Removals(chain) == Args(AfterReplace(chain), "remove")

(* buildPatterns.  With starts with noBuiltinPatterns and the receiver's patterns. *)
Enabled(base, chain, fresh) ==
    IF fresh /\ Args(chain, "nobuiltin") = <<>> THEN OnByDefault \cup Named(chain, "enable")
    ELSE base \cup Named(chain, "enable")
Forgotten(names)     == {}                             \* mutant: With forgets the toggles
Receiver(names)      == names
Builds(base, chain, patterns) ==
    /\ Named(chain, "enable") \cup Named(chain, "without") \subseteq Builtins
    /\ Named(chain, "without") \subseteq patterns
    /\ \A e \in Named(Removals(chain), "remove") :
          Count(Removals(chain), [op |-> "remove", arg |-> e]) <= Count(KeysOf(base, chain), e)
    /\ Named(chain, "pattern") \cap (custom \cup patterns) = {}

(* build: every option, then the removals; a chain it refuses leaves the receiver as it was. *)
Build(base, names, chain, fresh) ==
    LET patterns == Enabled(names, chain, fresh)
    IN  /\ Builds(base, chain, patterns)
        /\ raw' = RemoveAll(KeysOf(base, chain), Removals(chain))
        /\ builtins' = patterns \ Named(chain, "without")
        /\ custom' = custom \cup Named(chain, "pattern")
        /\ maskIP' = (maskIP \/ Args(chain, "maskip") # <<>>)
        /\ held' = [e \in DOMAIN held |->
              (IF LastReplace(chain) = 0 THEN held[e] ELSE 0)
                 + Count(AfterReplace(chain), [op |-> "add", arg |-> e])
                 - Count(AfterReplace(chain), [op |-> "remove", arg |-> e])]
        /\ active' = ((IF fresh /\ Args(chain, "nobuiltin") # <<>> THEN {} ELSE active)
                         \cup Named(chain, "enable")) \ Named(chain, "without")

New(chain) == /\ derived = 0 /\ derived' = 1
              /\ Build(Defaults, {}, chain, TRUE)
              /\ UNCHANGED applied
With(chain) == /\ derived \in 1..MaxChains - 1 /\ derived' = derived + 1
               /\ Build(raw, Receiver(builtins), chain, FALSE)
               /\ UNCHANGED applied

----------------------------------------------------------------------------
(* Matching *)

Glued(tokens) == <<FlattenSeq(tokens)>>
Leaf(e)       == e.kind = "leaf"
LeafTokens    == UNION {{e.tokens, Glued(e.tokens)} : e \in {x \in Range(raw) : Leaf(x)}}
MaxLeafTokens == LET n == {Len(e.tokens) : e \in {x \in Range(raw) : Leaf(x)}} \cup {1}
                 IN  CHOOSE m \in n : \A k \in n : k <= m

RunsShort(key)  == {SubSeq(key, i, i) : i \in 1..Len(key)}   \* mutant: single words only
Runs(key)       == {SubSeq(key, i, j) : i \in 1..Len(key), j \in 1..Len(key)} \ {<<>>}
MatchesKey(key) == \E run \in Runs(key) : Len(run) <= MaxLeafTokens /\ run \in LeafTokens

Globbed(e, key)      == Len(key) > 1 /\ Last(key) = e.last     \* a glob is "*_" and a word
MatchesLeafGlob(key) == \E e \in Range(raw) : e.kind = "glob" /\ Globbed(e, key)

SegMatches(tokens, key) == tokens \in Runs(key)
MatchesPath(path) == \E e \in Range(raw) :
    /\ e.kind = "path" /\ Len(e.segs) = Len(path)
    /\ \A i \in 1..Len(path) : SegMatches(e.segs[i], path[i])

KeepsNone(path) == FALSE                               \* mutant: a kept path is masked
Keeps(path) == path \in Kept
Denies(key) == ~Keeps(<<key>>) /\ (MatchesKey(key) \/ MatchesLeafGlob(key))
DeniesPath(path) ==
    /\ ~Keeps(path)
    /\ MatchesKey(FlattenSeq(path)) \/ MatchesLeafGlob(Last(path)) \/ MatchesPath(path)

----------------------------------------------------------------------------
(* Apply *)

Masked == [kind |-> "masked"]

(* applyPatterns: a field of identityPaths is not scanned. *)
Patterns(path) == IF path \in Identity THEN {}
                  ELSE (IF path = ClientIP /\ ~maskIP THEN builtins \ {IPv4} ELSE builtins) \cup custom
Scanned(text, path) == [text EXCEPT !.hits = @ \ Patterns(path)]

TooDeepLate(depth) == depth > MaxDepth                 \* mutant: one level more
TooDeep(depth)     == depth + 1 > MaxDepth

RECURSIVE ApplyValue(_, _, _), ApplyMap(_, _, _)
ApplyMap(m, path, depth) == [k \in DOMAIN m |->
    LET full == Append(path, k) IN
    IF ~Keeps(full) /\ (MatchesKey(k) \/ MatchesLeafGlob(k) \/ MatchesPath(full))
    THEN Masked
    ELSE ApplyValue(m[k], full, depth)]

(* A map of strings is scanned for patterns only; an event holds none, since it copies *)
(* them into maps of any.  An integer is scanned under no path.                        *)
ApplyValue(v, path, depth) ==
    CASE v.kind = "map"     -> IF TooDeep(depth) THEN Masked
                               ELSE [v EXCEPT !.of = ApplyMap(@, path, depth + 1)]
      [] v.kind = "list"    -> IF TooDeep(depth) THEN Masked
                               ELSE [v EXCEPT !.of = [i \in DOMAIN @ |-> ApplyValue(@[i], path, depth + 1)]]
      [] v.kind = "strings" -> [v EXCEPT !.of = [i \in DOMAIN @ |-> Scanned(@[i], path)]]
      [] v.kind = "smap"    -> [v EXCEPT !.of = [k \in DOMAIN @ |-> ApplyValue(@[k], Append(path, k), depth + 1)]]
      [] v.kind = "text"    -> IF v.big THEN Masked ELSE Scanned(v, path)
      [] v.kind = "int"     -> Scanned(v, <<>>)
      [] v.kind = "other"   -> Masked
      [] OTHER              -> v

Apply(event) ==
    /\ derived > 0 /\ before = NoEvent
    /\ before' = event
    /\ after' = ApplyMap(event, <<>>, 0)
    /\ UNCHANGED <<redactor, expected, derived>>

(* The next event. *)
Emitted ==
    /\ before # NoEvent
    /\ before' = NoEvent /\ after' = NoEvent
    /\ UNCHANGED <<redactor, expected, derived>>

----------------------------------------------------------------------------
Args1(op) == UNION {Named(chain, op) : chain \in Chains}
Entries   == Range(Defaults) \cup Args1("add") \cup Args1("remove")

Init == /\ raw = <<>> /\ builtins = {} /\ custom = {} /\ maskIP = FALSE
        /\ before = NoEvent /\ after = NoEvent
        /\ held = [e \in Entries |-> Count(Defaults, e)] /\ active = OnByDefault /\ derived = 0

(* The last event is out before the next redactor is swapped in. *)
Next == \/ before = NoEvent /\ \E chain \in Chains : New(chain) \/ With(chain)
        \/ \E event \in Samples : Apply(event)
        \/ Emitted

Spec == Init /\ [][Next]_vars

----------------------------------------------------------------------------
(* Properties *)

(* The leaves of an event: what stands at the end of each way down, with the boxes *)
(* and the keys on that way.                                                       *)
RECURSIVE LeavesIn(_, _)
LeavesIn(m, way) == UNION {
    LET here(key) == Append(way, [box |-> m.box, key |-> key])
        under(v, w)  == IF v.kind \in {"map", "smap"} THEN LeavesIn([box |-> v.kind, of |-> v.of], w)
                        ELSE IF v.kind \in {"list", "strings"}
                        THEN UNION {IF v.of[i].kind = "map"
                                    THEN LeavesIn([box |-> "item", of |-> v.of[i].of], w)
                                    ELSE {[way |-> w, of |-> v.of[i], in |-> v.kind]} : i \in DOMAIN v.of}
                        ELSE {[way |-> w, of |-> v, in |-> "map"]}
    IN under(m.of[k], here(k)) : k \in DOMAIN m.of}
LeavesOf(event) == LeavesIn([box |-> "map", of |-> event], <<>>)

PathOf(way, n) == [i \in 1..n |-> way[i].key]
WordsIn(words, key) == \E i \in 0..Len(key) - Len(words) : SubSeq(key, i + 1, i + Len(words)) = words
(* Apply denies a key by a whole word run of it, glued or not, by a glob, or by the   *)
(* full path from the root, and never at a kept path.                                 *)
DeniedAt(way, n) ==
    LET path == PathOf(way, n) key == way[n].key IN
    /\ way[n].box # "smap" /\ path \notin Kept
    /\ \/ \E e \in {x \in Range(raw) : Leaf(x)} : WordsIn(e.tokens, key) \/ WordsIn(Glued(e.tokens), key)
       \/ MatchesLeafGlob(key) \/ MatchesPath(path)
Nesting(l) == Len(l.way) - 1 + Cardinality({i \in 1..Len(l.way) : l.way[i].box = "item"})
              + (IF l.in = "list" THEN 1 ELSE 0)
              - (IF Last(l.way).box = "smap" THEN 1 ELSE 0)
Survives(l) == /\ \A n \in 1..Len(l.way) : ~DeniedAt(l.way, n)
               /\ Nesting(l) <= MaxDepth
               /\ l.of.kind \in {"text", "int", "masked"} /\ (l.of.kind = "text" /\ l.of.big => l.in = "strings")
Cleaned(l) == LET path == IF l.of.kind = "int" THEN <<>> ELSE PathOf(l.way, Len(l.way))
              IN  [l EXCEPT !.of = Scanned(@, path)]

(* "Apply masks the event in place": a value is still there exactly when no key above *)
(* it is denied, it is not too deep, too large or of a type JSON would expand, and    *)
(* then no active pattern matches it; and an event that was masked stays as it is.    *)
AppliedByRule ==
    /\ {l \in LeavesOf(after) : l.of.kind # "masked"} = {Cleaned(l) : l \in {x \in LeavesOf(before) : Survives(x)}}
    /\ derived > 0 => ApplyMap(after, <<>>, 0) = after

(* Along any line of redactors, a key is denied as often as it was added and not      *)
(* removed since: "a key that RemoveKeys took out stays out and a key it kept stays   *)
(* in"; and "With never turns a removed pattern back on".                             *)
ConfigHeld == derived > 0 => /\ \A e \in Entries : Count(raw, e) = held[e]
                             /\ builtins = active

(* Denies "reports whether a top-level key name would be masked". *)
DeniesTrue == \A k \in DOMAIN before :
    /\ Denies(k) => after[k] = Masked
    /\ after[k] = Masked /\ before[k].kind \in {"map", "int"} => Denies(k)
-----------------------------------------------------------------------------
(* What the comments say, and the code does not keep *)

(* DeniesPath "reports whether the redactor would mask a value at a path": a value    *)
(* under a parent that a glob or a dotted entry denies is masked, and it says no.     *)
DeniesPathTold == \A l \in {x \in LeavesOf(before) : x.of.kind \in {"text", "int"}} :
    (\E n \in 1..Len(l.way) : DeniedAt(l.way, n)) => DeniesPath(PathOf(l.way, Len(l.way)))
=============================================================================
