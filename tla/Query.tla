-------------------------------- MODULE Query --------------------------------
(***************************************************************************)
(* wlog query and wlog tail over the package query: one filter, a window    *)
(* that keeps the newest or the oldest matches of a list of sources, the    *)
(* aggregates over it, and the loop that follows files while they are       *)
(* written and rotated.                                                    *)
(***************************************************************************)
EXTENDS Naturals, FiniteSets, Sequences, SequencesExt

CONSTANTS Events,        \* the events that lines hold
          Bad,           \* a line that is no event
          Appended,      \* those that are written while follow runs
          Filters,       \* compiled filters
          MaxLines,      \* lines appended while follow runs, and one fewer than a source has
          Limit,         \* --limit
          RemoteLimit,   \* of a memory endpoint that is asked with no parameter
          MaxFiles,      \* rotations, plus one
          None

VARIABLES
    use,         \* "query" or "follow"
    filter, oldest,
    pc,
    sources,     \* the lines of each source
    pos, line,   \* the source read, and its lines read
    remote,      \* the sources read as URLs
    kept,        \* window.events_
    skipped, exit

(* Follow: the files that have been at the path, in order, the last one there now, unless *)
(* it is away and no other is there yet.                                                  *)
VARIABLES
    files, partial,      \* partial: the event of the last file whose line has no end yet, or None
    away,
    fd, at, carry,       \* the file open, the lines read of it, the file that carry comes from
    printed,             \* the places of the lines printed: <<file, line>>
    ends                 \* history: of each file, the lines it had at the last end of file read

scan   == <<sources, pos, line, remote, kept, skipped>>
follow == <<files, partial, away, fd, at, carry, printed, ends>>
vars   == <<use, filter, oldest, pc, exit, scan, follow>>

QueryAssumption ==
    /\ Limit \in Nat \ {0} /\ RemoteLimit \in Nat \ {0}
    /\ MaxLines \in Nat /\ Appended \subseteq Events /\ Bad \notin Events

----------------------------------------------------------------------------
(* The filter.  A value is a number, a text or absent.                       *)
Num(n)  == <<"number", n>>
Text(t) == <<"text", t>>
Absent  == <<"absent">>
IsNum(v) == v[1] = "number"

(* globPattern: a star stops at a slash, two do not. *)
RECURSIVE Glob(_, _)
Glob(p, t) ==
    IF p = <<>> THEN t = <<>>
    ELSE CASE Head(p) = "**" -> \E n \in 0..Len(t) : Glob(Tail(p), SubSeq(t, n + 1, Len(t)))
           [] Head(p) = "*"  -> \E n \in 0..Len(t) :
                                    /\ "/" \notin ToSet(SubSeq(t, 1, n))
                                    /\ Glob(Tail(p), SubSeq(t, n + 1, Len(t)))
           [] Head(p) = "?"  -> t # <<>> /\ Head(t) # "/" /\ Glob(Tail(p), Tail(t))
           [] OTHER          -> t # <<>> /\ Head(t) = Head(p) /\ Glob(Tail(p), Tail(t))

(* matchCondition: an order only between numbers. *)
Holds(c, v) ==
    CASE c.op = "?"  -> v # Absent
      [] c.op = "~"  -> v \in c.value
      [] c.op = "="  -> v = c.value
      [] c.op = "!=" -> v # c.value
      [] c.op = ">"  -> IsNum(v) /\ IsNum(c.value) /\ v[2] > c.value[2]
      [] c.op = ">=" -> IsNum(v) /\ IsNum(c.value) /\ v[2] >= c.value[2]
      [] c.op = "<"  -> IsNum(v) /\ IsNum(c.value) /\ v[2] < c.value[2]
      [] c.op = "<=" -> IsNum(v) /\ IsNum(c.value) /\ v[2] <= c.value[2]

(* matchStatus: the first status the event has. *)
Status(e) == IF e.http # Absent THEN e.http ELSE IF e.rpc # Absent THEN e.rpc ELSE e.cli

Match(f, e) ==
    /\ f.levels = {} \/ e.level \in f.levels
    /\ f.kinds = {} \/ e.kind \in f.kinds
    /\ f.since # None \/ f.until # None => e.stamp # None
    /\ f.since # None => e.stamp >= f.since
    /\ f.until # None => e.stamp <= f.until
    /\ f.op # None => Glob(f.op, e.op)
    /\ f.status # None => Status(e) # Absent /\ Holds(f.status, Status(e))
    /\ f.code # None => e.code = f.code
    /\ \A c \in f.where : Holds(c, e.value)
    /\ f.text # None => f.text \in e.says

----------------------------------------------------------------------------
(* The aggregates.                                                           *)
Places(es, key) == {i \in DOMAIN es : es[i].code = key}
Ranked(bs) == SortSeq(bs, LAMBDA a, b : a.count > b.count \/ (a.count = b.count /\ a.key < b.key))
Counts(es) ==
    LET keys == SetToSeq({es[i].code : i \in DOMAIN es})
    IN Ranked([i \in DOMAIN keys |-> [key |-> keys[i], count |-> Cardinality(Places(es, keys[i]))]])

Numbers(es) == [i \in 1..Len(SelectSeq(es, LAMBDA e : IsNum(e.value))) |->
                    SelectSeq(es, LAMBDA e : IsNum(e.value))[i].value[2]]
Sorted(ns) == SortSeq(ns, LAMBDA a, b : a < b)
(* percentile: the nearest rank.  RankDown is a mutant. *)
RankDown(n, p) == IF (p * n) \div 100 < 1 THEN 1 ELSE (p * n) \div 100
Rank(n, p)     == IF (p * n + 99) \div 100 < 1 THEN 1 ELSE (p * n + 99) \div 100
Percentile(ns, p) == IF ns = <<>> THEN 0 ELSE Sorted(ns)[Rank(Len(ns), p)]

(* GroupStats: a key joins the order while it has no sample, so once for each event until *)
(* its first number.                                                                      *)
GroupOrder(es) ==
    LET step(acc, e) == [order  |-> IF e.code \in acc.sampled THEN acc.order ELSE Append(acc.order, e.code),
                         sampled |-> IF IsNum(e.value) THEN acc.sampled \cup {e.code} ELSE acc.sampled]
    IN FoldLeft(step, [order |-> <<>>, sampled |-> {}], es).order
GroupStats(es) ==
    LET of(key) == Numbers(SelectSeq(es, LAMBDA e : e.code = key))
        order   == GroupOrder(es)
    IN Ranked([i \in DOMAIN order |-> [key |-> order[i], count |-> Len(of(order[i])),
                                       p50 |-> Percentile(of(order[i]), 50)]])

----------------------------------------------------------------------------
(* Query: the window and its end. *)
Add(ks, e) == IF oldest THEN (IF Len(ks) < Limit THEN Append(ks, e) ELSE ks)
              ELSE IF Len(ks) = Limit THEN Append(Tail(ks), e) ELSE Append(ks, e)
(* full; WhenFull, a mutant, forgets that only an oldest query may stop. *)
WhenFull(ks) == Len(ks) >= Limit
Full(ks)     == oldest /\ Len(ks) >= Limit
Keep(ks, l)  == IF l # Bad /\ Match(filter, l) THEN Add(ks, l) ELSE ks

Init ==
    /\ use \in {"query", "follow"} /\ filter \in Filters /\ oldest \in BOOLEAN
    /\ sources \in IF use = "follow" THEN {<<>>} ELSE
          UNION {{<<s, t>> : s \in [1..n -> Events \cup {Bad}], t \in [1..m -> Events \cup {Bad}]} :
                   n \in 0..MaxLines + 1, m \in 0..1}
    /\ use = "follow" => ~ oldest
    /\ pc = "source" /\ pos = 1 /\ line = 0 /\ remote = {}
    /\ kept = <<>> /\ skipped = 0 /\ exit = None
    /\ files = <<<<>>>> /\ partial = None /\ away = FALSE /\ fd = 0 /\ at = 0 /\ carry = None
    /\ printed = <<>> /\ ends = <<0>>

Querying == use = "query" /\ UNCHANGED <<use, filter, oldest, sources, follow>>
Ends(code) == pc' = "done" /\ exit' = code
Next1 == pos' = pos + 1 /\ line' = 0

(* A file, a file of a folder, stdin.  It may be missing, or no gzip file. *)
OpenSource ==
    /\ Querying /\ pc = "source" /\ pos <= Len(sources) /\ pc' = "lines"
    /\ UNCHANGED <<pos, line, remote, kept, skipped, exit>>
OpenFails ==
    /\ Querying /\ pc = "source" /\ pos <= Len(sources) /\ Ends(2)
    /\ UNCHANGED <<pos, line, remote, kept, skipped>>
(* scan, one line.  It stops at the match that fills the window, and at an error or a line *)
(* over maxLine.                                                                           *)
Fills(l) == Full(Keep(kept, l)) /\ l # Bad /\ Match(filter, l)
Scan ==
    /\ Querying /\ pc = "lines" /\ line < Len(sources[pos])
    /\ LET l == sources[pos][line + 1] IN
        /\ kept' = Keep(kept, l)
        /\ skipped' = IF l = Bad THEN skipped + 1 ELSE skipped
        /\ IF Fills(l) THEN pc' = "next" /\ UNCHANGED line ELSE line' = line + 1 /\ UNCHANGED pc
    /\ UNCHANGED <<pos, remote, exit>>
ScanFails ==
    /\ Querying /\ pc = "lines" /\ Ends(2) /\ UNCHANGED <<pos, line, remote, kept, skipped>>
EndSource ==
    /\ Querying /\ pc = "lines" /\ line = Len(sources[pos]) /\ pc' = "next"
    /\ UNCHANGED <<pos, line, remote, kept, skipped, exit>>
(* A full window ends the loop after a file or a folder, but not within a folder, and not *)
(* after stdin or a URL.                                                                  *)
Go ==
    /\ Querying /\ pc = "next" /\ Next1 /\ pc' = "source"
    /\ UNCHANGED <<remote, kept, skipped, exit>>
Break ==
    /\ Querying /\ pc = "next" /\ Full(kept) /\ pc' = "source" /\ pos' = Len(sources) + 1 /\ line' = 0
    /\ UNCHANGED <<remote, kept, skipped, exit>>

(* readURL: the endpoint of an application that holds the events, the newest first, is  *)
(* read in their order.  Its own limit comes before the filter.                         *)
NewestFirst(es) == [i \in DOMAIN es |-> es[Len(es) - i + 1]]
Endpoint(es) ==
    LET n == Len(es) IN IF n > RemoteLimit THEN SubSeq(NewestFirst(es), 1, RemoteLimit) ELSE NewestFirst(es)
(* Reread, a mutant, takes the answer as it comes. *)
Reread(answer) == answer
Order(answer)  == NewestFirst(answer)
ReadURL ==
    /\ Querying /\ pc = "source" /\ pos <= Len(sources) /\ Bad \notin ToSet(sources[pos])
    /\ kept' = FoldLeft(Keep, kept, Order(Endpoint(sources[pos])))
    /\ remote' = remote \cup {pos} /\ Next1 /\ UNCHANGED <<pc, skipped, exit>>
Report ==
    /\ Querying /\ pc = "source" /\ pos > Len(sources) /\ Ends(IF kept = <<>> THEN 1 ELSE 0)
    /\ UNCHANGED <<pos, line, remote, kept, skipped>>

----------------------------------------------------------------------------
(* Follow: the writer.  A line after an unfinished one is glued to it.        *)
Following == use = "follow" /\ UNCHANGED <<use, filter, oldest, scan>>
Current == Len(files)
Written == FoldLeft(LAMBDA n, f : n + Len(f), 0, files)
Writes  == Following /\ exit = None /\ UNCHANGED <<pc, exit, fd, at, carry, printed>>
Line(l) == files' = [files EXCEPT ![Current] = Append(@, l)] /\ UNCHANGED <<away, ends>>
WriteLine(e) ==
    Writes /\ Written < MaxLines /\ Line(IF partial = None THEN e ELSE Bad) /\ partial' = None
WriteHalf(e) ==
    Writes /\ Written < MaxLines /\ partial = None /\ partial' = e /\ UNCHANGED <<files, away, ends>>
WriteRest == Writes /\ partial # None /\ Line(partial) /\ partial' = None
(* Rotation: the file is renamed, and a new one takes its place. *)
Rename == Writes /\ ~ away /\ Current < MaxFiles /\ away' = TRUE /\ UNCHANGED <<files, partial, ends>>
Create ==
    /\ Writes /\ away /\ away' = FALSE
    /\ files' = Append(files, <<>>) /\ ends' = Append(ends, 0) /\ partial' = None

(* followFile; it waits while nothing is at the path. *)
Follow == Following /\ UNCHANGED <<files, partial, away>>
Open ==
    /\ Follow /\ pc = "source" /\ ~ away /\ pc' = "read" /\ fd' = Current /\ at' = 0
    /\ UNCHANGED <<exit, carry, printed, ends>>
NotThere ==
    /\ Follow /\ pc = "source" /\ away /\ pc' = "wait" /\ UNCHANGED <<exit, fd, at, carry, printed, ends>>
(* readAppended: one line, in front of it what carry holds, which is of no use in another *)
(* file; or the end of the file, with an unfinished line.                                 *)
Prints(l) == carry \in {None, fd} /\ l # Bad /\ Match(filter, l)
ReadLine ==
    /\ Follow /\ pc = "read" /\ at < Len(files[fd]) /\ at' = at + 1 /\ carry' = None
    /\ printed' = IF Prints(files[fd][at + 1]) THEN Append(printed, <<fd, at + 1>>) ELSE printed
    /\ UNCHANGED <<pc, exit, fd, ends>>
ReadEnd ==
    /\ Follow /\ pc = "read" /\ at = Len(files[fd]) /\ pc' = "stat"
    /\ carry' = IF fd = Current /\ partial # None THEN fd ELSE carry
    /\ ends' = [ends EXCEPT ![fd] = at]
    /\ UNCHANGED <<exit, fd, at, printed>>
(* What carry holds when the file is left for another.  Keeps, a mutant, does not clear it. *)
Keeps == carry
Left  == None
Stat ==
    /\ Follow /\ pc = "stat"
    /\ IF fd # Current /\ ~ away
       THEN pc' = "source" /\ fd' = 0 /\ at' = 0 /\ carry' = Left
       ELSE pc' = "wait" /\ UNCHANGED <<fd, at, carry>>
    /\ UNCHANGED <<exit, printed, ends>>
Poll ==
    /\ Follow /\ pc = "wait" /\ pc' = IF fd = 0 THEN "source" ELSE "read"
    /\ UNCHANGED <<exit, fd, at, carry, printed, ends>>
Interrupt ==
    /\ Follow /\ pc = "wait" /\ Ends(IF printed = <<>> THEN 1 ELSE 0)
    /\ UNCHANGED <<fd, at, carry, printed, ends>>

Next ==
    \/ OpenSource \/ OpenFails \/ Scan \/ ScanFails \/ EndSource \/ Go \/ Break \/ ReadURL \/ Report
    \/ \E e \in Appended : WriteLine(e) \/ WriteHalf(e)
    \/ WriteRest \/ Rename \/ Create
    \/ Open \/ NotThere \/ ReadLine \/ ReadEnd \/ Stat \/ Poll \/ Interrupt

----------------------------------------------------------------------------
Matches(ls) == SelectSeq(ls, LAMBDA l : l # Bad /\ Match(filter, l))
Oldest(es) == SubSeq(es, 1, IF Len(es) < Limit THEN Len(es) ELSE Limit)
Newest(es) == SubSeq(es, (IF Len(es) < Limit THEN 0 ELSE Len(es) - Limit) + 1, Len(es))
Window(es) == IF oldest THEN Oldest(Matches(es)) ELSE Newest(Matches(es))

(* Run: "keep the newest N matches", "keep the oldest N matches", over every source in its *)
(* order, a query that stops early included, an endpoint with the events that it answers;  *)
(* and grep's exit codes.                                                                  *)
Given(i) == IF i \in remote THEN NewestFirst(Endpoint(sources[i])) ELSE sources[i]
WindowTells ==
    exit \in {0, 1} /\ use = "query" =>
        kept = Window(Given(1) \o Given(2)) /\ (exit = 0 <=> kept # <<>>)

(* A percentile is the least sample that so many of the samples do not exceed; the counts  *)
(* of the groups add up, one bucket a key, the largest first.                              *)
Below(ns, v) == Cardinality({i \in DOMAIN ns : ns[i] <= v})
Under(ns, v) == Cardinality({i \in DOMAIN ns : ns[i] < v})
AggregatesTell ==
    /\ LET ns == Numbers(kept) IN ns # <<>> => \A p \in {50, 95, 99} : LET v == Percentile(ns, p) IN
          100 * Below(ns, v) >= p * Len(ns) /\ 100 * Under(ns, v) < p * Len(ns)
    /\ LET bs == Counts(kept) IN
          /\ FoldLeft(LAMBDA n, b : n + b.count, 0, bs) = Len(kept)
          /\ \A i, j \in DOMAIN bs : i < j => bs[i].count >= bs[j].count /\ bs[i].key # bs[j].key

(* tail: each line that the filter keeps is printed whole, once, in the order of writing, *)
(* over rotations and half written lines; of a file that was opened nothing is left out   *)
(* but what came after its last end of file.                                              *)
FollowTells ==
    /\ \A i, j \in DOMAIN printed : i < j =>
          printed[i][1] < printed[j][1] \/ (printed[i][1] = printed[j][1] /\ printed[i][2] < printed[j][2])
    /\ \A f \in DOMAIN files : \A i \in 1..ends[f] :
          <<f, i>> \in ToSet(printed) <=> files[f][i] # Bad /\ Match(filter, files[f][i])

QueriesTell == WindowTells /\ AggregatesTell /\ FollowTells

(* What the documents say, and the code does not do.                                      *)

(* SPEC-track-f.md: --url "returns the same events as the same query against the app's    *)
(* NDJSON file".                                                                          *)
SameFromMemory == exit \in {0, 1} /\ use = "query" => kept = Window(sources[1] \o sources[2])
(* GroupStats: "returns one bucket per value of the group path". *)
OneBucket ==
    LET bs == GroupStats(kept) IN \A i, j \in DOMAIN bs : bs[i].key = bs[j].key => i = j
=============================================================================
