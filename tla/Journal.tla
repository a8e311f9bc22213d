------------------------------ MODULE Journal -------------------------------
(***************************************************************************)
(* The audit journal (audit/journal.go, audit/verify.go): an append-only   *)
(* file of lines, each of which names the hash of the line before it, with *)
(* marker lines that state how many records came before.                   *)
(*                                                                         *)
(* A journal instance holds its mutex through one call, so its calls are   *)
(* taken one at a time; a call is several steps because the process or the *)
(* machine may stop between them, and because instances share one file.    *)
(* A line's hash is its identity: two lines that differ have different     *)
(* hashes.  A chunk is what one write left in the file: a whole line or a  *)
(* part of one, with its newline or without.  Signatures are left out.     *)
(***************************************************************************)
EXTENDS Naturals, Sequences, SequencesExt, FiniteSets

CONSTANTS Journals,     \* journal instances that open the same path
          Records,      \* the audit events, each of them sent once
          None,         \* nobody, nothing
          Every,        \* markerEvery
          MaxTrouble    \* bound: how often something goes wrong

JournalAssumption ==
    /\ Every \in Nat \ {0} /\ MaxTrouble \in Nat
    /\ None \notin Journals \cup Records

VARIABLES
    disk,        \* the file: its chunks in order
    partial,     \* the chunks in the .partial file
    lock,        \* the instance that holds the file lock
    open,        \* the instances whose file is open
    pc,          \* where each instance is: "idle" or in a call
    call,        \* "send" or "close"
    event,       \* the record being sent
    line,        \* the line being written
    prev,        \* j.prev: the hash of the last line
    records,     \* j.records
    hook         \* the instances inside their onError hook

(* History: hashes given out, the records not sent yet, those whose Send returned *)
(* without a report, those reported, whether the last chunk is synced, and what   *)
(* went wrong so far: an instance stopped, and the newline of its last line was     *)
(* lost or not; a Write was short or a Sync failed; somebody changed the file.      *)
VARIABLES hashes, fresh, acked, reported, synced, trouble

file     == <<disk, partial, synced>>
instance == <<open, pc, call, event, line, prev, records, hook>>
ghosts   == <<hashes, fresh, acked, reported, trouble>>
vars     == <<file, lock, instance, ghosts>>

Start == 0      \* the hash before the first line: the empty string
NoLine == [id |-> Start, prev |-> Start, kind |-> "record", of |-> None, count |-> 0]

Init ==
    /\ disk = <<>> /\ partial = {} /\ lock = None /\ open = {}
    /\ pc = [j \in Journals |-> "idle"] /\ call = [j \in Journals |-> "send"]
    /\ event = [j \in Journals |-> None] /\ line = [j \in Journals |-> NoLine]
    /\ prev = [j \in Journals |-> Start] /\ records = [j \in Journals |-> 0]
    /\ hook = {} /\ hashes = 0 /\ fresh = Records /\ acked = {} /\ reported = {}
    /\ synced = TRUE /\ trouble = <<>>

Happens(what) == /\ Len(trouble) < MaxTrouble
                 /\ trouble' = Append(trouble, what)

At(j, place) == pc' = [pc EXCEPT ![j] = place]

----------------------------------------------------------------------------
(* Reading the file back *)

Chunk(l, whole, nl) == [line |-> l, whole |-> whole, nl |-> nl]

(* splitTail: the terminated lines, and what follows the last newline. *)
LastNewline(s) == LET ends == {i \in 1..Len(s) : s[i].nl}
                  IN  IF ends = {} THEN 0 ELSE CHOOSE i \in ends : \A k \in ends : k <= i
Body(s) == SubSeq(s, 1, LastNewline(s))
Rest(s) == SubSeq(s, LastNewline(s) + 1, Len(s))

(* checkLine accepts one whole line that names the line before it. *)
HashOf(s, i)   == IF i = 0 THEN Start ELSE s[i].line.id
Unlinked(s, i) == TRUE                                 \* mutant: prev_hash is not compared
Linked(s, i)   == s[i].line.prev = HashOf(s, i - 1)
Chained(s)     == \A i \in 1..Len(s) : s[i].whole /\ s[i].nl /\ Linked(s, i)

Counts(l)    == l.kind = "record"
RecordsIn(s) == Cardinality({i \in 1..Len(s) : Counts(s[i].line)})

HeadOf(s)   == HashOf(s, Len(s))
Complete(s) == Len(Rest(s)) = 1 /\ Rest(s)[1].whole /\ Rest(s)[1].line.prev = HeadOf(Body(s))

(* Verify *)
MarkersTrue(s) == \A i \in 1..Len(s) : s[i].line.kind = "marker" =>
                     s[i].line.count = RecordsIn(SubSeq(s, 1, i - 1))
Verifies(s) == /\ s # <<>>
               /\ Rest(s) = <<>> \/ Complete(s)
               /\ Chained(Body(s)) /\ MarkersTrue(s)

----------------------------------------------------------------------------
(* Send *)

(* A failure goes to the hook once the mutex is released. *)
Swallow(e) == reported                                 \* mutant: the error is dropped
Report(e)  == reported \cup {e}
Fail(j) ==
    /\ reported' = Report(event[j])
    /\ event' = [event EXCEPT ![j] = None]
    /\ At(j, "idle")

(* Records are alike until they are sent, so each call takes the next of them. *)
NextRecord == CHOOSE e \in fresh : TRUE
SendCall(j) == LET e == NextRecord IN
    /\ pc[j] = "idle" /\ fresh # {}
    /\ fresh' = fresh \ {e}
    /\ event' = [event EXCEPT ![j] = e]
    /\ call' = [call EXCEPT ![j] = "send"]
    /\ At(j, IF j \in open THEN "seal" ELSE "open")
    /\ UNCHANGED <<file, lock, open, line, prev, records, hook,
                   hashes, acked, reported, trouble>>

OpenBusy(j) ==
    /\ pc[j] = "open" /\ lock # None
    /\ Fail(j)
    /\ UNCHANGED <<file, lock, open, call, line, prev, records, hook,
                   hashes, fresh, acked, trouble>>

LockShared  == TRUE                                    \* mutant: a shared lock
LockFree    == lock = None
OpenLock(j) ==
    /\ pc[j] = "open" /\ LockFree
    /\ lock' = j
    /\ At(j, "resume")
    /\ UNCHANGED <<file, open, call, event, line, prev, records, hook, ghosts>>

(* resume *)
Replays(s)   == Chained(Body(s))

(* The file does not open, cannot be read, set aside or cut, or the second writing of *)
(* its last line leaves less than a line: the lock goes, and nothing is open.         *)
RewrittenShort(s) == {Append(s, [Rest(s)[1] EXCEPT !.whole = w]) : w \in BOOLEAN}
OpenFails(j) ==
    /\ pc[j] \in {"open", "resume", "truncate"} /\ Happens("error")
    /\ \/ UNCHANGED disk
       \/ /\ pc[j] = "resume" /\ Replays(disk) /\ Complete(disk)
          /\ disk' \in RewrittenShort(disk)
    /\ lock' = IF lock = j THEN None ELSE lock
    /\ Fail(j)
    /\ UNCHANGED <<partial, synced, open, call, line, prev, records, hook,
                   hashes, fresh, acked>>

ResumeRefuse(j) ==
    /\ pc[j] = "resume" /\ ~Replays(disk)
    /\ lock' = None
    /\ Fail(j)
    /\ UNCHANGED <<file, open, call, line, prev, records, hook,
                   hashes, fresh, acked, trouble>>

Resumed(j, s) ==
    /\ open' = open \cup {j}
    /\ prev' = [prev EXCEPT ![j] = HeadOf(s)]
    /\ At(j, "seal")

ResumeClean(j) ==
    /\ pc[j] = "resume" /\ Replays(disk) /\ Rest(disk) = <<>>
    /\ Resumed(j, disk)
    /\ records' = [records EXCEPT ![j] = RecordsIn(disk)]
    /\ UNCHANGED <<file, lock, call, event, line, hook, ghosts>>

(* The file is in append mode, so the line is written a second time, with a newline; *)
(* it counts as a record, marker or not.                                             *)
ResumeKeep(j) ==
    /\ pc[j] = "resume" /\ Replays(disk) /\ Rest(disk) # <<>> /\ Complete(disk)
    /\ disk' = Append(disk, [Rest(disk)[1] EXCEPT !.nl = TRUE])
    /\ Resumed(j, disk)
    /\ records' = [records EXCEPT ![j] = RecordsIn(Body(disk)) + 1]
    /\ synced' = FALSE
    /\ UNCHANGED <<partial, lock, call, event, line, hook, ghosts>>

ResumeSetAside(j) ==
    /\ pc[j] = "resume" /\ Replays(disk) /\ Rest(disk) # <<>> /\ ~Complete(disk)
    /\ partial' = partial \cup Range(Rest(disk))
    /\ At(j, "truncate")
    /\ UNCHANGED <<disk, synced, lock, open, call, event, line, prev, records, hook, ghosts>>

CutMore(s)  == SubSeq(s, 1, LastNewline(s) - 1)        \* mutant: one line too many goes
CutTail(s)  == Body(s)
ResumeTruncate(j) ==
    /\ pc[j] = "truncate"
    /\ disk' = CutTail(disk)
    /\ Resumed(j, Body(disk))
    /\ records' = [records EXCEPT ![j] = RecordsIn(Body(disk))]
    /\ UNCHANGED <<partial, synced, lock, call, event, line, hook, ghosts>>

----------------------------------------------------------------------------
(* append: seal, write, sync *)

Sealed(j, kind) == [id |-> hashes + 1, prev |-> prev[j], kind |-> kind,
                    of |-> event[j], count |-> records[j]]
SealLine(j) ==
    /\ pc[j] \in {"seal", "mark"}
    /\ line' = [line EXCEPT ![j] = Sealed(j, IF pc[j] = "seal" THEN "record" ELSE "marker")]
    /\ hashes' = hashes + 1
    /\ At(j, "write")
    /\ UNCHANGED <<file, lock, open, call, event, prev, records, hook,
                   fresh, acked, reported, trouble>>

Write(j) ==
    /\ pc[j] = "write"
    /\ disk' = Append(disk, Chunk(line[j], TRUE, TRUE))
    /\ synced' = FALSE
    /\ At(j, "sync")
    /\ UNCHANGED <<partial, lock, open, call, event, line, prev, records, hook, ghosts>>

(* What follows a line: a marker after Every records, and the end of the call. *)
MarkNow(n)   == n % Every = 0
NoAdvance(j) == prev                                   \* mutant: the chain head stays
Advance(j)   == [prev EXCEPT ![j] = line[j].id]
Sync(j) ==
    /\ pc[j] = "sync"
    /\ synced' = TRUE
    /\ prev' = Advance(j)
    /\ LET n == records[j] + 1
           isRecord == Counts(line[j])
       IN
       /\ records' = IF isRecord THEN [records EXCEPT ![j] = n] ELSE records
       /\ IF call[j] = "close" THEN At(j, "close") /\ UNCHANGED <<acked, event>>
          ELSE IF isRecord /\ MarkNow(n) THEN At(j, "mark") /\ UNCHANGED <<acked, event>>
          ELSE /\ At(j, "idle")
               /\ acked' = acked \cup {event[j]}
               /\ event' = [event EXCEPT ![j] = None]
    /\ UNCHANGED <<disk, partial, lock, open, call, line, hook,
                   hashes, fresh, reported, trouble>>

(* An append that fails: Send reports it when it has unlocked, and Close at once. *)
AppendFails(j) ==
    IF call[j] = "close"
    THEN At(j, "hook") /\ hook' = hook \cup {j} /\ UNCHANGED <<reported, event>>
    ELSE Fail(j) /\ UNCHANGED hook

(* The line could not be sealed, or the write left nothing of it in the file. *)
AppendNothing(j) ==
    /\ pc[j] \in {"seal", "mark", "write"} /\ Happens("error")
    /\ AppendFails(j)
    /\ UNCHANGED <<file, lock, open, call, line, prev, records,
                   hashes, fresh, acked>>

(* A short write, on a full disk say, leaves less than the line: its newline, or more, is missing. *)
WriteShort(j) ==
    /\ pc[j] = "write" /\ Happens("error")
    /\ \E whole \in BOOLEAN : disk' = Append(disk, Chunk(line[j], whole, FALSE))
    /\ AppendFails(j)
    /\ UNCHANGED <<partial, synced, lock, open, call, line, prev, records,
                   hashes, fresh, acked>>

SyncFails(j) ==
    /\ pc[j] = "sync" /\ Happens("error")
    /\ AppendFails(j)
    /\ UNCHANGED <<file, lock, open, call, line, prev, records,
                   hashes, fresh, acked>>

----------------------------------------------------------------------------
(* Close *)

CloseCall(j) ==
    /\ pc[j] = "idle" /\ j \in open
    /\ call' = [call EXCEPT ![j] = "close"]
    /\ At(j, IF records[j] > 0 THEN "mark" ELSE "close")
    /\ UNCHANGED <<file, lock, open, event, line, prev, records, hook, ghosts>>

(* The hook for a marker that failed runs inside closeFile. *)
HookReturns(j) ==
    /\ pc[j] = "hook"
    /\ hook' = hook \ {j}
    /\ At(j, "close")
    /\ UNCHANGED <<file, lock, open, call, event, line, prev, records, ghosts>>

CloseFile(j) ==
    /\ pc[j] = "close"
    /\ open' = open \ {j} /\ lock' = None
    /\ At(j, "idle")
    /\ UNCHANGED <<file, call, event, line, prev, records, hook, ghosts>>

----------------------------------------------------------------------------
(* The process or the machine stops; the last chunk may be lost or cut unless it *)
(* was synced.  The instance starts again with nothing but the file.             *)

Remains(c) == [crash   |-> {<<>>, <<[c EXCEPT !.whole = FALSE, !.nl = FALSE]>>, <<c>>},
               newline |-> {<<[c EXCEPT !.nl = FALSE]>>}]
Crash(j) ==
    /\ pc[j] # "idle" \/ j \in open
    /\ \/ /\ ~synced /\ disk # <<>> /\ lock \in {j, None}
          /\ \E what \in {"crash", "newline"} :
                /\ Happens(what)
                /\ \E r \in Remains(disk[Len(disk)])[what] : disk' = Front(disk) \o r
       \/ /\ synced \/ disk = <<>> \/ lock \notin {j, None}
          /\ Happens("crash")
          /\ UNCHANGED disk
    /\ synced' = TRUE
    /\ open' = open \ {j}
    /\ lock' = IF lock = j THEN None ELSE lock
    /\ event' = [event EXCEPT ![j] = None] /\ line' = [line EXCEPT ![j] = NoLine]
    /\ prev' = [prev EXCEPT ![j] = Start] /\ records' = [records EXCEPT ![j] = 0]
    /\ hook' = hook \ {j}
    /\ At(j, "idle")
    /\ UNCHANGED <<partial, call, hashes, fresh, acked, reported>>

(* Somebody edits, deletes, repeats or moves a line of the closed file. *)
Without(s, i) == SubSeq(s, 1, i - 1) \o SubSeq(s, i + 1, Len(s))
Swapped(s, i) == [s EXCEPT ![i] = s[i + 1], ![i + 1] = s[i]]
Damage ==
    /\ lock = None /\ disk # <<>> /\ Happens("damage")
    /\ \/ \E i \in 1..Len(disk) : disk' = [disk EXCEPT ![i].whole = FALSE]
       \/ \E i \in 1..Len(disk) : disk' = Without(disk, i)
       \/ \E i \in 1..Len(disk) - 1 : disk' = Swapped(disk, i)
       \/ disk' = Append(disk, disk[Len(disk)])
    /\ UNCHANGED <<partial, synced, lock, instance,
                   hashes, fresh, acked, reported>>

----------------------------------------------------------------------------
Open(j)   == OpenBusy(j) \/ OpenLock(j)
Resume(j) == ResumeRefuse(j) \/ ResumeClean(j) \/ ResumeKeep(j)
             \/ ResumeSetAside(j) \/ ResumeTruncate(j)
AppendLine(j) == SealLine(j) \/ Write(j) \/ Sync(j)
                 \/ AppendNothing(j) \/ WriteShort(j) \/ SyncFails(j)
Close(j)  == CloseCall(j) \/ HookReturns(j) \/ CloseFile(j)

Next == \/ \E j \in Journals : \/ SendCall(j) \/ Open(j) \/ OpenFails(j) \/ Resume(j) \/ AppendLine(j) \/ Close(j) \/ Crash(j)
        \/ Damage

Spec == Init /\ [][Next]_vars

----------------------------------------------------------------------------
(* Properties *)

LineType == [id : Nat, prev : Nat, kind : {"record", "marker"},
             of : Records \cup {None}, count : Nat]
TypeOK ==
    /\ \A i \in DOMAIN disk : disk[i] \in [line : LineType, whole : BOOLEAN, nl : BOOLEAN]
    /\ lock \in Journals \cup {None} /\ open \subseteq Journals
    /\ pc \in [Journals -> {"idle", "open", "resume", "truncate", "seal", "mark",
                            "write", "sync", "hook", "close"}]
    /\ call \in [Journals -> {"send", "close"}] /\ event \in [Journals -> Records \cup {None}]
    /\ line \in [Journals -> LineType] /\ prev \in [Journals -> 0..hashes]
    /\ records \in [Journals -> Nat] /\ hook \subseteq open
    /\ fresh \subseteq Records /\ acked \cap reported = {} /\ synced \in BOOLEAN
    /\ trouble \in Seq({"crash", "newline", "error", "damage"})

Never(what) == what \notin Range(trouble)

(* "One writer per file": the instance that is open holds the lock, alone.  What it *)
(* remembers is what the file says: after any crash and any restart, the head of    *)
(* the chain and the record count agree with the disk.                              *)
AgreesWithDisk ==
    \A j \in open :
        /\ lock = j
        /\ pc[j] \in {"idle", "seal", "mark", "write"} /\ Range(trouble) \subseteq {"crash"} =>
              prev[j] = HeadOf(disk) /\ records[j] = RecordsIn(disk) /\ Rest(disk) = <<>>

(* "A restart continues the same chain": whatever crashed, the lines of the file    *)
(* verify, markers included; only a partial last line may follow them.              *)
ChainVerifies == Range(trouble) \subseteq {"crash"} => Chained(Body(disk)) /\ MarkersTrue(Body(disk))

(* "fsync'd after every write": a record whose Send returned without a report is in *)
(* the file once, and stays there through every crash and every later failure.      *)
Holds(e)     == {i \in 1..Len(disk) : /\ disk[i].whole /\ disk[i].line.of = e
                                       /\ disk[i].line.kind = "record"}
AckedDurable == Never("damage") => \A e \in acked : Cardinality(Holds(e)) = 1

(* A dropped line is never "a silent hole in the chain": while nothing crashes, a   *)
(* record whose Send returned is in the file or was reported.                       *)
Returned(e) == e \notin fresh /\ \A j \in Journals : event[j] # e
NoSilentHole == Range(trouble) \subseteq {"error"} =>
    \A e \in Records : Returned(e) => (e \in reported \/ Holds(e) # {})

(* Verify notices an edited, deleted, repeated or moved line, unless lines were only *)
(* cut from the end, which VerifyHead is for; and "a journal with a tampered line is *)
(* refused rather than continued": no instance opens a file whose lines do not chain. *)
DamageTold ==
    /\ Damage /\ Verifies(disk) => (Verifies(disk') => IsPrefix(disk', disk))
    /\ open' \subseteq open \/ Chained(Body(disk))
DamageShows == [][DamageTold]_vars

----------------------------------------------------------------------------
(* What the comments say, and the code does not keep *)

(* "The bytes on disk are always in chain order", even when a Sync fails. *)
DiskInChainOrder == Never("damage") => Chained(Body(disk))

(* "Every byte of the line arrived and only the newline was lost, so keep the       *)
(* record": after crashes alone the lines still chain.                              *)
KeptLineChains == Range(trouble) \subseteq {"crash", "newline"} => Chained(Body(disk))

(* WithOnError: "The hook runs outside the journal lock, so it may write to the     *)
(* journal it reports about."                                                       *)
HookOutsideLock == \A j \in hook : pc[j] = "idle"
=============================================================================
