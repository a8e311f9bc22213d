----------------------------- MODULE FileDrain ------------------------------
(***************************************************************************)
(* drain/file: one Sender that appends batches to a file and rotates it,   *)
(* and one Tail that follows the file while it is written and rotated.     *)
(*                                                                         *)
(* SendBatch holds mu, so batches and Close take turns; but each call to   *)
(* the file system is a step, because Tail runs beside it, because any of  *)
(* them may fail, and because the process may die between two of them and  *)
(* start again over the files it left.  The pipeline calls SendBatch again *)
(* after an error, up to MaxAttempts.                                      *)
(*                                                                         *)
(* A file is the sequence of its lines; a write that is cut short ends in  *)
(* a line that is not whole, and the next line is glued to it.  A line     *)
(* takes one unit of MaxSize.                                              *)
(***************************************************************************)
EXTENDS Naturals, Sequences, SequencesExt

CONSTANTS MaxBackups,   \* WithMaxBackups
          MaxSize,      \* WithMaxSize, in lines
          Batches,      \* the batches sent, in order: a sequence of lengths
          MaxAttempts,  \* of the pipeline
          MaxFaults,    \* how many calls of the file system fail or crash the process
          MaxAged,      \* how often a file is found older than maxAge
          None,         \* no file
          Stale         \* a handle whose Close failed

VARIABLES
    lines,      \* what every file ever created holds
    slot,       \* the directory: 0 is path, i is path.i
    fd,         \* s.f: a file, None, or a handle that no longer works
    pc,         \* where SendBatch is, or "down" for no process
    shifting,   \* the backup that rotate renames next
    batch, attempt,     \* the batch of this SendBatch, and the pipeline's attempt
    closed,     \* Close was called
    acked,      \* the batches SendBatch returned nil for
    refused,    \* a SendBatch returned errClosed
    faults, aged

(* Tail: its goroutine, the file it has open, how many lines it read of it. *)
VARIABLES tpc, tfile, tread

(* History: the lines in the order they were written, as the batch of each;     *)
(* the places in that order of the lines Tail gave its caller; the files Tail   *)
(* left for another.                                                            *)
VARIABLES log, seen, left

sender  == <<fd, pc, shifting, batch, attempt, closed, acked, refused>>
disk    == <<lines, slot, log>>
tail    == <<tpc, tfile, tread, seen, left>>
vars    == <<sender, disk, tail, faults, aged>>

Slots == 0..MaxBackups

Init ==
    /\ lines = <<<<>>>> /\ slot = [s \in Slots |-> IF s = 0 THEN 1 ELSE None]
    /\ fd = 1 /\ pc = "idle" /\ shifting = 0
    /\ batch = 1 /\ attempt = 1
    /\ closed = FALSE /\ acked = {} /\ refused = FALSE
    /\ faults = 0 /\ aged = 0
    /\ tpc = "wait" /\ tfile = 1 /\ tread = 0
    /\ log = <<>> /\ seen = <<>> /\ left = {}

Fault == faults < MaxFaults /\ faults' = faults + 1

----------------------------------------------------------------------------
(* SendBatch *)

(* The pipeline's next attempt, or its next batch. *)
Answered == pc' = "idle" /\ batch' = batch + 1 /\ attempt' = 1
Failed ==
    IF attempt < MaxAttempts THEN pc' = "idle" /\ attempt' = attempt + 1 /\ UNCHANGED batch
                             ELSE Answered

Enter ==
    /\ pc = "idle" /\ batch <= Len(Batches)
    /\ IF fd = None
       THEN refused' = TRUE /\ Failed
       ELSE pc' = "check" /\ UNCHANGED <<refused, batch, attempt>>
    /\ UNCHANGED <<fd, shifting, closed, acked, disk, tail, faults, aged>>

(* rotateIfNeeded: Stat fails on a handle that Close has spoiled. *)
TooLong == /\ lines[fd] # <<>> /\ Len(lines[fd]) + Batches[batch] > MaxSize
Check ==
    /\ pc = "check"
    /\ IF fd = Stale
       THEN Failed /\ UNCHANGED aged
       ELSE /\ \/ TooLong /\ pc' = "close" /\ UNCHANGED aged
               \/ ~TooLong /\ pc' = "write" /\ UNCHANGED aged
               \/ ~TooLong /\ aged < MaxAged /\ aged' = aged + 1 /\ pc' = "close"
            /\ UNCHANGED <<batch, attempt>>
    /\ UNCHANGED <<fd, shifting, closed, acked, refused, disk, tail, faults>>

(* rotate *)
CloseFile ==
    /\ pc = "close"
    /\ \/ fd' = None /\ pc' = "remove" /\ UNCHANGED <<batch, attempt, faults>>
       \/ Fault /\ fd' = Stale /\ Failed
    /\ UNCHANGED <<shifting, closed, acked, refused, disk, tail, aged>>

(* The oldest backup goes; with no backups the file itself. *)
Oldest == MaxBackups
RemoveOldest ==
    /\ pc = "remove"
    /\ \/ /\ slot' = [slot EXCEPT ![Oldest] = None]
          /\ pc' = IF MaxBackups = 0 THEN "open" ELSE "shift"
          /\ shifting' = MaxBackups - 1
          /\ UNCHANGED <<batch, attempt, faults>>
       \/ Fault /\ Failed /\ UNCHANGED <<slot, shifting>>
    /\ UNCHANGED <<fd, closed, acked, refused, lines, log, tail, aged>>

(* The next backup to move, from the oldest down to path itself. *)
NextShift(i)  == i - 1
MovedDown(i)  == LET k == MaxBackups - 1 - i              \* mutant: from path up
                 IN IF slot[k] = None THEN slot
                    ELSE [slot EXCEPT ![k + 1] = slot[k], ![k] = None]
Moved(i)      == IF slot[i] = None THEN slot
                 ELSE [slot EXCEPT ![i + 1] = slot[i], ![i] = None]
Shift ==
    /\ pc = "shift"
    /\ \/ /\ slot' = Moved(shifting)
          /\ IF shifting = 0 THEN pc' = "open" /\ UNCHANGED shifting
                             ELSE shifting' = NextShift(shifting) /\ UNCHANGED pc
          /\ UNCHANGED <<batch, attempt, faults>>
       \/ Fault /\ Failed /\ UNCHANGED <<slot, shifting>>
    /\ UNCHANGED <<fd, closed, acked, refused, lines, log, tail, aged>>

(* open: append to what is at path, or create it. *)
OpenAt(next) ==
    /\ IF slot[0] = None
       THEN /\ lines' = Append(lines, <<>>)
            /\ slot' = [slot EXCEPT ![0] = Len(lines) + 1]
            /\ fd' = Len(lines) + 1
       ELSE fd' = slot[0] /\ UNCHANGED <<lines, slot>>
    /\ pc' = next

Open ==
    /\ pc = "open"
    /\ \/ OpenAt("write") /\ UNCHANGED <<batch, attempt, faults>>
       \/ Fault /\ Failed /\ UNCHANGED <<fd, lines, slot>>
    /\ UNCHANGED <<shifting, closed, acked, refused, log, tail, aged>>

(* A write puts n whole lines in the file, and perhaps a part of one more. *)
Whole(n) == [k \in 1..n |-> [at |-> Len(log) + k, whole |-> TRUE]]
Part(n)  == <<[at |-> Len(log) + n + 1, whole |-> FALSE]>>
Put(s) ==
    /\ lines' = [lines EXCEPT ![fd] = @ \o s]
    /\ log' = log \o [k \in 1..Len(s) |-> batch]

Write ==
    /\ pc = "write"
    /\ \/ Put(Whole(Batches[batch])) /\ Answered /\ acked' = acked \cup {batch} /\ UNCHANGED faults
       \/ \E n \in 0..(Batches[batch] - 1) :
              /\ Fault /\ Failed /\ UNCHANGED acked
              /\ Put(Whole(n)) \/ Put(Whole(n) \o Part(n))
    /\ UNCHANGED <<slot, fd, shifting, closed, refused, tail, aged>>

SendBatch == Enter \/ Check \/ CloseFile \/ RemoveOldest \/ Shift \/ Open \/ Write

(* The caller's Close, which waits for mu. *)
Close ==
    /\ pc = "idle" /\ ~closed
    /\ closed' = TRUE /\ fd' = None
    /\ UNCHANGED <<pc, shifting, batch, attempt, acked, refused, disk, tail, faults, aged>>

(* The process dies, in a write after any part of it, and starts again; New     *)
(* opens the file it finds.                                                     *)
Crash ==
    /\ pc # "down" /\ Fault
    /\ \/ pc = "write" /\ (\E n \in 0..(Batches[batch] - 1) : Put(Whole(n) \o Part(n)))
       \/ UNCHANGED <<lines, log>>
    /\ pc' = "down" /\ fd' = None
    /\ UNCHANGED <<slot, shifting, batch, attempt, closed, acked, refused, tail, aged>>

Restart ==
    /\ pc = "down" /\ OpenAt("idle")
    /\ batch' = batch + 1 /\ attempt' = 1 /\ closed' = FALSE
    /\ UNCHANGED <<shifting, acked, refused, log, tail, faults, aged>>

----------------------------------------------------------------------------
(* Tail, in a process of its own. *)

(* parseLine accepts a whole line that is not glued to a torn one. *)
Readable(f) ==
    {k \in 1..Len(lines[f]) : lines[f][k].whole /\ (k > 1 => lines[f][k - 1].whole)}

(* drainReader reads to the end of the file. *)
Unread == SelectSeq([k \in 1..Len(lines[tfile]) |-> k], LAMBDA k : k > tread /\ k \in Readable(tfile))
Drain(next) ==
    /\ seen' = seen \o [i \in 1..Len(Unread) |-> lines[tfile][Unread[i]].at]
    /\ tread' = Len(lines[tfile])
    /\ tpc' = next

(* A tick: is the file at path still the one that is open? *)
Poll ==
    /\ tpc = "wait"
    /\ tpc' = IF slot[0] \in {None, tfile} THEN "read" ELSE "last"
    /\ UNCHANGED <<tfile, tread, seen, left, sender, disk, faults, aged>>

Read == tpc = "read" /\ Drain("wait") /\ UNCHANGED <<tfile, left, sender, disk, faults, aged>>

(* The last lines of the file that a rotation took away. *)
SkipLast == /\ tpc = "last" /\ tpc' = "switch"           \* mutant: switches at once
            /\ UNCHANGED <<tread, seen, tfile, left, sender, disk, faults, aged>>
ReadLast ==
    /\ tpc = "last" /\ Drain("switch")
    /\ UNCHANGED <<tfile, left, sender, disk, faults, aged>>

(* The path may be gone again by now: then the channel closes. *)
Switch ==
    /\ tpc = "switch" /\ left' = left \cup {tfile}
    /\ IF slot[0] = None
       THEN tpc' = "ended" /\ UNCHANGED <<tfile, tread>>
       ELSE tfile' = slot[0] /\ tread' = 0 /\ tpc' = "read"
    /\ UNCHANGED <<seen, sender, disk, faults, aged>>

Follow == Poll \/ Read \/ ReadLast \/ Switch

Next == SendBatch \/ Close \/ Crash \/ Restart \/ Follow

Spec == Init /\ [][Next]_vars

----------------------------------------------------------------------------
(* The places in the log of what is on disk, the oldest backup first. *)
OnDisk ==
    LET held(s) == IF slot[s] = None THEN <<>> ELSE [k \in 1..Len(lines[slot[s]]) |-> lines[slot[s]][k].at]
    IN FoldLeft(LAMBDA acc, i : acc \o held(MaxBackups - i), <<>>, [i \in 1..(MaxBackups + 1) |-> i - 1])

(* Rotation drops only the oldest lines: at every step of it, and after any     *)
(* step of it failed or the process died there, the backups and the file hold   *)
(* the newest lines in the order they were written, with none missing between.  *)
(* A file is gone only behind MaxBackups newer ones; a fault costs one of them. *)
KeepsTheNewest ==
    /\ LET kept == OnDisk IN \A k \in DOMAIN kept : kept[k] = Len(log) - Len(kept) + k
    /\ \A f \in 1..Len(lines) :
           Len(lines) - f < MaxBackups - faults => \E i \in DOMAIN slot : slot[i] = f

(* A batch that SendBatch answered with nil was written whole, once the lines   *)
(* are counted over all attempts.                                               *)
AckedWritten ==
    \A b \in acked : \E f \in 1..Len(lines) : \E k \in 0..Len(lines[f]) :
        /\ k + Batches[b] <= Len(lines[f])
        /\ \A i \in 1..Batches[b] : lines[f][k + i].whole /\ log[lines[f][k + i].at] = b

(* Tail gives the lines in the order they were written and none of them twice,  *)
(* and it leaves a file for another only when it has given every line of it.    *)
TailFollows ==
    /\ \A i \in 2..Len(seen) : seen[i - 1] < seen[i]
    /\ \A f \in left : {lines[f][k].at : k \in Readable(f)} \subseteq ToSet(seen)

(* file.go: errClosed "is what a write after Close returns". *)
RefusedOnlyAfterClose == refused => closed
=============================================================================
