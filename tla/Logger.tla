------------------------------- MODULE Logger -------------------------------
(***************************************************************************)
(* One Logger (event.go, plain.go, stages.go, drain.go, stats.go) and the  *)
(* audit calls on top of it (audit/audit.go): an event that ends passes    *)
(* the closed check, the level filter, head sampling, the keepers and the  *)
(* size cap, and then goes to every drain in order and to the writer.      *)
(*                                                                         *)
(* Each event ends on a goroutine of its own.  What one goroutine does     *)
(* between two reads of what others write is one step.  The stages that    *)
(* only rewrite an event (enrich, redact, summary) and the observers       *)
(* (measurers, starters, finishers) decide nothing and are left out; a     *)
(* stage that panics is recovered and keeps the event.  The writer is in   *)
(* Writer, and what a drain does with an event is in its own module.       *)
(***************************************************************************)
EXTENDS Naturals, FiniteSets

CONSTANTS Works,         \* units of work
          Lines,         \* plain log lines: Info, Warn, Debug, Log
          Recorders,     \* calls of audit.Do, each also the event Do may open
          NDrains,       \* how many drains there are
          Closable,      \* the drains that implement Close and Flush
          MayStick,      \* the drains whose Close may never return
          HeadSampler, Keepers,   \* whether the stages are configured
          NoWork,        \* a recorder whose context has no event
          Casts          \* bound: the events of one behaviour, one of these sets

Events == Works \cup Lines \cup Recorders
Drains == 1..NDrains
Reasons == {"disabled", "closed", "level", "sampled", "too_large", "emitted"}

ASSUME LoggerAssumption ==
    /\ NDrains \in Nat /\ Closable \subseteq Drains /\ MayStick \subseteq Closable
    /\ {HeadSampler, Keepers} \subseteq BOOLEAN
    /\ Works \cap Lines = {} /\ Recorders \cap (Works \cup Lines) = {}
    /\ NoWork \notin Events /\ Casts \subseteq SUBSET Events

VARIABLES
    enabled, closed,   \* the Logger's two flags
    silent,            \* WithSilent: nothing is printed
    stuck,             \* the drains whose Close never returns
    pc,                \* where each event is on its way
    audit,             \* the records in each event's audit array
    sealed,            \* the sealed units
    on,                \* the unit each audit.Do writes to
    got,               \* what each drain received
    turn,              \* the drain each event is sent to next
    counted,           \* loggerStats: the counters each event was counted in
    line,              \* the events handed to the writer
    asked, shut,       \* the drains whose Close was called, and returned
    closer, flusher,   \* where the call of Close and that of Flush are
    next,              \* the drain Flush comes to next
    flushed, failed    \* the drains Flush has called; whether one of them failed

(* History: what the head sampler and the keepers said, the audit records that  *)
(* became late writes, the drains that panicked, and the events whose line did   *)
(* not encode.                                                                   *)
VARIABLES head, rescued, lateAudit, threw, unprinted

flags    == <<enabled, closed, silent, stuck>>
closing  == <<asked, shut, closer>>
flushing == <<flusher, next, flushed, failed>>
history  == <<head, rescued, lateAudit, threw, unprinted>>
vars     == <<flags, pc, audit, sealed, on, got, turn, counted, line, closing, flushing, history>>

Init ==
    /\ enabled = TRUE /\ closed = FALSE /\ silent \in BOOLEAN /\ stuck \in SUBSET MayStick
    /\ \E cast \in Casts : pc = [e \in Events |-> IF e \in cast THEN "new" ELSE "absent"]
    /\ audit = [e \in Events |-> {}] /\ sealed = {}
    /\ on = [r \in Recorders |-> NoWork]
    /\ got = [d \in Drains |-> {}] /\ turn = [e \in Events |-> 1]
    /\ counted = [e \in Events |-> {}] /\ line = {}
    /\ asked = {} /\ shut = {} /\ closer = "idle"
    /\ flusher = "idle" /\ next = 1 /\ flushed = {} /\ failed = FALSE
    /\ head = [e \in Events |-> "unasked"] /\ rescued = {} /\ lateAudit = {}
    /\ threw = {} /\ unprinted = {}

Move(e, place) == pc' = [pc EXCEPT ![e] = place]
Count(e, reason) == counted' = [counted EXCEPT ![e] = @ \cup {reason}]

Toggle ==
    /\ enabled' = ~enabled
    /\ UNCHANGED <<closed, silent, stuck, pc, audit, sealed, on, got, turn, counted, line, closing, flushing, history>>

----------------------------------------------------------------------------
(* Units of work *)

Start(e) ==
    /\ e \in Works /\ pc[e] = "new"
    /\ IF enabled
       THEN Move(e, "open") /\ UNCHANGED counted
       ELSE Move(e, "done") /\ Count(e, "disabled")
    /\ UNCHANGED <<flags, audit, sealed, on, got, turn, line, closing, flushing, history>>

(* The end func, in two steps: emit reads closed, then seals and filters. *)
EndCheckGoesOn(e) ==                                   \* mutant: no return when closed
    /\ e \in Works \cup Recorders /\ pc[e] = "open"
    /\ Move(e, "seal")
    /\ IF closed THEN Count(e, "closed") ELSE UNCHANGED counted
    /\ UNCHANGED <<flags, audit, sealed, on, got, turn, line, closing, flushing, history>>
EndCheck(e) ==
    /\ e \in Works \cup Recorders /\ pc[e] = "open"
    /\ IF closed
       THEN Move(e, "done") /\ Count(e, "closed")
       ELSE Move(e, "seal") /\ UNCHANGED counted
    /\ UNCHANGED <<flags, audit, sealed, on, got, turn, line, closing, flushing, history>>

NoException(e, low) == low                             \* mutant: audit is filtered too
Filtered(e, low)    == low /\ audit[e] = {}
EndSeal(e) ==
    /\ pc[e] = "seal"
    /\ sealed' = sealed \cup {e}
    /\ \E low \in BOOLEAN :
          IF Filtered(e, low)
          THEN Move(e, "done") /\ Count(e, "level")
          ELSE Move(e, "head") /\ UNCHANGED counted
    /\ UNCHANGED <<flags, audit, on, got, turn, line, closing, flushing, history>>

----------------------------------------------------------------------------
(* Plain lines: the closed flag is not read *)

PlainLine(e) ==
    /\ e \in Lines /\ pc[e] = "new"
    /\ \E low \in BOOLEAN :
          IF ~enabled THEN Move(e, "done") /\ Count(e, "disabled")
          ELSE IF low THEN Move(e, "done") /\ Count(e, "level")
          ELSE Move(e, "head") /\ UNCHANGED counted
    /\ UNCHANGED <<flags, audit, sealed, on, got, turn, line, closing, flushing, history>>

----------------------------------------------------------------------------
(* audit.Do: HasEvent, and then a write to that event or an event of its own *)

DoCheck(r, w) ==
    /\ r \in Recorders /\ pc[r] = "new"
    /\ w # NoWork => pc[w] \notin {"absent", "new"} /\ "disabled" \notin counted[w]
    /\ on' = [on EXCEPT ![r] = w]
    /\ Move(r, IF w \in Works \ sealed THEN "append" ELSE "own")
    /\ UNCHANGED <<flags, audit, sealed, got, turn, counted, line, closing, flushing, history>>

(* Append: the record of a sealed unit is a late write. *)
DoAppend(r) ==
    /\ pc[r] = "append"
    /\ IF on[r] \in sealed
       THEN lateAudit' = lateAudit \cup {r} /\ UNCHANGED audit
       ELSE audit' = [audit EXCEPT ![on[r]] = @ \cup {r}] /\ UNCHANGED lateAudit
    /\ Move(r, "told")
    /\ UNCHANGED <<flags, sealed, on, got, turn, counted, line, closing, flushing,
                   head, rescued, threw, unprinted>>

(* Start and Append of a new event; a Logger that is off leaves the old one there. *)
DoOwn(r) ==
    /\ pc[r] = "own"
    /\ IF enabled
       THEN /\ audit' = [audit EXCEPT ![r] = {r}] /\ Move(r, "open")
            /\ UNCHANGED <<counted, lateAudit>>
       ELSE /\ Move(r, "done") /\ Count(r, "disabled")
            /\ lateAudit' = IF on[r] = NoWork THEN lateAudit ELSE lateAudit \cup {r}
            /\ UNCHANGED audit
    /\ UNCHANGED <<flags, sealed, on, got, turn, line, closing, flushing,
                   head, rescued, threw, unprinted>>

----------------------------------------------------------------------------
(* The stages *)

(* headKeep, keepEvent and finalizeSize.  rate < 100 is the sampler's choice. *)
Sampled(e) == HeadSampler /\ audit[e] = {}
Stages(e) ==
    /\ pc[e] = "head"
    /\ \E keep \in (IF Sampled(e) THEN BOOLEAN ELSE {TRUE}), partial \in BOOLEAN,
          yes \in (IF Keepers THEN BOOLEAN ELSE {FALSE}), size \in {"fits", "too_large"} :
       LET asks == audit[e] = {} /\ Keepers /\ (~keep \/ ~HeadSampler \/ partial)
           kept == IF asks THEN (keep \/ yes) ELSE keep
       IN
       /\ head' = [head EXCEPT ![e] = IF keep THEN "keep" ELSE "drop"]
       /\ rescued' = IF asks /\ yes THEN rescued \cup {e} ELSE rescued
       /\ IF ~kept THEN Move(e, "done") /\ Count(e, "sampled")
          ELSE IF size = "too_large" THEN Move(e, "done") /\ Count(e, "too_large")
          ELSE Move(e, "send") /\ Count(e, "emitted")
    /\ UNCHANGED <<flags, audit, sealed, on, got, turn, line, closing, flushing,
                   lateAudit, threw, unprinted>>

(* safeSend: a drain that panics is reported, and the next one has its turn. *)
StopAtPanic(panics) == IF panics THEN NDrains + 1 ELSE 1            \* mutant
Onward(panics)      == 1
Send(e) ==
    /\ pc[e] = "send" /\ turn[e] <= NDrains
    /\ LET d == turn[e] IN
       \E panics \in BOOLEAN :
          /\ got' = [got EXCEPT ![d] = IF panics THEN @ ELSE @ \cup {e}]
          /\ threw' = IF panics THEN threw \cup {<<d, e>>} ELSE threw
          /\ turn' = [turn EXCEPT ![e] = @ + Onward(panics)]
    /\ UNCHANGED <<flags, pc, audit, sealed, on, counted, line, closing, flushing,
                   head, rescued, lateAudit, unprinted>>

(* A silent Logger stops after the drains; what does not encode is reported. *)
WriteEvent(e) ==
    /\ pc[e] = "send" /\ turn[e] > NDrains
    /\ \/ silent /\ UNCHANGED <<line, unprinted>>
       \/ ~silent /\ line' = line \cup {e} /\ UNCHANGED unprinted
       \/ ~silent /\ unprinted' = unprinted \cup {e} /\ UNCHANGED line
    /\ Move(e, "done")
    /\ UNCHANGED <<flags, audit, sealed, on, got, turn, counted, closing, flushing,
                   head, rescued, lateAudit, threw>>

----------------------------------------------------------------------------
(* Flush and Close *)

(* The writer's flush, and then every drain in order; an error does not end it. *)
(* Flush and the events read nothing of each other's: it is taken without them. *)
FlushStart ==
    /\ flusher = "idle" /\ \A e \in Events : pc[e] = "absent"
    /\ \E bad \in BOOLEAN : failed' = bad
    /\ flusher' = "drains"
    /\ UNCHANGED <<flags, pc, audit, sealed, on, got, turn, counted, line, closing,
                   next, flushed, history>>

FlushDrain ==
    /\ flusher = "drains" /\ next <= NDrains
    /\ \E bad \in (IF next \in Closable THEN BOOLEAN ELSE {FALSE}) :
          /\ next' = next + 1
          /\ failed' = (failed \/ bad)
    /\ flushed' = flushed \cup ({next} \cap Closable)
    /\ UNCHANGED <<flags, pc, audit, sealed, on, got, turn, counted, line, closing,
                   flusher, history>>

FlushReturn ==
    /\ flusher = "drains" /\ next > NDrains
    /\ flusher' = "returned"
    /\ UNCHANGED <<flags, pc, audit, sealed, on, got, turn, counted, line, closing,
                   next, flushed, failed, history>>

CloseStart ==
    /\ closer = "idle"
    /\ closed' = TRUE /\ closer' = "writer"
    /\ UNCHANGED <<enabled, silent, stuck, pc, audit, sealed, on, got, turn, counted, line, asked, shut,
                   flushing, history>>

(* writer.stop returns, because it is done or because ctx ended. *)
CloseWriter ==
    /\ closer = "writer"
    /\ closer' = "drains"
    /\ UNCHANGED <<flags, pc, audit, sealed, on, got, turn, counted, line, asked, shut,
                   flushing, history>>

(* Each drain's Close runs on a goroutine of its own. *)
InTurn(d) == d \notin asked /\ \A c \in Closable : c < d => c \in shut   \* mutant
AtOnce(d) == d \notin asked
CloseDrain(d) ==
    /\ closer \in {"drains", "returned"} /\ d \in Closable /\ AtOnce(d)
    /\ asked' = asked \cup {d}
    /\ UNCHANGED <<flags, pc, audit, sealed, on, got, turn, counted, line, shut, closer,
                   flushing, history>>

Finishes(d) == d \in asked \ (shut \cup stuck)
DrainShut(d) ==
    /\ Finishes(d)
    /\ shut' = shut \cup {d}
    /\ UNCHANGED <<flags, pc, audit, sealed, on, got, turn, counted, line, asked, closer,
                   flushing, history>>

CloseReturn ==
    /\ closer = "drains" /\ Closable \subseteq shut
    /\ closer' = "returned"
    /\ UNCHANGED <<flags, pc, audit, sealed, on, got, turn, counted, line, asked, shut,
                   flushing, history>>

CloseTimeout ==
    /\ closer = "drains"
    /\ closer' = "returned"
    /\ UNCHANGED <<flags, pc, audit, sealed, on, got, turn, counted, line, asked, shut,
                   flushing, history>>

----------------------------------------------------------------------------
Emit(e) == EndCheck(e) \/ EndSeal(e) \/ Stages(e) \/ Send(e) \/ WriteEvent(e)
Do(r)   == (\E w \in Works \cup {NoWork} : DoCheck(r, w)) \/ DoAppend(r) \/ DoOwn(r)
Flush   == FlushStart \/ FlushDrain \/ FlushReturn
Close   == CloseStart \/ CloseWriter \/ CloseReturn \/ CloseTimeout

Next == \/ Toggle
        \/ \E e \in Works : Start(e)
        \/ \E e \in Lines : PlainLine(e)
        \/ \E e \in Events : Emit(e)
        \/ \E r \in Recorders : Do(r)
        \/ Flush \/ Close
        \/ \E d \in Closable : CloseDrain(d) \/ DrainShut(d)

Spec == Init /\ [][Next]_vars

----------------------------------------------------------------------------
(* Properties *)

Places == {"absent", "new", "open", "seal", "append", "own", "told", "head", "send", "done"}
TypeOK ==
    /\ {enabled, closed, silent} \subseteq BOOLEAN /\ stuck \subseteq MayStick
    /\ pc \in [Events -> Places] /\ turn \in [Events -> 1..NDrains + 1]
    /\ audit \in [Events -> SUBSET Recorders] /\ sealed \subseteq Events
    /\ on \in [Recorders -> Works \cup {NoWork}]
    /\ got \in [Drains -> SUBSET Events] /\ counted \in [Events -> SUBSET Reasons]
    /\ line \subseteq Events /\ unprinted \subseteq Events /\ asked \subseteq Closable /\ shut \subseteq asked
    /\ closer \in {"idle", "writer", "drains", "returned"}
    /\ flusher \in {"idle", "drains", "returned"} /\ next \in 1..NDrains + 1
    /\ flushed \subseteq Closable /\ failed \in BOOLEAN

(* Stats counts each finished event in exactly one counter, and no other event. *)
CountedOnce ==
    /\ TypeOK
    /\ \A e \in Events : IF pc[e] \in {"send", "done"}
                         THEN \E x \in Reasons : counted[e] = {x}
                         ELSE counted[e] = {}

(* One drain that panics never keeps an event from the others or from the writer: *)
(* every event that is through with "emitted" came to each drain, and was printed  *)
(* unless the Logger is silent.  One that fails never keeps Flush from the others. *)
ReachesAll ==
    /\ \A e \in Events : pc[e] = "done" /\ "emitted" \in counted[e] =>
           /\ \A d \in Drains : e \in got[d] \/ <<d, e>> \in threw
           /\ silent \/ e \in line \cup unprinted
    /\ \A e \in line \cup unprinted : pc[e] = "done" /\ counted[e] = {"emitted"}
    /\ flusher = "returned" => flushed = Closable

(* "An audit fact is never filtered away": a unit that holds a record when it is  *)
(* sealed is dropped by neither the level filter nor sampling.  A keeper "never    *)
(* drops an event the head sampler kept", and its yes forces a dropped one back.   *)
AuditKept ==
    /\ \A e \in sealed : audit[e] # {} => counted[e] \cap {"level", "sampled"} = {}
    /\ \A e \in Events : "sampled" \in counted[e] => head[e] = "drop" /\ e \notin rescued

(* "One slow drain never delays the others": while Close runs, and after it too,  *)
(* each drain that is not stuck has been shut or can go on, whatever the others do. *)
ClosesAll ==
    closer \in {"drains", "returned"} =>
        \A d \in Closable \ (shut \cup stuck) : AtOnce(d) \/ Finishes(d)

(* Logger and audit.Do: each event ends in one counter and each audit record      *)
(* passes the filters; a drain that panics, fails or is stuck in Close keeps the   *)
(* others from nothing.                                                            *)
EventsTold == CountedOnce /\ AuditKept /\ ReachesAll /\ ClosesAll

----------------------------------------------------------------------------
(* What the comments say, and the code does not keep *)

(* An audit call "never becomes a late write into a sealed event". *)
AuditNeverLate == lateAudit = {}

(* "An event that arrives after Close sends nothing": a line that begins once     *)
(* Close has returned goes no further.                                            *)
SilentAfterClose ==
    [][\A e \in Lines : closer = "returned" /\ pc[e] = "new" => pc'[e] # "head"]_vars

(* emit tests closed because "a closed drain would drop the event silently": no   *)
(* unit of work is sent to a drain whose Close was called.                        *)
NoWorkToClosedDrain == [][\A d \in asked : got'[d] \ got[d] \subseteq Lines]_vars
=============================================================================
