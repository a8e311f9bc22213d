---------------------------- MODULE LoggerProofs -----------------------------
(***************************************************************************)
(* What holds of Logger for any events, drains and audit calls in any      *)
(* order; and of its audit journal for any number of instances on one      *)
(* path, however often they crash, fail and find the file changed.  The    *)
(* theorems about the journal's scene are in DrainsProofs.                 *)
(***************************************************************************)
EXTENDS Logger, MCJournal, Integers, Sequences, FiniteSetTheorems, SequenceTheorems,
        WellFoundedInduction, TLAPS

----------------------------------------------------------------------------
(* Logger *)

(* An event is sealed once emit came past the closed check. *)
Early == {"absent", "new", "open", "seal", "append", "own", "told"}
NotYet(e) == pc[e] \in Early => e \notin sealed

(* One counter when the event is through, and nothing before: no counter, no drain, *)
(* no rescue.                                                                        *)
OneCounter(e) == IF pc[e] \in {"send", "done"}
                 THEN \E x \in Reasons : counted[e] = {x}
                 ELSE counted[e] = {} /\ turn[e] = 1 /\ e \notin rescued

(* What the filters did, of an event with a record and of any. *)
Facts(e) == e \in sealed /\ audit[e] # {} => counted[e] \cap {"level", "sampled"} = {}
Drawn(e) == "sampled" \in counted[e] => head[e] = "drop" /\ e \notin rescued

(* The drains have their turns in order, and the writer after them. *)
Turns(e) ==
    /\ \A d \in Drains : /\ e \in got[d] => d < turn[e]
                         /\ d < turn[e] => e \in got[d] \/ <<d, e>> \in threw
    /\ e \in line \cup unprinted => pc[e] = "done" /\ counted[e] = {"emitted"}
    /\ pc[e] = "send" => counted[e] = {"emitted"}
    /\ pc[e] = "done" /\ "emitted" \in counted[e] => turn[e] > NDrains /\ (silent \/ e \in line \cup unprinted)

EventInv(e) == NotYet(e) /\ OneCounter(e) /\ Facts(e) /\ Drawn(e) /\ Turns(e)

(* Flush has come to the drains before next, and to those only. *)
FlushedSoFar ==
    /\ flushed = {d \in Closable : d < next}
    /\ flusher = "returned" => next > NDrains

HeadType == head \in [Events -> {"unasked", "keep", "drop"}]
LoggerInv == TypeOK /\ HeadType /\ (\A e \in Events : EventInv(e)) /\ FlushedSoFar

----------------------------------------------------------------------------
LEMMA Names ==
    /\ NDrains \in Nat /\ Drains = 1..NDrains /\ Closable \subseteq Drains /\ MayStick \subseteq Closable
    /\ \A d \in Closable : d \in Nat /\ 1 <= d /\ d <= NDrains
    /\ Works \subseteq Events /\ Lines \subseteq Events /\ Recorders \subseteq Events
    /\ NoWork \notin Events /\ Works \cap Lines = {} /\ Recorders \cap (Works \cup Lines) = {}
    /\ Casts \subseteq SUBSET Events /\ HeadSampler \in BOOLEAN /\ Keepers \in BOOLEAN
  BY LoggerAssumption DEF Events, Drains

LEMMA Initially ==
    ASSUME Init
    PROVE  LoggerInv
<1> USE Names
<1>1. TypeOK
  <2>1. pc \in [Events -> Places]
    BY DEF Init, Places
  <2>2. 1 \in 1..NDrains + 1
    OBVIOUS
  <2>3. /\ turn \in [Events -> 1..NDrains + 1] /\ audit \in [Events -> SUBSET Recorders]
        /\ on \in [Recorders -> Works \cup {NoWork}]
    BY <2>2 DEF Init
  <2>4. got \in [Drains -> SUBSET Events] /\ counted \in [Events -> SUBSET Reasons]
    BY DEF Init
  <2>5. /\ {enabled, closed, silent} \subseteq BOOLEAN /\ failed \in BOOLEAN /\ unprinted \subseteq Events
        /\ stuck \subseteq MayStick /\ sealed \subseteq Events
        /\ line \subseteq Events /\ asked \subseteq Closable /\ shut \subseteq asked
        /\ closer \in {"idle", "writer", "drains", "returned"}
        /\ flusher \in {"idle", "drains", "returned"} /\ next \in 1..NDrains + 1
        /\ flushed \subseteq Closable
    BY <2>2 DEF Init
  <2> QED  BY <2>1, <2>3, <2>4, <2>5 DEF TypeOK
<1>2. ASSUME NEW e \in Events PROVE EventInv(e)
  <2>1. /\ pc[e] \in {"new", "absent"} /\ sealed = {} /\ counted[e] = {} /\ turn[e] = 1
        /\ rescued = {} /\ line = {} /\ unprinted = {} /\ \A d \in Drains : got[d] = {}
    BY DEF Init
  <2>2. \A d \in Drains : ~(d < 1)
    OBVIOUS
  <2> QED  BY <2>1, <2>2 DEF EventInv, NotYet, OneCounter, Facts, Drawn, Turns
<1>3. FlushedSoFar
  <2>1. \A d \in Closable : ~(d < 1)
    BY Names
  <2> QED  BY <2>1 DEF Init, FlushedSoFar
<1>4. HeadType
  BY DEF Init, HeadType
<1> QED  BY <1>1, <1>2, <1>3, <1>4 DEF LoggerInv

----------------------------------------------------------------------------
(* A step of the Logger is a step of one event, or of none. *)

Untouched == UNCHANGED <<silent, pc, audit, sealed, on, got, turn, counted, line, history>>
Steps(e) ==
    \/ Start(e) \/ PlainLine(e)
    \/ EndCheck(e) \/ EndSeal(e) \/ Stages(e) \/ Send(e) \/ WriteEvent(e)
    \/ e \in Recorders /\ ((\E w \in Works \cup {NoWork} : DoCheck(e, w)) \/ DoAppend(e) \/ DoOwn(e))

LEMMA StepCases ==
    ASSUME [Next]_vars
    PROVE  Untouched \/ \E e \in Events : Steps(e)
<1>1. CASE UNCHANGED vars
  BY <1>1 DEF vars, flags, history, Untouched
<1>2. CASE Toggle
  BY <1>2 DEF Toggle, Untouched
<1>3. CASE Flush
  BY <1>3 DEF Flush, FlushStart, FlushDrain, FlushReturn, flags, Untouched
<1>4. CASE Close \/ \E d \in Closable : CloseDrain(d) \/ DrainShut(d)
  BY <1>4 DEF Close, CloseStart, CloseWriter, CloseReturn, CloseTimeout, CloseDrain, DrainShut, flags, Untouched
<1>5. CASE \/ \E e \in Works : Start(e)
           \/ \E e \in Lines : PlainLine(e)
           \/ \E e \in Events : Emit(e)
           \/ \E r \in Recorders : Do(r)
  <2>1. \A e : Emit(e) \/ (e \in Recorders /\ Do(e)) \/ Start(e) \/ PlainLine(e) => Steps(e)
    BY Zenon DEF Emit, Do, Steps
  <2>2. Works \subseteq Events /\ Lines \subseteq Events /\ Recorders \subseteq Events
    BY Names
  <2> QED  BY <1>5, <2>1, <2>2, Zenon
<1> QED  BY <1>1, <1>2, <1>3, <1>4, <1>5 DEF Next

(* An event that a step does not touch.  A record may come to its array until it is *)
(* sealed.                                                                           *)
Left(e) ==
    /\ pc'[e] = pc[e] /\ counted'[e] = counted[e] /\ head'[e] = head[e] /\ turn'[e] = turn[e]
    /\ (e \in sealed' <=> e \in sealed) /\ (e \in rescued' <=> e \in rescued)
    /\ (e \in line' <=> e \in line) /\ (e \in unprinted' <=> e \in unprinted) /\ silent' = silent
    /\ e \in sealed => audit'[e] = audit[e]
    /\ \A d \in Drains : (e \in got'[d] <=> e \in got[d]) /\ (<<d, e>> \in threw' <=> <<d, e>> \in threw)

LEMMA LeftKeeps ==
    ASSUME NEW e \in Events, EventInv(e), Left(e)
    PROVE  EventInv(e)'
<1>1. NotYet(e)' /\ OneCounter(e)' /\ Drawn(e)'
  BY DEF EventInv, NotYet, OneCounter, Drawn, Left
<1>2. Facts(e)'
  BY DEF EventInv, Facts, Left
<1>3. Turns(e)'
  BY DEF EventInv, Turns, Left
<1> QED  BY <1>1, <1>2, <1>3 DEF EventInv

(* What each part of TypeOK says of one event. *)
LEMMA Typed ==
    ASSUME LoggerInv, NEW e \in Events
    PROVE  /\ pc \in [Events -> Places] /\ turn \in [Events -> 1..NDrains + 1]
           /\ audit \in [Events -> SUBSET Recorders] /\ counted \in [Events -> SUBSET Reasons]
           /\ head \in [Events -> {"unasked", "keep", "drop"}] /\ got \in [Drains -> SUBSET Events]
           /\ EventInv(e)
  BY DEF LoggerInv, TypeOK, HeadType

(* A step that moves an event to another place before the stages, and counts nothing. *)
LEMMA Moves ==
    ASSUME LoggerInv, NEW e \in Events, pc[e] \notin {"send", "done"}, NEW p \in Places,
           Move(e, p), p \notin {"send", "done"},
           p \in Early => e \notin sealed',
           \A f \in Events : f # e => (f \in sealed' <=> f \in sealed),
           \A f \in Events : f \in sealed /\ f \in sealed' => audit'[f] = audit[f],
           UNCHANGED <<silent, got, turn, counted, line, head, rescued, threw, unprinted>>
    PROVE  \A f \in Events : EventInv(f)'
<1>1. /\ pc \in [Events -> Places] /\ pc' = [pc EXCEPT ![e] = p]
  BY Typed DEF Move
<1>2. pc'[e] = p /\ \A f \in Events : f # e => pc'[f] = pc[f]
  BY <1>1
<1>3. ASSUME NEW f \in Events, f # e PROVE EventInv(f)'
  <2>1. Left(f)
    BY <1>2, <1>3, Typed DEF Left
  <2> QED  BY <2>1, LeftKeeps, Typed
<1>4. EventInv(e)'
  <2>1. EventInv(e) /\ counted[e] = {} /\ turn[e] = 1 /\ e \notin rescued
    BY Typed DEF EventInv, OneCounter
  <2>2. NotYet(e)'
    BY <1>2 DEF NotYet
  <2>3. OneCounter(e)' /\ Drawn(e)' /\ Facts(e)'
    BY <1>2, <2>1 DEF OneCounter, Drawn, Facts
  <2>4. Turns(e)'
    BY <1>2, <2>1 DEF EventInv, Turns
  <2> QED  BY <2>2, <2>3, <2>4 DEF EventInv
<1> QED  BY <1>3, <1>4

(* A step that ends an event before the drains, with the counter it ends in. *)
LEMMA Ends ==
    ASSUME LoggerInv, NEW e \in Events, pc[e] \notin {"send", "done"}, NEW p \in {"send", "done"},
           NEW reason \in Reasons, Move(e, p), Count(e, reason),
           \A f \in Events : f # e => (f \in sealed' <=> f \in sealed) /\ (f \in rescued' <=> f \in rescued),
           \A f \in Events : f \in sealed /\ f \in sealed' => audit'[f] = audit[f],
           \A f \in Events : f # e => head'[f] = head[f],
           reason \in {"level", "sampled"} => audit'[e] = {} \/ e \notin sealed',
           reason = "sampled" => head'[e] = "drop" /\ e \notin rescued',
           reason = "emitted" <=> p = "send",
           UNCHANGED <<silent, got, turn, line, threw, unprinted>>
    PROVE  \A f \in Events : EventInv(f)'
<1>1. /\ pc \in [Events -> Places] /\ pc' = [pc EXCEPT ![e] = p]
      /\ counted \in [Events -> SUBSET Reasons] /\ counted' = [counted EXCEPT ![e] = counted[e] \cup {reason}]
  BY Typed DEF Move, Count
<1>2. /\ pc'[e] = p /\ counted'[e] = counted[e] \cup {reason}
      /\ \A f \in Events : f # e => pc'[f] = pc[f] /\ counted'[f] = counted[f]
  BY <1>1
<1>3. ASSUME NEW f \in Events, f # e PROVE EventInv(f)'
  <2>1. Left(f)
    BY <1>2, <1>3, Typed DEF Left
  <2> QED  BY <2>1, LeftKeeps, Typed
<1>4. EventInv(e)'
  <2>1. EventInv(e) /\ counted[e] = {} /\ turn[e] = 1 /\ e \notin rescued
    BY Typed DEF EventInv, OneCounter
  <2>2. counted'[e] = {reason}
    BY <1>2, <2>1
  <2>3. NotYet(e)' /\ OneCounter(e)'
    BY <1>2, <2>2 DEF NotYet, OneCounter, Early
  <2>4. Drawn(e)' /\ Facts(e)'
    BY <2>2 DEF Drawn, Facts
  <2>5. Turns(e)'
    <3>1. e \notin line \cup unprinted /\ \A d \in Drains : e \in got[d] => d < 1
      BY <2>1 DEF EventInv, Turns
    <3> QED  BY <1>2, <2>1, <2>2, <3>1 DEF EventInv, Turns
  <2> QED  BY <2>3, <2>4, <2>5 DEF EventInv
<1> QED  BY <1>3, <1>4

LEMMA StartStep ==
    ASSUME LoggerInv, NEW e \in Events, Start(e) \/ PlainLine(e)
    PROVE  \A f \in Events : EventInv(f)'
<1>1. /\ pc[e] = "new" /\ e \notin sealed
      /\ UNCHANGED <<silent, audit, sealed, got, turn, line, head, rescued, threw, unprinted>>
  BY Typed DEF Start, PlainLine, flags, history, EventInv, NotYet, Early
<1>2. CASE \E p \in {"open", "head"} : Move(e, p) /\ UNCHANGED counted
  BY <1>1, <1>2, Moves DEF Places
<1>3. CASE Move(e, "done") /\ Count(e, "disabled")
  BY <1>1, <1>3, Ends DEF Reasons
<1>4. CASE Move(e, "done") /\ Count(e, "level")
  BY <1>1, <1>4, Ends DEF Reasons
<1> QED  BY <1>2, <1>3, <1>4 DEF Start, PlainLine

LEMMA EndStep ==
    ASSUME LoggerInv, NEW e \in Events, EndCheck(e) \/ EndSeal(e)
    PROVE  \A f \in Events : EventInv(f)'
<1>1. CASE EndCheck(e)
  <2>1. /\ pc[e] = "open" /\ e \notin sealed
        /\ UNCHANGED <<silent, audit, sealed, got, turn, line, head, rescued, threw, unprinted>>
    BY <1>1, Typed DEF EndCheck, flags, history, EventInv, NotYet, Early
  <2>2. CASE Move(e, "seal") /\ UNCHANGED counted
    BY <2>1, <2>2, Moves DEF Places
  <2>3. CASE Move(e, "done") /\ Count(e, "closed")
    BY <2>1, <2>3, Ends DEF Reasons
  <2> QED  BY <1>1, <2>2, <2>3 DEF EndCheck
<1>2. CASE EndSeal(e)
  <2>1. /\ pc[e] = "seal" /\ sealed' = sealed \cup {e}
        /\ UNCHANGED <<silent, audit, got, turn, line, head, rescued, threw, unprinted>>
    BY <1>2 DEF EndSeal, flags, history
  <2>2. CASE Move(e, "head") /\ UNCHANGED counted
    BY <2>1, <2>2, Moves DEF Places, Early
  <2>3. CASE Move(e, "done") /\ Count(e, "level") /\ audit[e] = {}
    BY <2>1, <2>3, Ends DEF Reasons
  <2>4. \/ Move(e, "head") /\ UNCHANGED counted
        \/ Move(e, "done") /\ Count(e, "level") /\ audit[e] = {}
    BY <1>2 DEF EndSeal, Filtered
  <2> QED  BY <2>2, <2>3, <2>4
<1> QED  BY <1>1, <1>2

(* audit.Do: no record comes to a sealed unit. *)
LEMMA DoStep ==
    ASSUME LoggerInv, NEW r \in Recorders, NEW w,
           DoCheck(r, w) \/ DoAppend(r) \/ DoOwn(r)
    PROVE  \A f \in Events : EventInv(f)'
<1>0. r \in Events
  BY Names
<1>1. CASE DoCheck(r, w)
  <2>1. /\ pc[r] = "new" /\ r \notin sealed
        /\ UNCHANGED <<silent, audit, sealed, got, turn, counted, line, head, rescued, threw, unprinted>>
    BY <1>0, <1>1, Typed DEF DoCheck, flags, history, EventInv, NotYet, Early
  <2>2. \E p \in {"append", "own"} : Move(r, p)
    BY <1>1 DEF DoCheck
  <2> QED  BY <1>0, <2>1, <2>2, Moves DEF Places
<1>2. CASE DoAppend(r)
  <2>1. /\ pc[r] = "append" /\ r \notin sealed /\ Move(r, "told")
        /\ UNCHANGED <<silent, sealed, got, turn, counted, line, head, rescued, threw, unprinted>>
    BY <1>0, <1>2, Typed DEF DoAppend, flags, EventInv, NotYet, Early
  <2>2. \A f \in Events : f \in sealed => audit'[f] = audit[f]
    BY <1>0, <1>2, Typed DEF DoAppend
  <2> QED  BY <1>0, <2>1, <2>2, Moves DEF Places
<1>3. CASE DoOwn(r)
  <2>1. /\ pc[r] = "own" /\ r \notin sealed
        /\ UNCHANGED <<silent, sealed, got, turn, line, head, rescued, threw, unprinted>>
    BY <1>0, <1>3, Typed DEF DoOwn, flags, EventInv, NotYet, Early
  <2>2. CASE audit' = [audit EXCEPT ![r] = {r}] /\ Move(r, "open") /\ UNCHANGED counted
    <3>1. \A f \in Events : f \in sealed => audit'[f] = audit[f]
      BY <1>0, <2>1, <2>2, Typed
    <3> QED  BY <1>0, <2>1, <2>2, <3>1, Moves DEF Places
  <2>3. CASE Move(r, "done") /\ Count(r, "disabled") /\ UNCHANGED audit
    BY <1>0, <2>1, <2>3, Ends DEF Reasons
  <2> QED  BY <1>3, <2>2, <2>3 DEF DoOwn
<1> QED  BY <1>1, <1>2, <1>3

(* The sampler and the keepers: an event with a record is kept, and so is one that *)
(* the sampler keeps or a keeper asks for.                                          *)
LEMMA StagesStep ==
    ASSUME LoggerInv, NEW e \in Events, Stages(e)
    PROVE  \A f \in Events : EventInv(f)'
<1>1. /\ pc[e] = "head" /\ UNCHANGED <<silent, audit, sealed, got, turn, line, threw, unprinted>>
      /\ e \notin rescued
  BY Typed DEF Stages, flags, EventInv, OneCounter
<1>2. PICK keep \in (IF Sampled(e) THEN BOOLEAN ELSE {TRUE}), partial \in BOOLEAN,
          yes \in (IF Keepers THEN BOOLEAN ELSE {FALSE}), fit \in {"fits", "too_large"} :
       LET asks == audit[e] = {} /\ Keepers /\ (~keep \/ ~HeadSampler \/ partial)
           kept == IF asks THEN (keep \/ yes) ELSE keep
       IN
       /\ head' = [head EXCEPT ![e] = IF keep THEN "keep" ELSE "drop"]
       /\ rescued' = IF asks /\ yes THEN rescued \cup {e} ELSE rescued
       /\ IF ~kept THEN Move(e, "done") /\ Count(e, "sampled")
          ELSE IF fit = "too_large" THEN Move(e, "done") /\ Count(e, "too_large")
          ELSE Move(e, "send") /\ Count(e, "emitted")
  BY DEF Stages
<1> DEFINE asks == audit[e] = {} /\ Keepers /\ (~keep \/ ~HeadSampler \/ partial)
           kept == IF asks THEN (keep \/ yes) ELSE keep
<1>3. /\ \A f \in Events : f # e => (f \in rescued' <=> f \in rescued) /\ head'[f] = head[f]
      /\ head'[e] = (IF keep THEN "keep" ELSE "drop")
  BY <1>2, Typed
<1>4. CASE ~kept
  <2>1. Move(e, "done") /\ Count(e, "sampled")
    BY <1>2, <1>4
  <2>2. ~keep /\ e \notin rescued'
    BY <1>1, <1>2, <1>4
  <2>3. audit[e] = {}
    BY <1>2, <2>2 DEF Sampled
  <2> QED  BY <1>1, <1>3, <2>1, <2>2, <2>3, Ends DEF Reasons
<1>5. CASE kept
  <2>1. \/ Move(e, "done") /\ Count(e, "too_large")
        \/ Move(e, "send") /\ Count(e, "emitted")
    <3> HIDE DEF kept
    <3>1. IF ~kept THEN Move(e, "done") /\ Count(e, "sampled")
          ELSE IF fit = "too_large" THEN Move(e, "done") /\ Count(e, "too_large")
          ELSE Move(e, "send") /\ Count(e, "emitted")
      BY <1>2 DEF kept
    <3>2. CASE fit = "too_large"
      BY <1>5, <3>1, <3>2
    <3>3. CASE fit # "too_large"
      BY <1>5, <3>1, <3>3
    <3> QED  BY <3>2, <3>3
  <2>2. CASE Move(e, "done") /\ Count(e, "too_large")
    BY <1>1, <1>3, <2>2, Ends DEF Reasons
  <2>3. CASE Move(e, "send") /\ Count(e, "emitted")
    BY <1>1, <1>3, <2>3, Ends DEF Reasons
  <2> QED  BY <2>1, <2>2, <2>3
<1> QED  BY <1>4, <1>5

(* A drain has its turn, whether it panics or not; the writer comes last. *)
LEMMA SendStep ==
    ASSUME LoggerInv, NEW e \in Events, Send(e) \/ WriteEvent(e)
    PROVE  \A f \in Events : EventInv(f)'
<1>1. CASE Send(e)
  <2> DEFINE d == turn[e]
  <2>1. PICK panics \in BOOLEAN :
          /\ got' = [got EXCEPT ![d] = IF panics THEN got[d] ELSE got[d] \cup {e}]
          /\ threw' = IF panics THEN threw \cup {<<d, e>>} ELSE threw
          /\ turn' = [turn EXCEPT ![e] = turn[e] + 1]
    BY <1>1 DEF Send, Onward
  <2>2. /\ d \in Drains /\ pc[e] = "send" /\ pc' = pc
        /\ UNCHANGED <<silent, audit, sealed, counted, line, unprinted, head, rescued>>
    BY <1>1, Typed, Names DEF Send, flags
  <2>3. turn'[e] = d + 1 /\ \A f \in Events : f # e => turn'[f] = turn[f]
    BY <2>1, Typed
  <2>4. \A f \in Events : \A x \in Drains : f # e \/ x # d =>
            (f \in got'[x] <=> f \in got[x]) /\ (<<x, f>> \in threw' <=> <<x, f>> \in threw)
    BY <2>1, <2>2, Typed
  <2>5. e \in got'[d] \/ <<d, e>> \in threw'
    BY <2>1, <2>2, Typed
  <2>6. ASSUME NEW f \in Events, f # e PROVE EventInv(f)'
    <3>1. Left(f)
      BY <2>2, <2>3, <2>4, <2>6 DEF Left
    <3> QED  BY <3>1, LeftKeeps, Typed
  <2>7. EventInv(e)'
    <3>1. EventInv(e) /\ e \notin line \cup unprinted /\ counted[e] = {"emitted"}
      BY <2>2, Typed DEF EventInv, Turns
    <3>2. NotYet(e)' /\ OneCounter(e)' /\ Facts(e)' /\ Drawn(e)'
      BY <2>2, <3>1 DEF EventInv, NotYet, OneCounter, Facts, Drawn
    <3>3. ASSUME NEW x \in Drains
          PROVE  (e \in got'[x] => x < turn'[e]) /\ (x < turn'[e] => e \in got'[x] \/ <<x, e>> \in threw')
      <4>1. x \in Nat /\ d \in Nat
        BY <2>2, Names
      <4>2. CASE x = d
        BY <2>3, <2>5, <4>1, <4>2
      <4>3. CASE x # d
        BY <2>3, <2>4, <3>1, <4>1, <4>3 DEF EventInv, Turns
      <4> QED  BY <4>2, <4>3
    <3>4. Turns(e)'
      BY <2>2, <3>1, <3>3 DEF Turns
    <3> QED  BY <3>2, <3>4 DEF EventInv
  <2> QED  BY <2>6, <2>7
<1>2. CASE WriteEvent(e)
  <2>1. /\ pc[e] = "send" /\ pc' = [pc EXCEPT ![e] = "done"] /\ turn[e] > NDrains
        /\ \A f : f # e => (f \in line' <=> f \in line) /\ (f \in unprinted' <=> f \in unprinted)
        /\ silent \/ e \in line' \cup unprinted'
        /\ UNCHANGED <<silent, audit, sealed, got, turn, counted, head, rescued, threw>>
    BY <1>2 DEF WriteEvent, Move, flags
  <2>2. pc'[e] = "done" /\ \A f \in Events : f # e => pc'[f] = pc[f]
    BY <2>1, Typed
  <2>3. ASSUME NEW f \in Events, f # e PROVE EventInv(f)'
    <3>1. Left(f)
      BY <2>1, <2>2, <2>3 DEF Left
    <3> QED  BY <3>1, LeftKeeps, Typed
  <2>4. EventInv(e)'
    <3>1. NotYet(e)' /\ OneCounter(e)' /\ Facts(e)' /\ Drawn(e)'
      BY <2>1, <2>2, Typed DEF EventInv, NotYet, OneCounter, Facts, Drawn, Early
    <3>2. Turns(e)'
      BY <2>1, <2>2, Typed DEF EventInv, Turns
    <3> QED  BY <3>1, <3>2 DEF EventInv
  <2> QED  BY <2>3, <2>4
<1> QED  BY <1>1, <1>2

LEMMA EventsStep ==
    ASSUME LoggerInv, [Next]_vars
    PROVE  \A e \in Events : EventInv(e)'
<1>1. CASE Untouched
  <2>1. \A e \in Events : Left(e)
    BY <1>1 DEF Untouched, Left, history
  <2> QED  BY <2>1, LeftKeeps, Typed
<1>2. ASSUME NEW e \in Events, Steps(e) PROVE \A f \in Events : EventInv(f)'
  BY <1>2, StartStep, EndStep, DoStep, StagesStep, SendStep DEF Steps
<1> QED  BY <1>1, <1>2, StepCases

----------------------------------------------------------------------------
(* Types *)

EventTypes ==
    /\ pc \in [Events -> Places] /\ turn \in [Events -> 1..NDrains + 1]
    /\ audit \in [Events -> SUBSET Recorders] /\ sealed \subseteq Events
    /\ on \in [Recorders -> Works \cup {NoWork}]
    /\ got \in [Drains -> SUBSET Events] /\ counted \in [Events -> SUBSET Reasons]
    /\ line \subseteq Events /\ unprinted \subseteq Events /\ HeadType
LoggerTypes ==
    /\ {enabled, closed, silent} \subseteq BOOLEAN /\ stuck \subseteq MayStick
    /\ asked \subseteq Closable /\ shut \subseteq asked
    /\ closer \in {"idle", "writer", "drains", "returned"}
    /\ flusher \in {"idle", "drains", "returned"} /\ next \in 1..NDrains + 1
    /\ flushed \subseteq Closable /\ failed \in BOOLEAN

LEMMA MoveType ==
    ASSUME EventTypes, NEW e \in Events, NEW p \in Places, Move(e, p)
    PROVE  pc' \in [Events -> Places]
  BY DEF EventTypes, Move

LEMMA CountType ==
    ASSUME EventTypes, NEW e \in Events, NEW x \in Reasons, Count(e, x)
    PROVE  counted' \in [Events -> SUBSET Reasons]
<1>1. counted[e] \cup {x} \subseteq Reasons /\ counted' = [counted EXCEPT ![e] = counted[e] \cup {x}]
  BY DEF EventTypes, Count
<1> QED  BY <1>1 DEF EventTypes

LEMMA StagesType ==
    ASSUME EventTypes, NEW e \in Events, Stages(e)
    PROVE  EventTypes'
<1>1. \E p \in {"send", "done"} : Move(e, p)
  BY DEF Stages
<1>2. \E x \in {"sampled", "too_large", "emitted"} : Count(e, x)
  BY DEF Stages
<1>3. \E x \in {"keep", "drop"} : head' = [head EXCEPT ![e] = x]
  BY DEF Stages
<1>4. pc' \in [Events -> Places] /\ counted' \in [Events -> SUBSET Reasons]
  BY <1>1, <1>2, MoveType, CountType DEF Places, Reasons
<1>5. HeadType'
  BY <1>3 DEF EventTypes, HeadType
<1> QED  BY <1>4, <1>5 DEF Stages, EventTypes

LEMMA EventTypesStep ==
    ASSUME EventTypes, [Next]_vars
    PROVE  EventTypes'
<1>1. CASE Untouched
  BY <1>1 DEF Untouched, history, EventTypes, HeadType
<1>2. ASSUME NEW e \in Events, Steps(e) PROVE EventTypes'
  <2>1. CASE Start(e) \/ PlainLine(e) \/ EndCheck(e) \/ EndSeal(e)
    <3>1. (\E p \in {"open", "seal", "head", "done"} : Move(e, p))
      BY <2>1 DEF Start, PlainLine, EndCheck, EndSeal
    <3>2. (\E x \in {"disabled", "closed", "level"} : Count(e, x)) \/ UNCHANGED counted
      BY <2>1 DEF Start, PlainLine, EndCheck, EndSeal
    <3>3. pc' \in [Events -> Places] /\ counted' \in [Events -> SUBSET Reasons]
      BY <3>1, <3>2, MoveType, CountType DEF Places, Reasons, EventTypes
    <3>4. sealed' \subseteq Events /\ UNCHANGED <<audit, on, got, turn, line, unprinted, head>>
      BY <2>1 DEF Start, PlainLine, EndCheck, EndSeal, history, EventTypes
    <3> QED  BY <3>3, <3>4 DEF EventTypes, HeadType
  <2>2. CASE Stages(e)
    BY <2>2, StagesType
  <2>3. CASE Send(e)
    <3>1. turn[e] + 1 \in 1..NDrains + 1 /\ turn' = [turn EXCEPT ![e] = turn[e] + 1]
      BY <2>3, Names DEF Send, Onward, EventTypes
    <3>2. turn' \in [Events -> 1..NDrains + 1]
      BY <3>1 DEF EventTypes
    <3>3. got' \in [Drains -> SUBSET Events]
      <4>1. PICK d \in Drains : \E x \in SUBSET Events : got' = [got EXCEPT ![d] = x]
        <5>1. turn[e] \in Drains
          <6>1. turn[e] \in 1..NDrains + 1 /\ turn[e] <= NDrains
            BY <2>3 DEF Send, EventTypes
          <6>2. turn[e] \in 1..NDrains
            BY <6>1, Names
          <6> QED  BY <6>2, Names
        <5>2. \E panics \in BOOLEAN : got' = [got EXCEPT ![turn[e]] = IF panics THEN @ ELSE @ \cup {e}]
          BY <2>3 DEF Send
        <5>3. got[turn[e]] \cup {e} \subseteq Events /\ got[turn[e]] \subseteq Events
          BY <5>1 DEF EventTypes
        <5> QED  BY <5>1, <5>2, <5>3
      <4> QED  BY <4>1 DEF EventTypes
    <3> QED  BY <2>3, <3>2, <3>3 DEF Send, EventTypes, HeadType
  <2>4. CASE WriteEvent(e)
    <3>1. pc' \in [Events -> Places] /\ line' \subseteq Events /\ unprinted' \subseteq Events
      BY <2>4, MoveType DEF WriteEvent, Places, EventTypes
    <3> QED  BY <2>4, <3>1 DEF WriteEvent, EventTypes, HeadType
  <2>5. ASSUME e \in Recorders, NEW w \in Works \cup {NoWork}, DoCheck(e, w) PROVE EventTypes'
    <3>1. \E p \in {"append", "own"} : Move(e, p)
      BY <2>5 DEF DoCheck
    <3>2. pc' \in [Events -> Places] /\ on' \in [Recorders -> Works \cup {NoWork}]
      BY <2>5, <3>1, MoveType DEF DoCheck, Places, EventTypes
    <3> QED  BY <2>5, <3>2 DEF DoCheck, EventTypes, HeadType, history
  <2>6. CASE e \in Recorders /\ (DoAppend(e) \/ DoOwn(e))
    <3>1. \E p \in {"told", "open", "done"} : Move(e, p)
      BY <2>6 DEF DoAppend, DoOwn
    <3>2. Count(e, "disabled") \/ UNCHANGED counted
      BY <2>6 DEF DoAppend, DoOwn
    <3>3. pc' \in [Events -> Places] /\ counted' \in [Events -> SUBSET Reasons]
      BY <3>1, <3>2, MoveType, CountType DEF Places, Reasons, EventTypes
    <3>4. audit' \in [Events -> SUBSET Recorders]
      BY <2>6 DEF DoAppend, DoOwn, EventTypes
    <3>5. UNCHANGED <<sealed, on, got, turn, line, unprinted, head>>
      BY <2>6 DEF DoAppend, DoOwn
    <3> QED  BY <3>3, <3>4, <3>5 DEF EventTypes, HeadType
  <2> QED  BY <1>2, <2>1, <2>2, <2>3, <2>4, <2>5, <2>6 DEF Steps
<1> QED  BY <1>1, <1>2, StepCases

LEMMA LoggerTypesStep ==
    ASSUME LoggerTypes, FlushedSoFar, [Next]_vars
    PROVE  LoggerTypes' /\ FlushedSoFar'
<1> DEFINE Goal == LoggerTypes' /\ FlushedSoFar'
<1> USE Names
<1>1. ASSUME UNCHANGED <<flags, closing, flushing>> PROVE Goal
  BY <1>1 DEF flags, closing, flushing, LoggerTypes, FlushedSoFar
<1>2. CASE Toggle
  BY <1>2 DEF Toggle, closing, flushing, LoggerTypes, FlushedSoFar
<1>3. CASE FlushStart
  BY <1>3 DEF FlushStart, flags, closing, LoggerTypes, FlushedSoFar
<1>4. CASE FlushDrain
  <2>1. /\ next' = next + 1 /\ next \in 1..NDrains /\ flushed' = flushed \cup ({next} \cap Closable)
        /\ flusher = "drains" /\ flusher' = flusher /\ UNCHANGED <<flags, closing>>
    BY <1>4 DEF FlushDrain, LoggerTypes
  <2>2. failed' \in BOOLEAN
    BY <1>4 DEF FlushDrain, LoggerTypes
  <2>3. \A d \in Closable : d \in Nat /\ (d < next + 1 <=> d < next \/ d = next)
    BY <2>1 DEF LoggerTypes
  <2>4. flushed' = {d \in Closable : d < next'}
    BY <2>1, <2>3 DEF FlushedSoFar
  <2>5. next' \in 1..NDrains + 1
    BY <2>1
  <2> QED  BY <2>1, <2>2, <2>4, <2>5 DEF flags, closing, LoggerTypes, FlushedSoFar
<1>5. CASE FlushReturn
  <2>1. FlushedSoFar'
    BY <1>5 DEF FlushReturn, FlushedSoFar
  <2>2. LoggerTypes'
    BY <1>5, Zenon DEF FlushReturn, flags, closing, LoggerTypes
  <2> QED  BY <2>1, <2>2
<1>6. CASE Close
  <2>1. /\ UNCHANGED <<enabled, silent, stuck, asked, shut, flushing>> /\ (closed' = closed \/ closed' = TRUE)
        /\ closer' \in {"writer", "drains", "returned"}
    BY <1>6 DEF Close, CloseStart, CloseWriter, CloseReturn, CloseTimeout, flags
  <2>2. FlushedSoFar'
    BY <2>1 DEF flushing, FlushedSoFar
  <2>3. closed' \in BOOLEAN
    BY <2>1 DEF LoggerTypes
  <2> QED  BY <2>1, <2>2, <2>3 DEF flushing, LoggerTypes
<1>7. ASSUME NEW d \in Closable, CloseDrain(d) \/ DrainShut(d) PROVE Goal
  <2>1. /\ UNCHANGED <<flags, closer, flushing>> /\ asked \subseteq asked' /\ shut \subseteq shut'
        /\ asked' \subseteq asked \cup {d} /\ shut' \subseteq asked
    BY <1>7 DEF CloseDrain, DrainShut, Finishes, LoggerTypes
  <2> QED  BY <2>1 DEF flags, flushing, LoggerTypes, FlushedSoFar
<1>8. ASSUME NEW e, Start(e) \/ PlainLine(e) \/ Emit(e) \/ Do(e) PROVE Goal
  BY <1>1, <1>8 DEF Start, PlainLine, Emit, EndCheck, EndSeal, Stages, Send, WriteEvent,
                    Do, DoCheck, DoAppend, DoOwn
<1>9. CASE UNCHANGED vars
  BY <1>1, <1>9 DEF vars
<1> QED  BY <1>2, <1>3, <1>4, <1>5, <1>6, <1>7, <1>8, <1>9 DEF Next, Flush

LEMMA Inductive ==
    ASSUME LoggerInv, [Next]_vars
    PROVE  LoggerInv'
<1>1. EventTypes /\ LoggerTypes /\ FlushedSoFar
  BY DEF LoggerInv, TypeOK, EventTypes, LoggerTypes
<1>2. EventTypes' /\ LoggerTypes' /\ FlushedSoFar'
  BY <1>1, EventTypesStep, LoggerTypesStep
<1> QED  BY <1>2, EventsStep DEF LoggerInv, TypeOK, EventTypes, LoggerTypes

LEMMA Invariance == Spec => []LoggerInv
  BY Initially, Inductive, PTL DEF Spec

----------------------------------------------------------------------------
(* stats.go: each finished event is in exactly one counter, and no other event in   *)
(* any, whatever the order in which emit, plain lines, audit.Do and Close run.       *)
THEOREM Counts == Spec => []CountedOnce
<1>1. LoggerInv => CountedOnce
  BY DEF LoggerInv, EventInv, OneCounter, CountedOnce
<1> QED  BY <1>1, Invariance, PTL

(* event.go emit and keepEvent: a unit that holds an audit record when it is sealed  *)
(* is dropped by neither the level filter nor sampling, and no event that the head   *)
(* sampler kept or a keeper asked for is sampled out.                                *)
THEOREM KeepsAudit == Spec => []AuditKept
<1>1. LoggerInv => AuditKept
  BY DEF LoggerInv, TypeOK, EventInv, Facts, Drawn, AuditKept
<1> QED  BY <1>1, Invariance, PTL

(* drain.go safeSend and Logger.Flush: a drain that panics keeps an event from       *)
(* neither the other drains nor the writer, and one whose Flush fails keeps Flush    *)
(* from none of the others.                                                          *)
THEOREM Reaches == Spec => []ReachesAll
<1>1. ASSUME LoggerInv PROVE ReachesAll
  <2>1. ASSUME NEW e \in Events, pc[e] = "done", "emitted" \in counted[e]
        PROVE  (\A d \in Drains : e \in got[d] \/ <<d, e>> \in threw) /\ (silent \/ e \in line \cup unprinted)
    <3>1. Turns(e) /\ turn[e] \in Nat /\ turn[e] > NDrains
      BY <1>1, <2>1, Names DEF LoggerInv, TypeOK, EventInv, Turns
    <3>2. \A d \in Drains : d < turn[e]
      BY <3>1, Names
    <3> QED  BY <2>1, <3>1, <3>2 DEF Turns
  <2>2. \A e \in line \cup unprinted : pc[e] = "done" /\ counted[e] = {"emitted"}
    BY <1>1 DEF LoggerInv, TypeOK, EventInv, Turns
  <2>3. flusher = "returned" => flushed = Closable
    <3>1. next \in 1..NDrains + 1
      BY <1>1 DEF LoggerInv, TypeOK
    <3>2. flushed = {d \in Closable : d < next} /\ (flusher = "returned" => next > NDrains)
      BY <1>1 DEF LoggerInv, FlushedSoFar
    <3>3. next > NDrains => \A d \in Closable : d < next
      BY <3>1, Names
    <3> QED  BY <3>2, <3>3
  <2> QED  BY <2>1, <2>2, <2>3 DEF ReachesAll
<1> QED  BY <1>1, Invariance, PTL

(* Logger and audit.Do together: what the drains run checks on a few events.  No      *)
(* drain waits for another one in Close, because Close asks each of them on its own.  *)
THEOREM Tells == Spec => []EventsTold
<1>1. ClosesAll
  BY Zenon DEF ClosesAll, AtOnce, Finishes
<1> QED  BY <1>1, Counts, KeepsAudit, Reaches, PTL DEF EventsTold

----------------------------------------------------------------------------
(* The audit journal *)

ChunkType == [line : J!LineType, whole : BOOLEAN, nl : BOOLEAN]
Calls == {"idle", "open", "resume", "truncate", "seal", "mark", "write", "sync", "hook", "close"}
Troubles == {"crash", "newline", "error", "damage"}

FileType ==
    /\ disk \in Seq(ChunkType) /\ synced \in BOOLEAN /\ lock \in Journals \cup {None}
    /\ hashes \in Nat /\ trouble \in Seq(Troubles)
CallType ==
    /\ jpc \in [Journals -> Calls] /\ call \in [Journals -> {"send", "close"}]
    /\ jevent \in [Journals -> Records \cup {None}] /\ jline \in [Journals -> J!LineType]
    /\ prev \in [Journals -> Nat] /\ jrecords \in [Journals -> Nat]
    /\ fresh \subseteq Records /\ acked \subseteq Records /\ jreported \subseteq Records

(* Who holds the file, and with what. *)
Holder(j) ==
    /\ j \in open => lock = j /\ jpc[j] \notin {"open", "resume", "truncate"}
    /\ jpc[j] \in {"resume", "truncate"} => lock = j
    /\ jpc[j] \in {"seal", "mark", "write", "sync", "hook", "close"} => j \in open
    /\ lock = j => j \in open \/ jpc[j] \in {"resume", "truncate"}
    /\ j \in hook <=> jpc[j] = "hook"
Opened == open \subseteq Journals /\ hook \subseteq Journals

(* Whose the record is. *)
Calling(j) ==
    /\ jevent[j] = None <=> jpc[j] = "idle" \/ call[j] = "close"
    /\ jpc[j] \in {"open", "resume", "truncate", "seal"} => call[j] = "send"
    /\ jpc[j] \in {"hook", "close"} => call[j] = "close"
    /\ jevent[j] \notin fresh \cup acked \cup jreported
    /\ \A k \in Journals : jevent[j] = jevent[k] /\ jevent[j] # None => j = k
Sorted == fresh \cap (acked \cup jreported) = {} /\ acked \cap jreported = {}

(* Lines are as they were sealed. *)
Hashed == \A i \in 1..Len(disk) : disk[i].line.prev < disk[i].line.id /\ disk[i].line.id <= hashes
Writes(j) ==
    /\ prev[j] <= hashes
    /\ jpc[j] \in {"write", "sync"} =>
           /\ jline[j].prev < jline[j].id /\ jline[j].id <= hashes
           /\ jline[j].prev = prev[j] /\ jline[j].of = jevent[j] /\ jline[j].count = jrecords[j]
           /\ call[j] = "close" => jline[j].kind = "marker"
    /\ jpc[j] = "sync" => disk # <<>> /\ disk[Len(disk)] = J!Chunk(jline[j], TRUE, TRUE)
    /\ jpc[j] = "truncate" => J!Replays(disk) /\ J!Rest(disk) # <<>>

(* After crashes alone, what an instance remembers is what the file says. *)
Calm == J!Range(trouble) \subseteq {"crash"}
Behind == SubSeq(disk, 1, Len(disk) - 1)
Remembers(j) ==
    /\ jpc[j] \in {"idle", "seal", "mark", "write"} =>
           prev[j] = J!HeadOf(disk) /\ jrecords[j] = J!RecordsIn(disk) /\ J!Rest(disk) = <<>>
    /\ jpc[j] = "sync" => prev[j] = J!HeadOf(Behind) /\ jrecords[j] = J!RecordsIn(Behind) /\ J!Rest(disk) = <<>>
    /\ jpc[j] # "hook"
Tailed ==
    /\ ~synced => J!Rest(disk) = <<>>
    /\ J!Rest(disk) # <<>> => Len(J!Rest(disk)) = 1 /\ ~J!Rest(disk)[1].whole
Continues == Calm =>
    /\ J!Chained(J!Body(disk)) /\ J!MarkersTrue(J!Body(disk)) /\ Tailed
    /\ \A j \in open : Remembers(j)

(* The lines of a record: none until it is written, and one that stays from its sync. *)
LinesOf(e) == {i \in 1..Len(disk) : disk[i].line.of = e /\ disk[i].line.kind = "record"}
Lasts(e) ==
    \E i \in 1..Len(disk) : /\ LinesOf(e) = {i} /\ disk[i].whole /\ disk[i].nl
                            /\ synced \/ i < J!LastNewline(disk)
Unwritten(j) == jpc[j] \in {"open", "resume", "truncate", "seal"} \/ (jpc[j] = "write" /\ jline[j].kind = "record")
Carries(j) == jevent[j] # None =>
    /\ Unwritten(j) => LinesOf(jevent[j]) = {}
    /\ jpc[j] = "sync" /\ jline[j].kind = "record" => LinesOf(jevent[j]) = {Len(disk)}
    /\ jpc[j] = "mark" \/ (jpc[j] \in {"write", "sync"} /\ jline[j].kind = "marker") => Lasts(jevent[j])
Durable == J!Never("damage") =>
    /\ \A e \in fresh : LinesOf(e) = {}
    /\ \A e \in acked : Lasts(e)
    /\ \A j \in Journals : Carries(j)
Traced == J!Range(trouble) \subseteq {"error"} =>
    \A e \in Records : e \in fresh \cup acked \cup jreported \/ \E j \in Journals : jevent[j] = e

JournalInv ==
    /\ FileType /\ CallType /\ Opened /\ Sorted /\ Hashed /\ Continues /\ Durable /\ Traced
    /\ \A j \in Journals : Holder(j) /\ Calling(j) /\ Writes(j)

(* Sequences of chunks: what is terminated, and what follows. *)

LEMMA SameCardinality == \A set : J!Cardinality(set) = Cardinality(set)
  BY DEF J!Cardinality, Cardinality

LEMMA JournalParameters == None \notin Journals \cup Records /\ Every \in Nat \ {0}
  BY JournalAssumption DEF J!JournalAssumption

Less == {p \in Nat \X Nat : p[1] < p[2]}
LEMMA LeastNumber ==
    ASSUME NEW T, T \subseteq Nat, T # {}
    PROVE  \E x \in T : \A y \in T : x <= y
<1>1. OpToRel(<, Nat) = Less
  BY DEF OpToRel, Less
<1>2. IsWellFoundedOn(Less, Nat)
  BY <1>1, NatLessThanWellFounded
<1>3. PICK x \in T : \A y \in T : ~(<<y, x>> \in Less)
  BY <1>2, WFMin
<1>4. ASSUME NEW y \in T PROVE x <= y
  <2>1. x \in Nat /\ y \in Nat
    OBVIOUS
  <2>2. y < x => <<y, x>> \in Less
    BY <2>1 DEF Less
  <2> QED  BY <1>3, <2>1, <2>2
<1> QED  BY <1>4

LEMMA Newline ==
    ASSUME NEW s \in Seq(ChunkType)
    PROVE  /\ J!LastNewline(s) \in 0..Len(s) /\ J!LastNewline(s) \in Nat /\ Len(s) \in Nat
           /\ J!LastNewline(s) > 0 => s[J!LastNewline(s)].nl
           /\ \A k \in 1..Len(s) : s[k].nl => k <= J!LastNewline(s)
<1> DEFINE ends == {i \in 1..Len(s) : s[i].nl}
<1>0. Len(s) \in Nat
  OBVIOUS
<1>1. CASE ends = {}
  BY <1>0, <1>1 DEF J!LastNewline
<1>2. CASE ends # {}
  <2> DEFINE gaps == {Len(s) - i : i \in ends}
  <2>1. gaps \subseteq Nat /\ gaps # {}
    BY <1>0, <1>2
  <2>2. PICK g \in gaps : \A h \in gaps : g <= h
    BY <2>1, LeastNumber
  <2>3. PICK i \in ends : g = Len(s) - i
    OBVIOUS
  <2>5. ASSUME NEW k \in ends PROVE k <= i
    <3>1. Len(s) - k \in gaps
      OBVIOUS
    <3>2. Len(s) - i <= Len(s) - k
      BY <2>2, <2>3, <3>1
    <3> QED  BY <1>0, <3>2
  <2>6. \E x \in ends : \A k \in ends : k <= x
    BY <2>5
  <2>7. J!LastNewline(s) \in ends /\ \A k \in ends : k <= J!LastNewline(s)
    BY <1>2, <2>6 DEF J!LastNewline
  <2> QED  BY <1>0, <2>7
<1> QED  BY <1>1, <1>2

LEMMA NewlineAt ==
    ASSUME NEW s \in Seq(ChunkType), NEW n \in 0..Len(s), n > 0 => s[n].nl,
           \A k \in 1..Len(s) : s[k].nl => k <= n
    PROVE  J!LastNewline(s) = n
  BY Newline

LEMMA Parts ==
    ASSUME NEW s \in Seq(ChunkType)
    PROVE  /\ J!Body(s) \in Seq(ChunkType) /\ Len(J!Body(s)) = J!LastNewline(s)
           /\ \A i \in 1..J!LastNewline(s) : J!Body(s)[i] = s[i]
           /\ J!Rest(s) \in Seq(ChunkType) /\ Len(J!Rest(s)) = Len(s) - J!LastNewline(s)
           /\ \A i \in 1..Len(s) - J!LastNewline(s) : J!Rest(s)[i] = s[J!LastNewline(s) + i]
           /\ J!Rest(s) = <<>> <=> J!LastNewline(s) = Len(s)
<1>1. J!LastNewline(s) \in 0..Len(s) /\ Len(s) \in Nat /\ J!LastNewline(s) \in Nat
  BY Newline
<1>2. /\ J!Body(s) \in Seq(ChunkType) /\ Len(J!Body(s)) = J!LastNewline(s)
      /\ \A i \in 1..J!LastNewline(s) : J!Body(s)[i] = s[i]
  BY <1>1 DEF J!Body
<1>3. /\ J!Rest(s) \in Seq(ChunkType) /\ Len(J!Rest(s)) = Len(s) - J!LastNewline(s)
      /\ \A i \in 1..Len(s) - J!LastNewline(s) : J!Rest(s)[i] = s[J!LastNewline(s) + i]
  BY <1>1 DEF J!Rest
<1>4. J!Rest(s) = <<>> <=> Len(J!Rest(s)) = 0
  BY <1>3
<1> QED  BY <1>1, <1>2, <1>3, <1>4

LEMMA Whole ==
    ASSUME NEW s \in Seq(ChunkType), J!LastNewline(s) = Len(s)
    PROVE  J!Body(s) = s /\ J!Rest(s) = <<>>
<1>1. J!Rest(s) = <<>>
  BY Parts
<1>2. /\ J!Body(s) \in Seq(ChunkType) /\ Len(J!Body(s)) = Len(s) /\ Len(s) \in Nat
      /\ \A i \in 1..Len(s) : J!Body(s)[i] = s[i]
  BY Parts, Newline
<1>3. J!Body(s) = s
  BY <1>2, SeqEqual
<1> QED  BY <1>1, <1>3

LEMMA Appended ==
    ASSUME NEW s \in Seq(ChunkType), NEW c \in ChunkType
    PROVE  /\ Append(s, c) \in Seq(ChunkType) /\ Len(Append(s, c)) = Len(s) + 1 /\ Len(s) \in Nat
           /\ \A i \in 1..Len(s) : Append(s, c)[i] = s[i]
           /\ Append(s, c)[Len(s) + 1] = c /\ Append(s, c) # <<>>
           /\ SubSeq(Append(s, c), 1, Len(s)) = s
<1> DEFINE t == Append(s, c)
<1>1. /\ t \in Seq(ChunkType) /\ Len(t) = Len(s) + 1 /\ Len(s) \in Nat
      /\ \A i \in 1..Len(s) : t[i] = s[i]
      /\ t[Len(s) + 1] = c
  OBVIOUS
<1> HIDE DEF t
<1>2. t # <<>>
  BY <1>1
<1>3. /\ SubSeq(t, 1, Len(s)) \in Seq(ChunkType) /\ Len(SubSeq(t, 1, Len(s))) = Len(s)
      /\ \A i \in 1..Len(s) : SubSeq(t, 1, Len(s))[i] = t[i]
  BY <1>1
<1>4. SubSeq(t, 1, Len(s)) = s
  BY <1>1, <1>3, SeqEqual
<1> QED  BY <1>1, <1>2, <1>4 DEF t

LEMMA Ended ==
    ASSUME NEW s \in Seq(ChunkType), NEW c \in ChunkType, c.nl
    PROVE  /\ J!LastNewline(Append(s, c)) = Len(s) + 1
           /\ J!Body(Append(s, c)) = Append(s, c) /\ J!Rest(Append(s, c)) = <<>>
<1> DEFINE t == Append(s, c)
<1>1. /\ t \in Seq(ChunkType) /\ Len(t) = Len(s) + 1 /\ Len(s) \in Nat /\ t[Len(s) + 1] = c
  BY Appended
<1> HIDE DEF t
<1>2. J!LastNewline(t) = Len(t)
  BY <1>1, NewlineAt
<1>3. J!Body(t) = t /\ J!Rest(t) = <<>>
  BY <1>1, <1>2, Whole
<1> QED  BY <1>1, <1>2, <1>3 DEF t

LEMMA TornOff ==
    ASSUME NEW s \in Seq(ChunkType), NEW c \in ChunkType, ~c.nl
    PROVE  /\ J!LastNewline(Append(s, c)) = J!LastNewline(s)
           /\ J!Body(Append(s, c)) = J!Body(s) /\ J!Rest(Append(s, c)) = Append(J!Rest(s), c)
<1> DEFINE t == Append(s, c)   n == J!LastNewline(s)
<1>1. /\ t \in Seq(ChunkType) /\ Len(t) = Len(s) + 1 /\ Len(s) \in Nat /\ t[Len(s) + 1] = c
      /\ \A i \in 1..Len(s) : t[i] = s[i]
  BY Appended
<1>2. n \in 0..Len(s) /\ n \in Nat /\ (n > 0 => s[n].nl) /\ \A k \in 1..Len(s) : s[k].nl => k <= n
  BY Newline
<1> HIDE DEF t, n
<1>3. J!LastNewline(t) = n
  <2>1. n \in 0..Len(t) /\ (n > 0 => t[n].nl)
    BY <1>1, <1>2
  <2>2. \A k \in 1..Len(t) : t[k].nl => k <= n
    BY <1>1, <1>2
  <2> QED  BY <1>1, <2>1, <2>2, NewlineAt
<1>4. J!Body(t) = J!Body(s)
  <2>1. J!Body(t) \in Seq(ChunkType) /\ Len(J!Body(t)) = n /\ \A i \in 1..n : J!Body(t)[i] = t[i]
    BY <1>1, <1>3, Parts
  <2>2. J!Body(s) \in Seq(ChunkType) /\ Len(J!Body(s)) = n /\ \A i \in 1..n : J!Body(s)[i] = s[i]
    BY Parts DEF n
  <2>3. \A i \in 1..n : t[i] = s[i]
    BY <1>1, <1>2
  <2> QED  BY <2>1, <2>2, <2>3, SeqEqual
<1>5. J!Rest(t) = Append(J!Rest(s), c)
  <2>1. J!Rest(t) \in Seq(ChunkType) /\ Len(J!Rest(t)) = Len(t) - n /\ \A i \in 1..Len(t) - n : J!Rest(t)[i] = t[n + i]
    BY <1>1, <1>3, Parts
  <2>2. J!Rest(s) \in Seq(ChunkType) /\ Len(J!Rest(s)) = Len(s) - n /\ \A i \in 1..Len(s) - n : J!Rest(s)[i] = s[n + i]
    BY Parts DEF n
  <2>3. /\ Append(J!Rest(s), c) \in Seq(ChunkType) /\ Len(Append(J!Rest(s), c)) = Len(s) - n + 1
        /\ \A i \in 1..Len(s) - n : Append(J!Rest(s), c)[i] = J!Rest(s)[i]
        /\ Append(J!Rest(s), c)[Len(s) - n + 1] = c
    BY <2>2, Appended
  <2>5. Len(t) - n = Len(s) - n + 1 /\ Len(s) - n \in Nat /\ 1..Len(t) - n = 1..Len(s) - n \cup {Len(s) - n + 1}
    BY <1>1, <1>2
  <2>4. \A i \in 1..Len(t) - n : J!Rest(t)[i] = Append(J!Rest(s), c)[i]
    <3> SUFFICES ASSUME NEW i \in 1..Len(t) - n PROVE J!Rest(t)[i] = Append(J!Rest(s), c)[i]
      OBVIOUS
    <3>1. CASE i = Len(s) - n + 1
      BY <1>1, <1>2, <2>1, <2>3, <3>1
    <3>2. CASE i \in 1..Len(s) - n
      BY <1>1, <1>2, <2>1, <2>2, <2>3, <3>2
    <3> QED  BY <2>5, <3>1, <3>2
  <2> QED  BY <2>1, <2>3, <2>4, <2>5, SeqEqual
<1> QED  BY <1>3, <1>4, <1>5 DEF t, n

LEMMA Prefixed ==
    ASSUME NEW s \in Seq(ChunkType), NEW n \in 0..Len(s)
    PROVE  /\ SubSeq(s, 1, n) \in Seq(ChunkType) /\ Len(SubSeq(s, 1, n)) = n /\ n \in Nat
           /\ \A i \in 1..n : SubSeq(s, 1, n)[i] = s[i]
           /\ \A m \in 0..n : SubSeq(SubSeq(s, 1, n), 1, m) = SubSeq(s, 1, m)
<1>1. /\ SubSeq(s, 1, n) \in Seq(ChunkType) /\ Len(SubSeq(s, 1, n)) = n /\ n \in Nat
      /\ \A i \in 1..n : SubSeq(s, 1, n)[i] = s[i]
  OBVIOUS
<1>2. ASSUME NEW m \in 0..n PROVE SubSeq(SubSeq(s, 1, n), 1, m) = SubSeq(s, 1, m)
  <2> DEFINE t == SubSeq(s, 1, n)
  <2>0. Len(s) \in Nat /\ m \in Nat
    OBVIOUS
  <2>1. /\ t \in Seq(ChunkType) /\ Len(t) = n /\ \A i \in 1..n : t[i] = s[i]
    BY <1>1
  <2> HIDE DEF t
  <2>2. /\ SubSeq(t, 1, m) \in Seq(ChunkType) /\ Len(SubSeq(t, 1, m)) = m
        /\ \A i \in 1..m : SubSeq(t, 1, m)[i] = t[i]
    BY <2>0, <2>1
  <2>3. /\ SubSeq(s, 1, m) \in Seq(ChunkType) /\ Len(SubSeq(s, 1, m)) = m
        /\ \A i \in 1..m : SubSeq(s, 1, m)[i] = s[i]
    BY <2>0
  <2>4. \A i \in 1..m : SubSeq(t, 1, m)[i] = SubSeq(s, 1, m)[i]
    BY <2>0, <2>1, <2>2, <2>3
  <2> QED  BY <2>2, <2>3, <2>4, SeqEqual DEF t
<1> QED  BY <1>1, <1>2

LEMMA BodyStays ==
    ASSUME NEW s \in Seq(ChunkType)
    PROVE  J!LastNewline(J!Body(s)) = J!LastNewline(s) /\ J!Body(J!Body(s)) = J!Body(s) /\ J!Rest(J!Body(s)) = <<>>
<1> DEFINE t == J!Body(s)   n == J!LastNewline(s)
<1>1. /\ t \in Seq(ChunkType) /\ Len(t) = n /\ n \in Nat /\ n <= Len(s) /\ Len(s) \in Nat
      /\ \A i \in 1..n : t[i] = s[i]
      /\ n > 0 => s[n].nl
  BY Parts, Newline
<1> HIDE DEF t, n
<1>2. J!LastNewline(t) = n
  BY <1>1, NewlineAt
<1> QED  BY <1>1, <1>2, Whole DEF t, n

LEMMA LastOff ==
    ASSUME NEW s \in Seq(ChunkType), s # <<>>
    PROVE  LET t == SubSeq(s, 1, Len(s) - 1)
           IN  /\ t \in Seq(ChunkType) /\ Len(t) = Len(s) - 1 /\ s = Append(t, s[Len(s)])
               /\ s[Len(s)] \in ChunkType /\ Len(s) \in Nat \ {0} /\ \A i \in 1..Len(t) : t[i] = s[i]
<1> DEFINE t == SubSeq(s, 1, Len(s) - 1)
<1>0. Len(s) \in Nat /\ Len(s) # 0
  OBVIOUS
<1>1. Len(s) \in Nat \ {0} /\ s[Len(s)] \in ChunkType /\ Len(s) - 1 \in 0..Len(s)
  BY <1>0, ElementOfSeq
<1>2. t \in Seq(ChunkType) /\ Len(t) = Len(s) - 1 /\ \A i \in 1..Len(s) - 1 : t[i] = s[i]
  BY <1>1, Prefixed
<1> HIDE DEF t
<1>3. /\ Append(t, s[Len(s)]) \in Seq(ChunkType) /\ Len(Append(t, s[Len(s)])) = Len(s)
      /\ \A i \in 1..Len(s) - 1 : Append(t, s[Len(s)])[i] = t[i]
      /\ Append(t, s[Len(s)])[Len(s)] = s[Len(s)]
  BY <1>1, <1>2
<1>4. \A i \in 1..Len(s) : Append(t, s[Len(s)])[i] = s[i]
  BY <1>1, <1>2, <1>3
<1>5. Append(t, s[Len(s)]) = s
  BY <1>3, <1>4, SeqEqual
<1> QED  BY <1>1, <1>2, <1>5 DEF t

(* Chained lines are whole and terminated, so nothing follows them; each part of *)
(* them from the first is chained as well.                                       *)
LEMMA ChainedWhole ==
    ASSUME NEW s \in Seq(ChunkType), J!Chained(s)
    PROVE  J!LastNewline(s) = Len(s) /\ J!Body(s) = s /\ J!Rest(s) = <<>>
<1>1. Len(s) \in Nat /\ (Len(s) > 0 => s[Len(s)].nl)
  BY DEF J!Chained
<1>2. J!LastNewline(s) = Len(s)
  BY <1>1, NewlineAt
<1> QED  BY <1>2, Whole

LEMMA ChainedPrefix ==
    ASSUME NEW s \in Seq(ChunkType), NEW n \in 0..Len(s), J!Chained(s)
    PROVE  J!Chained(SubSeq(s, 1, n))
<1> DEFINE t == SubSeq(s, 1, n)
<1>1. Len(t) = n /\ n \in Nat /\ n <= Len(s) /\ Len(s) \in Nat /\ \A i \in 1..n : t[i] = s[i]
  BY Prefixed
<1> HIDE DEF t
<1>2. \A i \in 1..n : J!Linked(t, i) <=> J!Linked(s, i)
  BY <1>1 DEF J!Linked, J!HashOf
<1> QED  BY <1>1, <1>2 DEF J!Chained, t

LEMMA ChainedMore ==
    ASSUME NEW s \in Seq(ChunkType), NEW c \in ChunkType, J!Chained(s), c.whole, c.nl, c.line.prev = J!HeadOf(s)
    PROVE  J!Chained(Append(s, c))
<1> DEFINE t == Append(s, c)
<1>1. Len(t) = Len(s) + 1 /\ Len(s) \in Nat /\ t[Len(s) + 1] = c /\ \A i \in 1..Len(s) : t[i] = s[i]
  BY Appended
<1> HIDE DEF t
<1>2. \A i \in 1..Len(s) : J!Linked(t, i) <=> J!Linked(s, i)
  BY <1>1 DEF J!Linked, J!HashOf
<1>3. J!Linked(t, Len(s) + 1)
  BY <1>1 DEF J!Linked, J!HashOf, J!HeadOf
<1> QED  BY <1>1, <1>2, <1>3 DEF J!Chained, t

LEMMA RecordsCounted ==
    ASSUME NEW s \in Seq(ChunkType), NEW c \in ChunkType
    PROVE  /\ J!RecordsIn(s) \in Nat
           /\ J!RecordsIn(Append(s, c)) = J!RecordsIn(s) + (IF J!Counts(c.line) THEN 1 ELSE 0)
<1> DEFINE t == Append(s, c)
           R == {i \in 1..Len(s) : J!Counts(s[i].line)}
           T == {i \in 1..Len(t) : J!Counts(t[i].line)}
<1>1. Len(t) = Len(s) + 1 /\ Len(s) \in Nat /\ t[Len(s) + 1] = c /\ \A i \in 1..Len(s) : t[i] = s[i]
  BY Appended
<1>2. IsFiniteSet(1..Len(s)) /\ R \subseteq 1..Len(s)
  BY <1>1, FS_Interval
<1>3. IsFiniteSet(R) /\ Cardinality(R) \in Nat
  BY <1>2, FS_Subset, FS_CardinalityType
<1> HIDE DEF t
<1>4. T = IF J!Counts(c.line) THEN R \cup {Len(s) + 1} ELSE R
  BY <1>1
<1>5. Len(s) + 1 \notin R
  BY <1>1
<1> HIDE DEF R, T
<1>6. Cardinality(R \cup {Len(s) + 1}) = Cardinality(R) + 1
  BY <1>3, <1>5, FS_AddElement
<1>7. Cardinality(T) = Cardinality(R) + (IF J!Counts(c.line) THEN 1 ELSE 0)
  BY <1>3, <1>4, <1>6
<1> QED  BY <1>3, <1>7, SameCardinality DEF J!RecordsIn, R, T, t

LEMMA MarkersPrefix ==
    ASSUME NEW s \in Seq(ChunkType), NEW n \in 0..Len(s), J!MarkersTrue(s)
    PROVE  J!MarkersTrue(SubSeq(s, 1, n))
<1> DEFINE t == SubSeq(s, 1, n)
<1>1. /\ Len(t) = n /\ n \in Nat /\ n <= Len(s) /\ Len(s) \in Nat /\ \A i \in 1..n : t[i] = s[i]
      /\ \A m \in 0..n : SubSeq(t, 1, m) = SubSeq(s, 1, m)
  BY Prefixed
<1> HIDE DEF t
<1>2. ASSUME NEW i \in 1..Len(t), t[i].line.kind = "marker"
      PROVE  t[i].line.count = J!RecordsIn(SubSeq(t, 1, i - 1))
  <2>1. i \in 1..Len(s) /\ i - 1 \in 0..n /\ t[i] = s[i]
    BY <1>1
  <2>2. s[i].line.count = J!RecordsIn(SubSeq(s, 1, i - 1))
    BY <1>2, <2>1 DEF J!MarkersTrue
  <2> QED  BY <1>1, <2>1, <2>2
<1> QED  BY <1>2 DEF J!MarkersTrue, t

LEMMA MarkersMore ==
    ASSUME NEW s \in Seq(ChunkType), NEW c \in ChunkType, J!MarkersTrue(s),
           c.line.kind = "marker" => c.line.count = J!RecordsIn(s)
    PROVE  J!MarkersTrue(Append(s, c))
<1> DEFINE t == Append(s, c)
<1>1. /\ t \in Seq(ChunkType) /\ Len(t) = Len(s) + 1 /\ Len(s) \in Nat /\ t[Len(s) + 1] = c
      /\ \A i \in 1..Len(s) : t[i] = s[i]
      /\ SubSeq(t, 1, Len(s)) = s
  BY Appended
<1> HIDE DEF t
<1>2. Len(s) \in 0..Len(t)
  BY <1>1
<1>3. \A m \in 0..Len(s) : SubSeq(s, 1, m) = SubSeq(t, 1, m)
  BY <1>1, <1>2, Prefixed
<1>4. ASSUME NEW i \in 1..Len(t), t[i].line.kind = "marker"
      PROVE  t[i].line.count = J!RecordsIn(SubSeq(t, 1, i - 1))
  <2>1. CASE i = Len(s) + 1
    <3>1. i - 1 = Len(s)
      BY <1>1, <2>1
    <3> QED  BY <1>1, <1>4, <2>1, <3>1
  <2>2. CASE i \in 1..Len(s)
    <3>1. s[i].line.count = J!RecordsIn(SubSeq(s, 1, i - 1))
      BY <1>1, <1>4, <2>2 DEF J!MarkersTrue
    <3>2. i - 1 \in 0..Len(s)
      BY <1>1, <2>2
    <3> QED  BY <1>1, <1>3, <2>2, <3>1, <3>2
  <2> QED  BY <1>1, <2>1, <2>2
<1> QED  BY <1>4 DEF J!MarkersTrue, t
LEMMA CountTyped == ASSUME NEW s \in Seq(ChunkType) PROVE J!RecordsIn(s) \in Nat /\ J!RecordsIn(s) + 1 \in Nat
<1>1. {i \in 1..Len(s) : J!Counts(s[i].line)} \subseteq 1..Len(s) /\ Len(s) \in Nat
  OBVIOUS
<1>2. IsFiniteSet(1..Len(s))
  BY <1>1, FS_Interval
<1>3. Cardinality({i \in 1..Len(s) : J!Counts(s[i].line)}) \in Nat
  BY <1>1, <1>2, FS_Subset, FS_CardinalityType
<1> QED  BY <1>3, SameCardinality DEF J!RecordsIn

LEMMA HeadTyped == ASSUME NEW s \in Seq(ChunkType) PROVE J!HeadOf(s) \in Nat
<1>1. CASE Len(s) = 0
  BY <1>1 DEF J!HeadOf, J!HashOf, J!Start
<1>2. CASE Len(s) # 0
  <2>1. Len(s) \in 1..Len(s)
    BY <1>2
  <2>2. s[Len(s)] \in ChunkType
    BY <2>1, ElementOfSeq
  <2> QED  BY <1>2, <2>2 DEF J!HeadOf, J!HashOf, ChunkType, J!LineType
<1> QED  BY <1>1, <1>2

(* One step of an instance that does not fail to open, and what it does to the file. *)

Step(j) == J!SendCall(j) \/ J!Open(j) \/ J!Resume(j) \/ J!AppendLine(j) \/ J!Close(j) \/ J!Crash(j)

LEMMA Holding ==
    ASSUME JournalInv, NEW j \in Journals, j \in open \/ jpc[j] \in {"resume", "truncate"} \/ lock = j
    PROVE  /\ lock = j
           /\ \A k \in Journals : k # j => k \notin open /\ k \notin hook /\ jpc[k] \in {"idle", "open"}
  BY JournalParameters DEF JournalInv, Holder, CallType, Calls

LEMMA NextFresh == ASSUME fresh # {} PROVE J!NextRecord \in fresh
  BY DEF J!NextRecord

LEMMA LineTyped ==
    ASSUME JournalInv, NEW j \in Journals
    PROVE  /\ \A kind \in {"record", "marker"} : J!Sealed(j, kind) \in J!LineType
           /\ \A whole, nl \in BOOLEAN : J!Chunk(jline[j], whole, nl) \in ChunkType
           /\ J!NoLine \in J!LineType
  BY DEF JournalInv, CallType, FileType, J!Sealed, J!LineType, ChunkType, J!Chunk, J!NoLine, J!Start

(* What a crash leaves of the last chunk: nothing, a part of it, or all of it. *)
Cut(c) == {[c EXCEPT !.whole = FALSE, !.nl = FALSE], [c EXCEPT !.nl = FALSE], c}
LEMMA CutTyped ==
    ASSUME NEW c \in ChunkType, NEW x \in Cut(c)
    PROVE  /\ x \in ChunkType /\ x.line = c.line
           /\ x.whole /\ x.nl => x = c
  BY DEF Cut, ChunkType

LEMMA RemainsOf ==
    ASSUME NEW c, NEW what \in {"crash", "newline"}, NEW r \in J!Remains(c)[what]
    PROVE  \/ r = <<>>
           \/ what = "crash" /\ r = <<[c EXCEPT !.whole = FALSE, !.nl = FALSE]>>
           \/ what = "crash" /\ r = <<c>>
           \/ what = "newline" /\ r = <<[c EXCEPT !.nl = FALSE]>>
<1> DEFINE cut == [c EXCEPT !.whole = FALSE, !.nl = FALSE]   torn == [c EXCEPT !.nl = FALSE]
<1>1. J!Remains(c) = [crash |-> {<<>>, <<cut>>, <<c>>}, newline |-> {<<torn>>}]
  BY DEF J!Remains
<1> HIDE DEF cut, torn
<1>2. J!Remains(c)["crash"] = {<<>>, <<cut>>, <<c>>} /\ J!Remains(c)["newline"] = {<<torn>>}
  BY <1>1
<1>3. CASE what = "crash"
  BY <1>2, <1>3 DEF cut
<1>4. CASE what = "newline"
  BY <1>2, <1>4 DEF torn
<1> QED  BY <1>3, <1>4

LEMMA CrashLeaves ==
    ASSUME JournalInv, NEW j \in Journals, J!Crash(j)
    PROVE  \/ disk' = disk /\ (synced \/ disk = <<>> \/ lock \notin {j, None})
           \/ /\ ~synced /\ disk # <<>> /\ lock \in {j, None}
              /\ disk' = Behind \/ \E x \in Cut(disk[Len(disk)]) : disk' = Append(Behind, x)
              /\ Calm' => disk' = Behind \/ disk' = disk
                          \/ disk' = Append(Behind, [disk[Len(disk)] EXCEPT !.whole = FALSE, !.nl = FALSE])
<1>1. CASE ~synced /\ disk # <<>> /\ lock \in {j, None}
  <2> DEFINE c == disk[Len(disk)]
  <2>1. PICK what \in {"crash", "newline"} : J!Happens(what) /\ \E r \in J!Remains(c)[what] : disk' = J!Front(disk) \o r
    BY <1>1 DEF J!Crash
  <2>2. PICK r \in J!Remains(c)[what] : disk' = J!Front(disk) \o r
    BY <2>1
  <2>3. /\ Behind \in Seq(ChunkType) /\ disk = Append(Behind, c) /\ c \in ChunkType /\ J!Front(disk) = Behind
    <3>1. disk \in Seq(ChunkType) /\ disk # <<>>
      BY <1>1 DEF JournalInv, FileType
    <3>2. J!Front(disk) = Behind
      BY DEF Behind, J!Front
    <3> QED  BY <3>1, <3>2, LastOff DEF Behind
  <2> HIDE DEF c
  <2>4. \/ r = <<>>
        \/ what = "crash" /\ r = <<[c EXCEPT !.whole = FALSE, !.nl = FALSE]>>
        \/ what = "crash" /\ r = <<c>>
        \/ what = "newline" /\ r = <<[c EXCEPT !.nl = FALSE]>>
    BY <2>2, RemainsOf
  <2>5. Behind \o <<>> = Behind /\ \A x \in Cut(c) : Behind \o <<x>> = Append(Behind, x)
    BY <2>3, CutTyped, AppendIsConcat
  <2>6. what = "newline" => ~Calm'
    <3> SUFFICES ASSUME what = "newline" PROVE ~Calm'
      OBVIOUS
    <3>1. trouble \in Seq(Troubles) /\ trouble' = Append(trouble, "newline")
      BY <2>1 DEF J!Happens, JournalInv, FileType
    <3>2. Len(trouble) + 1 \in DOMAIN trouble' /\ trouble'[Len(trouble) + 1] = "newline"
      BY <3>1 DEF Troubles
    <3> QED  BY <3>2 DEF Calm, J!Range
  <2> QED  BY <1>1, <2>2, <2>3, <2>4, <2>5, <2>6 DEF Cut, c
<1>2. CASE ~(~synced /\ disk # <<>> /\ lock \in {j, None})
  BY <1>2 DEF J!Crash
<1> QED  BY <1>1, <1>2

(* Every step of an instance leaves the file, adds a line, writes the last line a second *)
(* time, cuts what follows the last newline, or cuts or drops an unsynced last chunk.    *)
LEMMA FileMoves ==
    ASSUME JournalInv, NEW j \in Journals, Step(j)
    PROVE  \/ disk' = disk
           \/ /\ lock = j /\ jpc[j] = "write"
              /\ \E whole, nl \in BOOLEAN : disk' = Append(disk, J!Chunk(jline[j], whole, nl))
           \/ /\ lock = j /\ jpc[j] = "resume" /\ J!Complete(disk) /\ J!ResumeKeep(j)
              /\ disk' = Append(disk, [J!Rest(disk)[1] EXCEPT !.nl = TRUE])
           \/ lock = j /\ jpc[j] = "truncate" /\ disk' = J!Body(disk) /\ synced' = synced
           \/ /\ J!Crash(j) /\ ~synced /\ disk # <<>> /\ lock \in {j, None}
              /\ disk' = Behind \/ \E x \in Cut(disk[Len(disk)]) : disk' = Append(Behind, x)
<1>1. CASE J!SendCall(j) \/ J!Open(j) \/ J!Close(j)
  BY <1>1 DEF J!SendCall, J!Open, J!OpenBusy, J!OpenLock, J!Close, J!CloseCall, J!HookReturns, J!CloseFile, J!file
<1>2. CASE J!Resume(j)
  <2>1. CASE J!ResumeKeep(j)
    BY <2>1, Holding DEF J!ResumeKeep
  <2>2. CASE J!ResumeTruncate(j)
    BY <2>2, Holding DEF J!ResumeTruncate, J!CutTail
  <2> QED  BY <1>2, <2>1, <2>2 DEF J!Resume, J!ResumeRefuse, J!ResumeClean, J!ResumeSetAside, J!file
<1>3. CASE J!AppendLine(j)
  <2>1. CASE J!Write(j)
    <3>1. lock = j
      BY <2>1 DEF J!Write, JournalInv, Holder
    <3> QED  BY <2>1, <3>1 DEF J!Write
  <2>2. CASE J!WriteShort(j)
    <3>1. lock = j
      BY <2>2 DEF J!WriteShort, JournalInv, Holder
    <3> QED  BY <2>2, <3>1 DEF J!WriteShort
  <2> QED  BY <1>3, <2>1, <2>2 DEF J!AppendLine, J!SealLine, J!Sync, J!AppendNothing, J!SyncFails, J!file
<1>4. CASE J!Crash(j)
  BY <1>4, CrashLeaves
<1> QED  BY <1>1, <1>2, <1>3, <1>4 DEF Step

(* A line that is written a second time is the one after the last newline. *)
LEMMA Second ==
    ASSUME NEW s \in Seq(ChunkType), J!Complete(s)
    PROVE  /\ J!Rest(s)[1] = s[J!LastNewline(s) + 1] /\ J!LastNewline(s) + 1 \in 1..Len(s)
           /\ ~s[J!LastNewline(s) + 1].nl /\ J!Rest(s)[1].whole
           /\ [J!Rest(s)[1] EXCEPT !.nl = TRUE] \in ChunkType
           /\ [J!Rest(s)[1] EXCEPT !.nl = TRUE].line = J!Rest(s)[1].line
           /\ [J!Rest(s)[1] EXCEPT !.nl = TRUE].nl
<1>1. Len(J!Rest(s)) = 1 /\ J!Rest(s)[1].whole
  BY DEF J!Complete
<1>2. /\ J!Rest(s) \in Seq(ChunkType) /\ Len(J!Rest(s)) = Len(s) - J!LastNewline(s)
      /\ \A i \in 1..Len(s) - J!LastNewline(s) : J!Rest(s)[i] = s[J!LastNewline(s) + i]
  BY Parts
<1>3. /\ J!LastNewline(s) \in 0..Len(s) /\ J!LastNewline(s) \in Nat /\ Len(s) \in Nat
      /\ \A k \in 1..Len(s) : s[k].nl => k <= J!LastNewline(s)
  BY Newline
<1>4. J!Rest(s)[1] = s[J!LastNewline(s) + 1] /\ J!LastNewline(s) + 1 \in 1..Len(s)
  BY <1>1, <1>2, <1>3
<1>5. ~s[J!LastNewline(s) + 1].nl
  BY <1>3, <1>4
<1>6. J!Rest(s)[1] \in ChunkType
  BY <1>1, <1>2, ElementOfSeq
<1>7. /\ [J!Rest(s)[1] EXCEPT !.nl = TRUE] \in ChunkType
      /\ [J!Rest(s)[1] EXCEPT !.nl = TRUE].line = J!Rest(s)[1].line
      /\ [J!Rest(s)[1] EXCEPT !.nl = TRUE].nl
  BY <1>6 DEF ChunkType
<1> QED  BY <1>1, <1>4, <1>5, <1>7

(* What each step does to the instance that takes it. *)
LEMMA FailFacts ==
    ASSUME CallType, NEW j \in Journals, J!Fail(j)
    PROVE  /\ jreported' = jreported \cup {jevent[j]} /\ jevent' = [jevent EXCEPT ![j] = None] /\ jevent'[j] = None
           /\ jpc' = [jpc EXCEPT ![j] = "idle"] /\ jpc'[j] = "idle"
  BY DEF CallType, J!Fail, J!At, J!Report

LEMMA AppendFailsFacts ==
    ASSUME CallType, Opened, NEW j \in Journals, J!AppendFails(j)
    PROVE  \/ /\ call[j] = "close" /\ hook' = hook \cup {j} /\ jpc' = [jpc EXCEPT ![j] = "hook"] /\ jpc'[j] = "hook"
              /\ jreported' = jreported /\ jevent' = jevent
           \/ /\ call[j] = "send" /\ hook' = hook
              /\ jreported' = jreported \cup {jevent[j]} /\ jevent' = [jevent EXCEPT ![j] = None] /\ jevent'[j] = None
              /\ jpc' = [jpc EXCEPT ![j] = "idle"] /\ jpc'[j] = "idle"
<1>1. call[j] \in {"send", "close"} /\ jpc \in [Journals -> Calls]
  BY DEF CallType
<1>2. CASE call[j] = "close"
  BY <1>1, <1>2 DEF J!AppendFails, J!At
<1>3. CASE call[j] = "send"
  BY <1>3, FailFacts DEF J!AppendFails
<1> QED  BY <1>1, <1>2, <1>3

LEMMA SyncFacts ==
    ASSUME CallType, NEW j \in Journals, J!Sync(j)
    PROVE  /\ jpc[j] = "sync" /\ synced' = TRUE
           /\ prev' = [prev EXCEPT ![j] = jline[j].id] /\ prev'[j] = jline[j].id
           /\ jrecords' \in [Journals -> Nat]
           /\ jrecords'[j] = jrecords[j] + (IF J!Counts(jline[j]) THEN 1 ELSE 0)
           /\ \A k \in Journals : k # j => jrecords'[k] = jrecords[k]
           /\ disk' = disk /\ lock' = lock /\ open' = open /\ call' = call /\ jline' = jline /\ hook' = hook
           /\ hashes' = hashes /\ fresh' = fresh /\ jreported' = jreported /\ trouble' = trouble
           /\ \/ /\ call[j] = "close" /\ jpc' = [jpc EXCEPT ![j] = "close"] /\ jpc'[j] = "close"
                 /\ acked' = acked /\ jevent' = jevent
              \/ /\ call[j] = "send" /\ J!Counts(jline[j])
                 /\ jpc' = [jpc EXCEPT ![j] = "mark"] /\ jpc'[j] = "mark"
                 /\ acked' = acked /\ jevent' = jevent
              \/ /\ call[j] = "send"
                 /\ jpc' = [jpc EXCEPT ![j] = "idle"] /\ jpc'[j] = "idle"
                 /\ acked' = acked \cup {jevent[j]} /\ jevent' = [jevent EXCEPT ![j] = None] /\ jevent'[j] = None
<1>0. /\ prev \in [Journals -> Nat] /\ jrecords \in [Journals -> Nat] /\ jline[j] \in J!LineType
      /\ jpc \in [Journals -> Calls] /\ jevent \in [Journals -> Records \cup {None}] /\ call[j] \in {"send", "close"}
  BY DEF CallType
<1>1. /\ jpc[j] = "sync" /\ synced' = TRUE /\ prev' = [prev EXCEPT ![j] = jline[j].id]
      /\ disk' = disk /\ lock' = lock /\ open' = open /\ call' = call /\ jline' = jline /\ hook' = hook
      /\ hashes' = hashes /\ fresh' = fresh /\ jreported' = jreported /\ trouble' = trouble
  BY DEF J!Sync, J!Advance
<1>2. prev'[j] = jline[j].id
  BY <1>0, <1>1
<1>3. jrecords' = IF J!Counts(jline[j]) THEN [jrecords EXCEPT ![j] = jrecords[j] + 1] ELSE jrecords
  BY DEF J!Sync
<1>4. /\ jrecords' \in [Journals -> Nat]
      /\ jrecords'[j] = jrecords[j] + (IF J!Counts(jline[j]) THEN 1 ELSE 0)
      /\ \A k \in Journals : k # j => jrecords'[k] = jrecords[k]
  <2>1. CASE J!Counts(jline[j])
    BY <1>0, <1>3, <2>1
  <2>2. CASE ~J!Counts(jline[j])
    BY <1>0, <1>3, <2>2
  <2> QED  BY <2>1, <2>2
<1>5. \/ call[j] = "close" /\ J!At(j, "close") /\ acked' = acked /\ jevent' = jevent
      \/ call[j] = "send" /\ J!Counts(jline[j]) /\ J!At(j, "mark") /\ acked' = acked /\ jevent' = jevent
      \/ /\ call[j] = "send" /\ J!At(j, "idle")
         /\ acked' = acked \cup {jevent[j]} /\ jevent' = [jevent EXCEPT ![j] = None]
  BY <1>0 DEF J!Sync
<1>6. \A place : J!At(j, place) => jpc' = [jpc EXCEPT ![j] = place] /\ jpc'[j] = place
  BY <1>0 DEF J!At
<1>7. jevent' = [jevent EXCEPT ![j] = None] => jevent'[j] = None
  BY <1>0
<1> QED  BY <1>1, <1>2, <1>4, <1>5, <1>6, <1>7

LEMMA SealFacts ==
    ASSUME CallType, hashes \in Nat, NEW j \in Journals, J!SealLine(j)
    PROVE  /\ jpc[j] \in {"seal", "mark"} /\ jpc' = [jpc EXCEPT ![j] = "write"] /\ jpc'[j] = "write"
           /\ jline' \in [Journals -> J!LineType] /\ \A k \in Journals : k # j => jline'[k] = jline[k]
           /\ jline'[j].id = hashes + 1 /\ jline'[j].prev = prev[j] /\ jline'[j].of = jevent[j]
           /\ jline'[j].count = jrecords[j] /\ jline'[j].kind = IF jpc[j] = "seal" THEN "record" ELSE "marker"
           /\ hashes' = hashes + 1 /\ hashes' \in Nat
           /\ disk' = disk /\ synced' = synced /\ lock' = lock /\ open' = open /\ call' = call /\ jevent' = jevent
           /\ prev' = prev /\ jrecords' = jrecords /\ hook' = hook
           /\ fresh' = fresh /\ acked' = acked /\ jreported' = jreported /\ trouble' = trouble
<1> DEFINE l == J!Sealed(j, IF jpc[j] = "seal" THEN "record" ELSE "marker")
<1>0. /\ prev[j] \in Nat /\ jrecords[j] \in Nat /\ jevent[j] \in Records \cup {None} /\ jline \in [Journals -> J!LineType]
      /\ jpc \in [Journals -> Calls]
  BY DEF CallType
<1>1. /\ l \in J!LineType /\ l.id = hashes + 1 /\ l.prev = prev[j] /\ l.of = jevent[j] /\ l.count = jrecords[j]
      /\ l.kind = IF jpc[j] = "seal" THEN "record" ELSE "marker"
  BY <1>0 DEF J!Sealed, J!LineType
<1>2. /\ jpc[j] \in {"seal", "mark"} /\ jline' = [jline EXCEPT ![j] = l] /\ J!At(j, "write") /\ hashes' = hashes + 1
      /\ disk' = disk /\ synced' = synced /\ lock' = lock /\ open' = open /\ call' = call /\ jevent' = jevent
      /\ prev' = prev /\ jrecords' = jrecords /\ hook' = hook
      /\ fresh' = fresh /\ acked' = acked /\ jreported' = jreported /\ trouble' = trouble
  BY DEF J!SealLine, J!file
<1> HIDE DEF l
<1>3. jline'[j] = l /\ jline' \in [Journals -> J!LineType] /\ \A k \in Journals : k # j => jline'[k] = jline[k]
  BY <1>0, <1>1, <1>2
<1>4. jpc' = [jpc EXCEPT ![j] = "write"] /\ jpc'[j] = "write"
  BY <1>0, <1>2 DEF J!At
<1> QED  BY <1>1, <1>2, <1>3, <1>4

LEMMA WriteFacts ==
    ASSUME CallType, NEW j \in Journals, J!Write(j)
    PROVE  /\ jpc[j] = "write" /\ jpc' = [jpc EXCEPT ![j] = "sync"] /\ jpc'[j] = "sync"
           /\ disk' = Append(disk, J!Chunk(jline[j], TRUE, TRUE)) /\ synced' = FALSE
           /\ lock' = lock /\ open' = open /\ call' = call /\ jevent' = jevent /\ jline' = jline
           /\ prev' = prev /\ jrecords' = jrecords /\ hook' = hook /\ hashes' = hashes
           /\ fresh' = fresh /\ acked' = acked /\ jreported' = jreported /\ trouble' = trouble
  BY DEF J!Write, J!At, CallType, J!ghosts

(* An append that fails leaves the file, or a line without its newline. *)
AppendFailed(j) == J!AppendNothing(j) \/ J!WriteShort(j) \/ J!SyncFails(j)
LEMMA FailedFacts ==
    ASSUME CallType, NEW j \in Journals, AppendFailed(j)
    PROVE  /\ J!AppendFails(j) /\ jpc[j] \in {"seal", "mark", "write", "sync"}
           /\ \/ disk' = disk
              \/ jpc[j] = "write" /\ \E whole \in BOOLEAN : disk' = Append(disk, J!Chunk(jline[j], whole, FALSE))
           /\ synced' = synced /\ lock' = lock /\ open' = open /\ call' = call /\ jline' = jline
           /\ prev' = prev /\ jrecords' = jrecords /\ hashes' = hashes
           /\ fresh' = fresh /\ acked' = acked /\ trouble' = Append(trouble, "error")
<1>1. CASE J!AppendNothing(j)
  BY <1>1 DEF J!AppendNothing, J!Happens, J!file
<1>2. CASE J!WriteShort(j)
  BY <1>2 DEF J!WriteShort, J!Happens
<1>3. CASE J!SyncFails(j)
  BY <1>3 DEF J!SyncFails, J!Happens, J!file
<1> QED  BY <1>1, <1>2, <1>3 DEF AppendFailed

LEMMA CrashFacts ==
    ASSUME CallType, NEW j \in Journals, J!Crash(j)
    PROVE  /\ jpc[j] # "idle" \/ j \in open
           /\ jpc' = [jpc EXCEPT ![j] = "idle"] /\ jpc'[j] = "idle"
           /\ jevent' = [jevent EXCEPT ![j] = None] /\ jevent'[j] = None
           /\ jline' = [jline EXCEPT ![j] = J!NoLine] /\ prev' = [prev EXCEPT ![j] = 0] /\ prev'[j] = 0
           /\ jrecords' = [jrecords EXCEPT ![j] = 0] /\ jrecords'[j] = 0
           /\ synced' = TRUE /\ open' = open \ {j} /\ hook' = hook \ {j} /\ call' = call
           /\ lock' = IF lock = j THEN None ELSE lock
           /\ hashes' = hashes /\ fresh' = fresh /\ acked' = acked /\ jreported' = jreported
<1>1. /\ jpc[j] # "idle" \/ j \in open
      /\ J!At(j, "idle") /\ jevent' = [jevent EXCEPT ![j] = None]
      /\ jline' = [jline EXCEPT ![j] = J!NoLine] /\ prev' = [prev EXCEPT ![j] = 0]
      /\ jrecords' = [jrecords EXCEPT ![j] = 0]
      /\ synced' = TRUE /\ open' = open \ {j} /\ hook' = hook \ {j} /\ call' = call
      /\ lock' = IF lock = j THEN None ELSE lock
      /\ hashes' = hashes /\ fresh' = fresh /\ acked' = acked /\ jreported' = jreported
  BY DEF J!Crash, J!Start
<1>2. jpc' = [jpc EXCEPT ![j] = "idle"] /\ jpc'[j] = "idle"
  BY <1>1 DEF J!At, CallType
<1>3. jevent'[j] = None /\ prev'[j] = 0 /\ jrecords'[j] = 0
  BY <1>1 DEF CallType
<1> QED  BY <1>1, <1>2, <1>3

LEMMA SendFacts ==
    ASSUME CallType, NEW j \in Journals, J!SendCall(j)
    PROVE  /\ jpc[j] = "idle" /\ J!NextRecord \in fresh /\ fresh' = fresh \ {J!NextRecord}
           /\ jevent' = [jevent EXCEPT ![j] = J!NextRecord] /\ jevent'[j] = J!NextRecord
           /\ call' = [call EXCEPT ![j] = "send"] /\ call'[j] = "send"
           /\ \/ j \in open /\ jpc' = [jpc EXCEPT ![j] = "seal"] /\ jpc'[j] = "seal"
              \/ j \notin open /\ jpc' = [jpc EXCEPT ![j] = "open"] /\ jpc'[j] = "open"
           /\ disk' = disk /\ synced' = synced /\ lock' = lock /\ open' = open /\ jline' = jline
           /\ prev' = prev /\ jrecords' = jrecords /\ hook' = hook /\ hashes' = hashes
           /\ acked' = acked /\ jreported' = jreported /\ trouble' = trouble
<1>1. J!NextRecord \in fresh
  BY NextFresh DEF J!SendCall
<1>2. \A place : J!At(j, place) => jpc' = [jpc EXCEPT ![j] = place] /\ jpc'[j] = place
  BY DEF J!At, CallType
<1>3. jevent' = [jevent EXCEPT ![j] = J!NextRecord] /\ call' = [call EXCEPT ![j] = "send"]
  BY DEF J!SendCall
<1>4. jevent'[j] = J!NextRecord /\ call'[j] = "send"
  BY <1>3 DEF CallType
<1> QED  BY <1>1, <1>2, <1>3, <1>4 DEF J!SendCall, J!file

(* The steps that only open, resume or close. *)
Quiet == /\ synced' = synced /\ hashes' = hashes /\ fresh' = fresh /\ acked' = acked /\ trouble' = trouble
LEMMA OpenFacts ==
    ASSUME CallType, NEW j \in Journals, J!Open(j)
    PROVE  /\ Quiet /\ disk' = disk /\ jpc[j] = "open"
           /\ open' = open /\ call' = call /\ jline' = jline /\ prev' = prev /\ jrecords' = jrecords /\ hook' = hook
           /\ \/ /\ lock' = lock /\ jreported' = jreported \cup {jevent[j]}
                 /\ jevent' = [jevent EXCEPT ![j] = None] /\ jevent'[j] = None
                 /\ jpc' = [jpc EXCEPT ![j] = "idle"] /\ jpc'[j] = "idle"
              \/ /\ lock = None /\ lock' = j /\ jreported' = jreported /\ jevent' = jevent
                 /\ jpc' = [jpc EXCEPT ![j] = "resume"] /\ jpc'[j] = "resume"
<1>1. CASE J!OpenBusy(j)
  BY <1>1, FailFacts DEF J!OpenBusy, Quiet, J!file
<1>2. CASE J!OpenLock(j)
  <2>1. /\ Quiet /\ disk' = disk /\ jpc[j] = "open"
        /\ open' = open /\ call' = call /\ jline' = jline /\ prev' = prev /\ jrecords' = jrecords /\ hook' = hook
        /\ lock = None /\ lock' = j /\ jreported' = jreported /\ jevent' = jevent /\ J!At(j, "resume")
    BY <1>2 DEF J!OpenLock, J!LockFree, Quiet, J!file, J!ghosts
  <2>2. jpc' = [jpc EXCEPT ![j] = "resume"] /\ jpc'[j] = "resume"
    BY <2>1 DEF J!At, CallType
  <2> QED  BY <2>1, <2>2
<1> QED  BY <1>1, <1>2 DEF J!Open

(* A resumed instance: what it read, and what it leaves in the file. *)
Reopened(j, s, n) ==
    /\ J!Replays(disk) /\ open' = open \cup {j} /\ jreported' = jreported
    /\ prev' = [prev EXCEPT ![j] = J!HeadOf(s)] /\ prev'[j] = J!HeadOf(s)
    /\ jrecords' = [jrecords EXCEPT ![j] = n] /\ jrecords'[j] = n
    /\ jpc' = [jpc EXCEPT ![j] = "seal"] /\ jpc'[j] = "seal"
    /\ lock' = lock /\ call' = call /\ jevent' = jevent /\ jline' = jline /\ hook' = hook
    /\ hashes' = hashes /\ fresh' = fresh /\ acked' = acked /\ trouble' = trouble
LEMMA ReopenFacts ==
    ASSUME CallType, NEW j \in Journals, NEW s, NEW n, J!Resumed(j, s), jrecords' = [jrecords EXCEPT ![j] = n]
    PROVE  /\ open' = open \cup {j}
           /\ prev' = [prev EXCEPT ![j] = J!HeadOf(s)] /\ prev'[j] = J!HeadOf(s)
           /\ jrecords' = [jrecords EXCEPT ![j] = n] /\ jrecords'[j] = n
           /\ jpc' = [jpc EXCEPT ![j] = "seal"] /\ jpc'[j] = "seal"
  BY DEF J!Resumed, J!At, CallType

LEMMA ResumeFacts ==
    ASSUME JournalInv, NEW j \in Journals, J!Resume(j)
    PROVE  /\ jpc[j] \in {"resume", "truncate"}
           /\ \/ /\ Quiet /\ disk' = disk /\ jpc[j] = "resume" /\ lock' = None
                 /\ open' = open /\ call' = call /\ jline' = jline /\ prev' = prev /\ jrecords' = jrecords /\ hook' = hook
                 /\ jreported' = jreported \cup {jevent[j]}
                 /\ jevent' = [jevent EXCEPT ![j] = None] /\ jevent'[j] = None
                 /\ jpc' = [jpc EXCEPT ![j] = "idle"] /\ jpc'[j] = "idle"
              \/ Reopened(j, disk, J!RecordsIn(disk)) /\ J!Rest(disk) = <<>> /\ disk' = disk /\ synced' = synced
              \/ /\ Reopened(j, disk, J!RecordsIn(J!Body(disk)) + 1) /\ J!Complete(disk)
                 /\ disk' = Append(disk, [J!Rest(disk)[1] EXCEPT !.nl = TRUE]) /\ synced' = FALSE
              \/ /\ Quiet /\ disk' = disk /\ jpc[j] = "resume" /\ J!Replays(disk) /\ J!Rest(disk) # <<>>
                 /\ open' = open /\ call' = call /\ jline' = jline /\ prev' = prev /\ jrecords' = jrecords /\ hook' = hook
                 /\ jreported' = jreported /\ jevent' = jevent /\ lock' = lock
                 /\ jpc' = [jpc EXCEPT ![j] = "truncate"] /\ jpc'[j] = "truncate"
              \/ /\ Reopened(j, J!Body(disk), J!RecordsIn(J!Body(disk))) /\ disk' = J!Body(disk) /\ synced' = synced
                 /\ J!Rest(disk) # <<>>
<1>0. CallType /\ Writes(j)
  BY DEF JournalInv
<1>1. CASE J!ResumeRefuse(j)
  BY <1>0, <1>1, FailFacts DEF J!ResumeRefuse, Quiet, J!file
<1>2. CASE J!ResumeClean(j)
  BY <1>0, <1>2, ReopenFacts DEF J!ResumeClean, Reopened, J!file, J!ghosts
<1>3. CASE J!ResumeKeep(j)
  BY <1>0, <1>3, ReopenFacts DEF J!ResumeKeep, Reopened, J!ghosts
<1>4. CASE J!ResumeSetAside(j)
  <2>1. /\ Quiet /\ disk' = disk /\ jpc[j] = "resume" /\ J!Replays(disk) /\ J!Rest(disk) # <<>>
        /\ open' = open /\ call' = call /\ jline' = jline /\ prev' = prev /\ jrecords' = jrecords /\ hook' = hook
        /\ jreported' = jreported /\ jevent' = jevent /\ lock' = lock /\ J!At(j, "truncate")
    BY <1>4 DEF J!ResumeSetAside, Quiet, J!ghosts
  <2>2. jpc' = [jpc EXCEPT ![j] = "truncate"] /\ jpc'[j] = "truncate"
    BY <1>0, <2>1 DEF J!At, CallType
  <2> QED  BY <2>1, <2>2
<1>5. CASE J!ResumeTruncate(j)
  <2>1. /\ jpc[j] = "truncate" /\ disk' = J!Body(disk) /\ synced' = synced
        /\ J!Resumed(j, J!Body(disk)) /\ jrecords' = [jrecords EXCEPT ![j] = J!RecordsIn(J!Body(disk))]
        /\ lock' = lock /\ call' = call /\ jevent' = jevent /\ jline' = jline /\ hook' = hook
        /\ hashes' = hashes /\ fresh' = fresh /\ acked' = acked /\ jreported' = jreported /\ trouble' = trouble
    BY <1>5 DEF J!ResumeTruncate, J!CutTail, J!ghosts
  <2>2. J!Replays(disk) /\ J!Rest(disk) # <<>>
    BY <1>0, <2>1 DEF Writes
  <2> QED  BY <1>0, <2>1, <2>2, ReopenFacts DEF Reopened
<1> QED  BY <1>1, <1>2, <1>3, <1>4, <1>5 DEF J!Resume

LEMMA CloseFacts ==
    ASSUME CallType, NEW j \in Journals, J!Close(j)
    PROVE  /\ Quiet /\ disk' = disk /\ jevent' = jevent /\ jline' = jline /\ prev' = prev /\ jrecords' = jrecords
           /\ jreported' = jreported
           /\ \/ /\ jpc[j] = "idle" /\ j \in open /\ lock' = lock /\ open' = open /\ hook' = hook
                 /\ call' = [call EXCEPT ![j] = "close"] /\ call'[j] = "close"
                 /\ \/ jpc' = [jpc EXCEPT ![j] = "mark"] /\ jpc'[j] = "mark"
                    \/ jpc' = [jpc EXCEPT ![j] = "close"] /\ jpc'[j] = "close"
              \/ /\ jpc[j] = "hook" /\ hook' = hook \ {j} /\ lock' = lock /\ open' = open /\ call' = call
                 /\ jpc' = [jpc EXCEPT ![j] = "close"] /\ jpc'[j] = "close"
              \/ /\ jpc[j] = "close" /\ open' = open \ {j} /\ lock' = None /\ hook' = hook /\ call' = call
                 /\ jpc' = [jpc EXCEPT ![j] = "idle"] /\ jpc'[j] = "idle"
<1>0. \A place : J!At(j, place) => jpc' = [jpc EXCEPT ![j] = place] /\ jpc'[j] = place
  BY DEF J!At, CallType
<1>1. CASE J!CloseCall(j)
  <2>1. call' = [call EXCEPT ![j] = "close"] /\ call'[j] = "close"
    BY <1>1 DEF J!CloseCall, CallType
  <2> QED  BY <1>0, <1>1, <2>1 DEF J!CloseCall, Quiet, J!file, J!ghosts
<1>2. CASE J!HookReturns(j)
  BY <1>0, <1>2 DEF J!HookReturns, Quiet, J!file, J!ghosts
<1>3. CASE J!CloseFile(j)
  BY <1>0, <1>3 DEF J!CloseFile, Quiet, J!file, J!ghosts
<1> QED  BY <1>1, <1>2, <1>3 DEF J!Close

(* What went wrong is not forgotten. *)
LEMMA Troubled ==
    ASSUME NEW what \in Troubles, trouble \in Seq(Troubles), trouble' = Append(trouble, what)
    PROVE  trouble' \in Seq(Troubles) /\ J!Range(trouble') = J!Range(trouble) \cup {what}
<1>1. Len(trouble') = Len(trouble) + 1 /\ Len(trouble) \in Nat /\ trouble' \in Seq(Troubles)
  BY AppendProperties
<1>2. DOMAIN trouble = 1..Len(trouble) /\ DOMAIN trouble' = 1..Len(trouble')
  BY <1>1
<1>3. \A i \in 1..Len(trouble') : trouble'[i] = IF i <= Len(trouble) THEN trouble[i] ELSE what
  BY AppendProperties
<1>4. ASSUME NEW x \in J!Range(trouble') PROVE x \in J!Range(trouble) \cup {what}
  BY <1>1, <1>2, <1>3, <1>4 DEF J!Range
<1>5. ASSUME NEW x \in J!Range(trouble) PROVE x \in J!Range(trouble')
  <2>1. PICK i \in 1..Len(trouble) : x = trouble[i]
    BY <1>2, <1>5 DEF J!Range
  <2>2. i \in 1..Len(trouble') /\ trouble'[i] = x
    BY <1>1, <1>3, <2>1
  <2> QED  BY <1>2, <2>2 DEF J!Range
<1>6. what \in J!Range(trouble')
  <2>1. Len(trouble') \in 1..Len(trouble') /\ trouble'[Len(trouble')] = what
    BY <1>1, <1>3
  <2> QED  BY <1>2, <2>1 DEF J!Range
<1> QED  BY <1>1, <1>4, <1>5, <1>6

LEMMA StepTroubles ==
    ASSUME JournalInv, NEW j \in Journals, Step(j)
    PROVE  /\ trouble' \in Seq(Troubles)
           /\ \/ trouble' = trouble
              \/ \E what \in {"crash", "newline"} : J!Crash(j) /\ J!Range(trouble') = J!Range(trouble) \cup {what}
              \/ /\ J!AppendNothing(j) \/ J!WriteShort(j) \/ J!SyncFails(j)
                 /\ J!Range(trouble') = J!Range(trouble) \cup {"error"}
<1>0. trouble \in Seq(Troubles) /\ {"crash", "newline", "error"} \subseteq Troubles
  BY DEF JournalInv, FileType, Troubles
<1>1. CASE J!SendCall(j) \/ J!Open(j) \/ J!Resume(j) \/ J!Close(j)
  <2>1. trouble' = trouble
    BY <1>1 DEF J!SendCall, J!Open, J!OpenBusy, J!OpenLock, J!Close, J!CloseCall, J!HookReturns, J!CloseFile, J!ghosts,
                J!Resume, J!ResumeRefuse, J!ResumeClean, J!ResumeKeep, J!ResumeSetAside, J!ResumeTruncate
  <2> QED  BY <1>0, <2>1
<1>2. CASE J!SealLine(j) \/ J!Write(j) \/ J!Sync(j)
  <2>1. trouble' = trouble
    BY <1>2 DEF J!SealLine, J!Write, J!Sync, J!ghosts
  <2> QED  BY <1>0, <2>1
<1>3. CASE J!AppendNothing(j) \/ J!WriteShort(j) \/ J!SyncFails(j)
  <2>1. trouble' = Append(trouble, "error")
    BY <1>3 DEF J!AppendNothing, J!WriteShort, J!SyncFails, J!Happens
  <2> QED  BY <1>0, <1>3, <2>1, Troubled
<1>4. CASE J!Crash(j)
  <2>1. PICK what \in {"crash", "newline"} : trouble' = Append(trouble, what)
    BY <1>4 DEF J!Crash, J!Happens
  <2> QED  BY <1>0, <1>4, <2>1, Troubled
<1> QED  BY <1>1, <1>2, <1>3, <1>4 DEF Step, J!AppendLine

LEMMA FileTyped ==
    ASSUME JournalInv, NEW j \in Journals, Step(j)
    PROVE  FileType'
<1>1. disk \in Seq(ChunkType) /\ synced \in BOOLEAN /\ lock \in Journals \cup {None} /\ hashes \in Nat
  BY DEF JournalInv, FileType
<1>2. disk' \in Seq(ChunkType)
  <2>1. CASE disk' = disk
    BY <1>1, <2>1
  <2>2. CASE \E whole, nl \in BOOLEAN : disk' = Append(disk, J!Chunk(jline[j], whole, nl))
    BY <1>1, <2>2, Appended, LineTyped
  <2>5. CASE J!Complete(disk) /\ disk' = Append(disk, [J!Rest(disk)[1] EXCEPT !.nl = TRUE])
    BY <1>1, <2>5, Appended, Second
  <2>3. CASE disk' = J!Body(disk)
    BY <1>1, <2>3, Parts
  <2>4. CASE disk # <<>> /\ (disk' = Behind \/ \E x \in Cut(disk[Len(disk)]) : disk' = Append(Behind, x))
    <3>1. Behind \in Seq(ChunkType) /\ disk[Len(disk)] \in ChunkType
      BY <1>1, <2>4, LastOff DEF Behind
    <3> QED  BY <2>4, <3>1, CutTyped, Appended
  <2> QED  BY <2>1, <2>2, <2>3, <2>4, <2>5, FileMoves
<1>3. synced' \in BOOLEAN /\ lock' \in Journals \cup {None} /\ hashes' \in Nat
  <2>1. CASE J!SendCall(j) \/ J!Open(j) \/ J!Close(j)
    BY <1>1, <2>1 DEF J!SendCall, J!Open, J!OpenBusy, J!OpenLock, J!Close, J!CloseCall, J!HookReturns, J!CloseFile, J!file, J!ghosts
  <2>2. CASE J!Resume(j)
    BY <1>1, <2>2 DEF J!Resume, J!ResumeRefuse, J!ResumeClean, J!ResumeKeep, J!ResumeSetAside, J!ResumeTruncate, J!file, J!ghosts
  <2>3. CASE J!AppendLine(j)
    <3> USE DEF JournalInv
    <3>1. CASE J!SealLine(j)
      BY <1>1, <3>1, SealFacts
    <3>2. CASE J!Write(j)
      BY <1>1, <3>2, WriteFacts
    <3>3. CASE J!Sync(j)
      BY <1>1, <3>3, SyncFacts
    <3>4. CASE AppendFailed(j)
      BY <1>1, <3>4, FailedFacts
    <3> QED  BY <2>3, <3>1, <3>2, <3>3, <3>4 DEF J!AppendLine, AppendFailed
  <2>4. CASE J!Crash(j)
    BY <1>1, <2>4 DEF J!Crash
  <2> QED  BY <2>1, <2>2, <2>3, <2>4 DEF Step
<1>4. trouble' \in Seq(Troubles)
  BY StepTroubles
<1> QED  BY <1>2, <1>3, <1>4 DEF FileType

(* A step of one instance leaves what the others remember. *)
LEMMA OthersStay ==
    ASSUME JournalInv, NEW j \in Journals, Step(j)
    PROVE  /\ CallType' /\ Opened'
           /\ \A k \in Journals : k # j =>
                  /\ jpc'[k] = jpc[k] /\ call'[k] = call[k] /\ jevent'[k] = jevent[k] /\ jline'[k] = jline[k]
                  /\ prev'[k] = prev[k] /\ jrecords'[k] = jrecords[k]
                  /\ k \in open' <=> k \in open
                  /\ k \in hook' <=> k \in hook
<1> DEFINE OthersKept == \A k \in Journals : k # j =>
                  /\ jpc'[k] = jpc[k] /\ call'[k] = call[k] /\ jevent'[k] = jevent[k] /\ jline'[k] = jline[k]
                  /\ prev'[k] = prev[k] /\ jrecords'[k] = jrecords[k]
                  /\ k \in open' <=> k \in open
                  /\ k \in hook' <=> k \in hook
<1>0. CallType /\ Opened /\ hashes \in Nat /\ {"idle", "open", "resume", "truncate", "seal", "mark", "write", "sync", "hook", "close"} = Calls
  BY DEF JournalInv, FileType, Calls
<1>1. CASE J!SendCall(j)
  <2>1. CallType'
    BY <1>0, <1>1, SendFacts DEF CallType
  <2>2. Opened' /\ OthersKept
    BY <1>0, <1>1, SendFacts DEF CallType, Opened
  <2> QED  BY <2>1, <2>2
<1>2. CASE J!Open(j)
  <2>0. jevent[j] # None
    BY <1>0, <1>2, OpenFacts DEF JournalInv, Calling
  <2>1. CallType'
    BY <1>0, <1>2, <2>0, OpenFacts DEF CallType, Quiet
  <2>2. Opened' /\ OthersKept
    BY <1>0, <1>2, OpenFacts DEF CallType, Opened
  <2> QED  BY <2>1, <2>2
<1>3. CASE J!Resume(j)
  <2>0. /\ J!RecordsIn(disk) \in Nat /\ J!HeadOf(disk) \in Nat
        /\ J!RecordsIn(J!Body(disk)) \in Nat /\ J!RecordsIn(J!Body(disk)) + 1 \in Nat /\ J!HeadOf(J!Body(disk)) \in Nat
    <3>1. disk \in Seq(ChunkType) /\ J!Body(disk) \in Seq(ChunkType)
      BY Parts DEF JournalInv, FileType
    <3>2. J!RecordsIn(disk) \in Nat /\ J!RecordsIn(J!Body(disk)) \in Nat /\ J!RecordsIn(J!Body(disk)) + 1 \in Nat
      BY <3>1, CountTyped
    <3> QED  BY <3>1, <3>2, HeadTyped
  <2>1. ASSUME NEW s, NEW n \in Nat, J!HeadOf(s) \in Nat, Reopened(j, s, n)
        PROVE  CallType' /\ Opened' /\ OthersKept
    <3>1. CallType'
      BY <1>0, <2>1 DEF CallType, Reopened
    <3>2. Opened' /\ OthersKept
      BY <1>0, <2>1 DEF CallType, Opened, Reopened
    <3> QED  BY <3>1, <3>2
  <2>2. ASSUME /\ Quiet /\ open' = open /\ call' = call /\ jline' = jline /\ prev' = prev /\ jrecords' = jrecords /\ hook' = hook,
               \/ /\ jreported' = jreported \cup {jevent[j]}
                  /\ jevent' = [jevent EXCEPT ![j] = None] /\ jpc' = [jpc EXCEPT ![j] = "idle"]
               \/ jreported' = jreported /\ jevent' = jevent /\ jpc' = [jpc EXCEPT ![j] = "truncate"],
               jpc[j] \in {"resume", "truncate"}
        PROVE  CallType' /\ Opened' /\ OthersKept
    <3>0. jevent[j] # None
      BY <2>2 DEF JournalInv, Calling
    <3>1. CallType'
      BY <1>0, <2>2, <3>0 DEF CallType, Quiet
    <3>2. Opened' /\ OthersKept
      BY <1>0, <2>2 DEF CallType, Opened
    <3> QED  BY <3>1, <3>2
  <2>3. jpc[j] \in {"resume", "truncate"}
    BY <1>3, ResumeFacts
  <2> QED  BY <1>3, <2>0, <2>1, <2>2, <2>3, ResumeFacts
<1>4. CASE J!SealLine(j)
  <2>1. CallType'
    BY <1>0, <1>4, SealFacts DEF CallType
  <2>2. Opened' /\ OthersKept
    BY <1>0, <1>4, SealFacts DEF CallType, Opened
  <2> QED  BY <2>1, <2>2
<1>5. CASE J!Write(j)
  <2>1. CallType'
    BY <1>0, <1>5, WriteFacts DEF CallType
  <2>2. Opened' /\ OthersKept
    BY <1>0, <1>5, WriteFacts DEF CallType, Opened
  <2> QED  BY <2>1, <2>2
<1>6. CASE J!Sync(j)
  <2>0. jline[j].id \in Nat /\ (call[j] = "send" => jevent[j] # None)
    BY <1>0, <1>6, SyncFacts DEF JournalInv, Calling, CallType, J!LineType
  <2>1. /\ prev' = [prev EXCEPT ![j] = jline[j].id] /\ jrecords' \in [Journals -> Nat]
        /\ \A k \in Journals : k # j => jrecords'[k] = jrecords[k]
        /\ open' = open /\ call' = call /\ jline' = jline /\ hook' = hook /\ fresh' = fresh /\ jreported' = jreported
    BY <1>0, <1>6, SyncFacts
  <2>2. \/ jpc' = [jpc EXCEPT ![j] = "close"] /\ acked' = acked /\ jevent' = jevent
        \/ jpc' = [jpc EXCEPT ![j] = "mark"] /\ acked' = acked /\ jevent' = jevent
        \/ /\ jpc' = [jpc EXCEPT ![j] = "idle"] /\ call[j] = "send"
           /\ acked' = acked \cup {jevent[j]} /\ jevent' = [jevent EXCEPT ![j] = None]
    BY <1>0, <1>6, SyncFacts
  <2>3. CallType'
    BY <1>0, <2>0, <2>1, <2>2 DEF CallType
  <2>4. Opened' /\ OthersKept
    BY <1>0, <2>1, <2>2 DEF CallType, Opened
  <2> QED  BY <2>3, <2>4
<1>7. CASE AppendFailed(j)
  <2>1. /\ open' = open /\ call' = call /\ jline' = jline /\ prev' = prev /\ jrecords' = jrecords
        /\ fresh' = fresh /\ acked' = acked /\ J!AppendFails(j)
    BY <1>0, <1>7, FailedFacts
  <2>2. \/ /\ hook' = hook \cup {j} /\ jpc' = [jpc EXCEPT ![j] = "hook"]
           /\ jreported' = jreported /\ jevent' = jevent
        \/ /\ hook' = hook /\ call[j] = "send"
           /\ jreported' = jreported \cup {jevent[j]} /\ jevent' = [jevent EXCEPT ![j] = None]
           /\ jpc' = [jpc EXCEPT ![j] = "idle"]
    BY <1>0, <2>1, AppendFailsFacts
  <2>3. call[j] = "send" => jevent[j] # None
    BY <1>0, <1>7, FailedFacts DEF JournalInv, Calling
  <2>4. CallType'
    BY <1>0, <2>1, <2>2, <2>3 DEF CallType
  <2>5. Opened' /\ OthersKept
    BY <1>0, <2>1, <2>2 DEF CallType, Opened
  <2> QED  BY <2>4, <2>5
<1>8. CASE J!Close(j)
  <2>1. CallType'
    BY <1>0, <1>8, CloseFacts DEF CallType, Quiet
  <2>2. Opened' /\ OthersKept
    BY <1>0, <1>8, CloseFacts DEF CallType, Opened
  <2> QED  BY <2>1, <2>2
<1>9. CASE J!Crash(j)
  <2>1. /\ jpc' = [jpc EXCEPT ![j] = "idle"] /\ jevent' = [jevent EXCEPT ![j] = None]
        /\ jline' = [jline EXCEPT ![j] = J!NoLine] /\ prev' = [prev EXCEPT ![j] = 0]
        /\ jrecords' = [jrecords EXCEPT ![j] = 0]
        /\ open' = open \ {j} /\ hook' = hook \ {j} /\ call' = call
        /\ fresh' = fresh /\ acked' = acked /\ jreported' = jreported /\ J!NoLine \in J!LineType
    BY <1>0, <1>9, CrashFacts, LineTyped
  <2>2. CallType'
    BY <1>0, <2>1 DEF CallType
  <2>3. Opened' /\ OthersKept
    BY <1>0, <2>1 DEF CallType, Opened
  <2> QED  BY <2>2, <2>3
<1> QED  BY <1>1, <1>2, <1>3, <1>4, <1>5, <1>6, <1>7, <1>8, <1>9 DEF Step, J!AppendLine, AppendFailed

LEMMA HolderKept ==
    ASSUME JournalInv, NEW j \in Journals, Step(j)
    PROVE  \A k \in Journals : Holder(k)'
<1>0. CallType /\ Opened /\ hashes \in Nat /\ Holder(j) /\ None \notin Journals
  BY JournalParameters DEF JournalInv, FileType
<1>1. Holder(j)'
  <2>1. CASE J!SendCall(j)
    BY <1>0, <2>1, SendFacts DEF Holder
  <2>2. CASE J!Open(j)
    BY <1>0, <2>2, OpenFacts DEF Holder
  <2>3. CASE J!Resume(j)
    BY <1>0, <2>3, ResumeFacts DEF Holder, Reopened
  <2>4. CASE J!SealLine(j)
    BY <1>0, <2>4, SealFacts DEF Holder
  <2>5. CASE J!Write(j)
    BY <1>0, <2>5, WriteFacts DEF Holder
  <2>6. CASE J!Sync(j)
    BY <1>0, <2>6, SyncFacts DEF Holder
  <2>7. CASE AppendFailed(j)
    BY <1>0, <2>7, FailedFacts, AppendFailsFacts DEF Holder
  <2>8. CASE J!Close(j)
    BY <1>0, <2>8, CloseFacts DEF Holder
  <2>9. CASE J!Crash(j)
    BY <1>0, <2>9, CrashFacts DEF Holder
  <2> QED  BY <2>1, <2>2, <2>3, <2>4, <2>5, <2>6, <2>7, <2>8, <2>9 DEF Step, J!AppendLine, AppendFailed
<1>2. ASSUME NEW k \in Journals, k # j PROVE Holder(k)'
  <2>1. Holder(k)
    BY DEF JournalInv
  <2>2. \/ lock' = lock
        \/ lock = None /\ lock' = j
        \/ lock = j /\ lock' = None
    <3>1. CASE J!SendCall(j)
      BY <1>0, <3>1, SendFacts
    <3>2. CASE J!Open(j)
      BY <1>0, <3>2, OpenFacts
    <3>3. CASE J!Resume(j)
      BY <1>0, <3>3, ResumeFacts DEF Holder, Reopened
    <3>4. CASE J!SealLine(j)
      BY <1>0, <3>4, SealFacts
    <3>5. CASE J!Write(j)
      BY <1>0, <3>5, WriteFacts
    <3>6. CASE J!Sync(j)
      BY <1>0, <3>6, SyncFacts
    <3>7. CASE AppendFailed(j)
      BY <1>0, <3>7, FailedFacts
    <3>8. CASE J!Close(j)
      BY <1>0, <3>8, CloseFacts DEF Holder
    <3>9. CASE J!Crash(j)
      BY <1>0, <3>9, CrashFacts
    <3> QED  BY <3>1, <3>2, <3>3, <3>4, <3>5, <3>6, <3>7, <3>8, <3>9 DEF Step, J!AppendLine, AppendFailed
  <2>3. /\ jpc'[k] = jpc[k] /\ (k \in open' <=> k \in open) /\ (k \in hook' <=> k \in hook)
    BY <1>2, OthersStay
  <2> QED  BY <1>0, <1>2, <2>1, <2>2, <2>3 DEF Holder
<1> QED  BY <1>1, <1>2

LEMMA CallingKept ==
    ASSUME JournalInv, NEW j \in Journals, Step(j)
    PROVE  Sorted' /\ \A k \in Journals : Calling(k)'
<1>0. /\ CallType /\ Opened /\ hashes \in Nat /\ Sorted /\ None \notin Records
      /\ \A k \in Journals : Calling(k) /\ Holder(k)
  BY JournalParameters DEF JournalInv, FileType
<1> DEFINE
    Same == fresh' = fresh /\ acked' = acked /\ jreported' = jreported /\ jevent'[j] = jevent[j]
    Sends == J!NextRecord \in fresh /\ jevent'[j] = J!NextRecord /\ fresh' = fresh \ {J!NextRecord}
             /\ acked' = acked /\ jreported' = jreported /\ jevent[j] = None
    Settles == jevent'[j] = None /\ fresh' = fresh
            /\ \/ acked' = acked /\ jreported' = jreported \cup {jevent[j]}
               \/ acked' = acked \cup {jevent[j]} /\ jreported' = jreported
               \/ acked' = acked /\ jreported' = jreported
    Here == /\ jevent'[j] = None <=> jpc'[j] = "idle" \/ call'[j] = "close"
            /\ jpc'[j] \in {"open", "resume", "truncate", "seal"} => call'[j] = "send"
            /\ jpc'[j] \in {"hook", "close"} => call'[j] = "close"
<1>1. Here /\ (Same \/ Sends \/ (Settles /\ (jevent[j] # None \/ (acked' = acked /\ jreported' = jreported))))
  <2> USE DEF Calling
  <2>1. CASE J!SendCall(j)
    BY <1>0, <2>1, SendFacts DEF CallType
  <2>2. CASE J!Open(j)
    BY <1>0, <2>2, OpenFacts DEF CallType, Quiet
  <2>3. CASE J!Resume(j)
    BY <1>0, <2>3, ResumeFacts DEF CallType, Reopened, Quiet
  <2>4. CASE J!SealLine(j)
    BY <1>0, <2>4, SealFacts DEF CallType
  <2>5. CASE J!Write(j)
    BY <1>0, <2>5, WriteFacts DEF CallType
  <2>6. CASE J!Sync(j)
    BY <1>0, <2>6, SyncFacts DEF CallType
  <2>7. CASE AppendFailed(j)
    BY <1>0, <2>7, FailedFacts, AppendFailsFacts DEF CallType
  <2>8. CASE J!Close(j)
    BY <1>0, <2>8, CloseFacts DEF CallType, Quiet
  <2>9. CASE J!Crash(j)
    BY <1>0, <2>9, CrashFacts DEF CallType
  <2> QED  BY <2>1, <2>2, <2>3, <2>4, <2>5, <2>6, <2>7, <2>8, <2>9 DEF Step, J!AppendLine, AppendFailed
<1>2. \A k \in Journals : k # j => jevent'[k] = jevent[k] /\ jpc'[k] = jpc[k] /\ call'[k] = call[k]
  BY OthersStay
<1>3. fresh \subseteq Records /\ jevent[j] \in Records \cup {None}
  BY <1>0 DEF CallType
<1>4. Sorted'
  BY <1>0, <1>1, <1>3 DEF Sorted, Calling
<1>5. \A k \in Journals : /\ jevent'[k] \notin fresh' \cup acked' \cup jreported'
                          /\ \A i \in Journals : jevent'[k] = jevent'[i] /\ jevent'[k] # None => k = i
  <2> HIDE DEF Here
  <2>1. CASE Same
    BY <1>0, <1>2, <2>1 DEF Calling
  <2>2. CASE Sends
    BY <1>0, <1>2, <1>3, <2>2 DEF Calling, Sorted
  <2>3. CASE Settles /\ (jevent[j] # None \/ (acked' = acked /\ jreported' = jreported))
    <3>1. None \notin fresh \cup acked' \cup jreported'
      BY <1>0, <1>3, <2>3 DEF CallType
    <3> QED  BY <1>0, <1>2, <2>3, <3>1 DEF Calling
  <2> QED  BY <1>1, <2>1, <2>2, <2>3
<1> QED  BY <1>0, <1>1, <1>2, <1>4, <1>5 DEF Calling

LEMMA BodyFacts ==
    ASSUME NEW s \in Seq(ChunkType)
    PROVE  /\ J!Body(s) \in Seq(ChunkType) /\ Len(J!Body(s)) = J!LastNewline(s)
           /\ \A m \in 1..J!LastNewline(s) : J!Body(s)[m] = s[m]
           /\ \A m \in 1..Len(J!Body(s)) : m \in 1..Len(s) /\ J!Body(s)[m] = s[m]
           /\ J!LastNewline(s) \in 0..Len(s) /\ Len(s) \in Nat /\ J!LastNewline(s) \in Nat
<1>1. /\ J!Body(s) \in Seq(ChunkType) /\ Len(J!Body(s)) = J!LastNewline(s)
      /\ \A m \in 1..J!LastNewline(s) : J!Body(s)[m] = s[m]
  BY Parts
<1>2. J!LastNewline(s) \in 0..Len(s) /\ Len(s) \in Nat /\ J!LastNewline(s) \in Nat
  BY Newline
<1> QED  BY <1>1, <1>2

(* No line is made up: what is in the file was there, or is the line being written. *)
LEMMA LinesMove ==
    ASSUME JournalInv, NEW j \in Journals, Step(j), NEW i \in 1..Len(disk')
    PROVE  \/ \E k \in 1..Len(disk) : disk'[i].line = disk[k].line
           \/ jpc[j] = "write" /\ disk'[i].line = jline[j]
<1>0. disk \in Seq(ChunkType) /\ disk' \in Seq(ChunkType)
  BY FileTyped DEF JournalInv, FileType
<1>1. CASE disk' = disk
  BY <1>1
<1>2. CASE jpc[j] = "write" /\ \E whole, nl \in BOOLEAN : disk' = Append(disk, J!Chunk(jline[j], whole, nl))
  <2>1. PICK whole, nl \in BOOLEAN : disk' = Append(disk, J!Chunk(jline[j], whole, nl))
    BY <1>2
  <2>2. J!Chunk(jline[j], whole, nl) \in ChunkType /\ J!Chunk(jline[j], whole, nl).line = jline[j]
    BY LineTyped DEF J!Chunk
  <2> QED  BY <1>0, <1>2, <2>1, <2>2, Appended
<1>3. CASE J!Complete(disk) /\ disk' = Append(disk, [J!Rest(disk)[1] EXCEPT !.nl = TRUE])
  <2> DEFINE c == [J!Rest(disk)[1] EXCEPT !.nl = TRUE]
  <2>1. c \in ChunkType /\ J!LastNewline(disk) + 1 \in 1..Len(disk) /\ c.line = disk[J!LastNewline(disk) + 1].line
    BY <1>0, <1>3, Second
  <2> HIDE DEF c
  <2>2. Len(disk') = Len(disk) + 1 /\ Len(disk) \in Nat /\ disk'[Len(disk) + 1] = c /\ \A m \in 1..Len(disk) : disk'[m] = disk[m]
    BY <1>0, <1>3, <2>1, Appended DEF c
  <2> QED  BY <2>1, <2>2
<1>4. CASE disk' = J!Body(disk)
  <2>0. /\ Len(J!Body(disk)) = J!LastNewline(disk) /\ \A m \in 1..J!LastNewline(disk) : J!Body(disk)[m] = disk[m]
        /\ J!LastNewline(disk) \in 0..Len(disk) /\ Len(disk) \in Nat
    BY <1>0, BodyFacts
  <2>1. Len(disk') = J!LastNewline(disk) /\ J!LastNewline(disk) <= Len(disk) /\ Len(disk) \in Nat /\ \A m \in 1..J!LastNewline(disk) : disk'[m] = disk[m]
    BY <1>4, <2>0
  <2> QED  BY <2>1
<1>5. CASE disk # <<>> /\ (disk' = Behind \/ \E x \in Cut(disk[Len(disk)]) : disk' = Append(Behind, x))
  <2>1. /\ Behind \in Seq(ChunkType) /\ Len(Behind) = Len(disk) - 1 /\ disk[Len(disk)] \in ChunkType
        /\ Len(disk) \in Nat \ {0} /\ \A m \in 1..Len(Behind) : Behind[m] = disk[m]
    BY <1>0, <1>5, LastOff DEF Behind
  <2>2. CASE disk' = Behind
    BY <2>1, <2>2
  <2>3. ASSUME NEW x \in Cut(disk[Len(disk)]), disk' = Append(Behind, x)
        PROVE  \E k \in 1..Len(disk) : disk'[i].line = disk[k].line
    <3>1. x \in ChunkType /\ x.line = disk[Len(disk)].line
      BY <2>1, <2>3, CutTyped
    <3>2. Len(disk') = Len(Behind) + 1 /\ disk'[Len(Behind) + 1] = x /\ \A m \in 1..Len(Behind) : disk'[m] = Behind[m]
      BY <2>1, <2>3, <3>1, Appended
    <3> QED  BY <2>1, <3>1, <3>2
  <2> QED  BY <1>5, <2>2, <2>3
<1> QED  BY <1>1, <1>2, <1>3, <1>4, <1>5, FileMoves

LEMMA HashesGrow ==
    ASSUME JournalInv, NEW j \in Journals, Step(j)
    PROVE  hashes \in Nat /\ hashes' \in Nat /\ hashes <= hashes'
<1>0. CallType /\ hashes \in Nat
  BY DEF JournalInv, FileType
<1>1. CASE J!SealLine(j)
  BY <1>0, <1>1, SealFacts
<1>2. CASE ~J!SealLine(j)
  <2>1. hashes' = hashes
    <3>1. CASE J!SendCall(j) \/ J!Open(j) \/ J!Close(j)
      BY <1>0, <3>1, SendFacts, OpenFacts, CloseFacts DEF Quiet
    <3>2. CASE J!Resume(j)
      BY <3>2, ResumeFacts DEF Quiet, Reopened
    <3>3. CASE J!Write(j) \/ J!Sync(j) \/ AppendFailed(j) \/ J!Crash(j)
      BY <1>0, <3>3, WriteFacts, SyncFacts, FailedFacts, CrashFacts
    <3> QED  BY <1>2, <3>1, <3>2, <3>3 DEF Step, J!AppendLine, AppendFailed
  <2> QED  BY <1>0, <2>1
<1> QED  BY <1>1, <1>2

LEMMA HashedKept ==
    ASSUME JournalInv, NEW j \in Journals, Step(j)
    PROVE  Hashed'
<1>1. ASSUME NEW i \in 1..Len(disk') PROVE disk'[i].line.prev < disk'[i].line.id /\ disk'[i].line.id <= hashes'
  <2>0. disk' \in Seq(ChunkType) /\ disk'[i] \in ChunkType
    BY FileTyped, ElementOfSeq DEF FileType
  <2>1. disk'[i].line.prev \in Nat /\ disk'[i].line.id \in Nat
    BY <2>0 DEF ChunkType, J!LineType
  <2>2. disk'[i].line.prev < disk'[i].line.id /\ disk'[i].line.id <= hashes
    <3>1. CASE \E k \in 1..Len(disk) : disk'[i].line = disk[k].line
      BY <3>1 DEF JournalInv, Hashed
    <3>2. CASE jpc[j] = "write" /\ disk'[i].line = jline[j]
      BY <3>2 DEF JournalInv, Writes
    <3> QED  BY <3>1, <3>2, LinesMove
  <2> QED  BY <2>1, <2>2, HashesGrow
<1> QED  BY <1>1 DEF Hashed

LEMMA Further == \A x, y, z \in Nat : x <= y /\ y <= z => x <= z
  OBVIOUS

LEMMA HeadHashed ==
    ASSUME NEW s \in Seq(ChunkType), NEW n \in Nat, \A i \in 1..Len(s) : s[i].line.id <= n
    PROVE  J!HeadOf(s) <= n
<1>1. CASE Len(s) = 0
  BY <1>1 DEF J!HeadOf, J!HashOf, J!Start
<1>2. CASE Len(s) # 0
  BY <1>2 DEF J!HeadOf, J!HashOf
<1> QED  BY <1>1, <1>2

LEMMA WritesKept ==
    ASSUME JournalInv, NEW j \in Journals, Step(j)
    PROVE  \A k \in Journals : Writes(k)'
<1>0. /\ CallType /\ Opened /\ hashes \in Nat /\ disk \in Seq(ChunkType) /\ Hashed
      /\ \A k \in Journals : Writes(k) /\ Holder(k) /\ Calling(k)
  BY DEF JournalInv, FileType
<1>1. ASSUME NEW k \in Journals, k # j PROVE Writes(k)'
  <2>1. /\ jpc'[k] = jpc[k] /\ call'[k] = call[k] /\ jevent'[k] = jevent[k] /\ jline'[k] = jline[k]
        /\ prev'[k] = prev[k] /\ jrecords'[k] = jrecords[k]
    BY <1>1, OthersStay
  <2>2. prev[k] \in Nat /\ jline[k].id \in Nat /\ jline[k].prev \in Nat
    BY <1>0 DEF CallType, J!LineType
  <2>5. prev[k] <= hashes' /\ (jline[k].id <= hashes => jline[k].id <= hashes')
    <3>1. prev[k] <= hashes
      BY <1>0 DEF Writes
    <3> QED  BY <2>2, <3>1, HashesGrow, Further
  <2>3. CASE jpc[k] \notin {"sync", "truncate"}
    <3>1. prev[k] <= hashes' /\ (jline[k].id <= hashes => jline[k].id <= hashes')
      BY <2>5
    <3> QED  BY <1>0, <2>1, <2>3, <3>1 DEF Writes
  <2>4. CASE jpc[k] \in {"sync", "truncate"}
    <3>1. lock = k
      BY <1>0, <2>4 DEF Holder
    <3>2. disk' = disk
      BY <1>1, <3>1, FileMoves, JournalParameters
    <3>3. prev[k] <= hashes' /\ (jline[k].id <= hashes => jline[k].id <= hashes')
      BY <2>5
    <3> QED  BY <1>0, <2>1, <2>4, <3>2, <3>3 DEF Writes
  <2> QED  BY <2>3, <2>4
<1>2. Writes(j)'
  <2>1. CASE J!SendCall(j)
    BY <1>0, <2>1, SendFacts DEF Writes
  <2>2. CASE J!Open(j)
    BY <1>0, <2>2, OpenFacts DEF Writes, Quiet
  <2>3. CASE J!Resume(j)
    <3>1. J!HeadOf(disk) <= hashes /\ J!HeadOf(J!Body(disk)) <= hashes
      <4>1. \A i \in 1..Len(disk) : disk[i].line.id <= hashes
        BY <1>0 DEF Hashed
      <4>2. J!Body(disk) \in Seq(ChunkType) /\ \A i \in 1..Len(J!Body(disk)) : J!Body(disk)[i].line.id <= hashes
        BY <1>0, <4>1, BodyFacts
      <4> QED  BY <1>0, <4>1, <4>2, HeadHashed
    <3>2. ASSUME NEW s, NEW n, J!HeadOf(s) <= hashes, Reopened(j, s, n) PROVE Writes(j)'
      BY <1>0, <3>2 DEF Writes, Reopened
    <3> QED  BY <1>0, <2>3, <3>1, <3>2, ResumeFacts DEF Writes, Quiet
  <2>4. CASE J!SealLine(j)
    <3>1. prev[j] \in Nat /\ prev[j] <= hashes /\ jevent[j] = jevent'[j] /\ jrecords'[j] = jrecords[j]
      BY <1>0, <2>4, SealFacts DEF CallType, Writes
    <3>2. call[j] = "close" => jpc[j] = "mark"
      BY <1>0, <2>4, SealFacts DEF Calling
    <3>3. prev'[j] = prev[j] /\ hashes' = hashes + 1 /\ jpc'[j] = "write" /\ call'[j] = call[j]
      BY <1>0, <2>4, SealFacts
    <3>4. /\ jline'[j].id = hashes + 1 /\ jline'[j].prev = prev[j] /\ jline'[j].of = jevent[j]
          /\ jline'[j].count = jrecords[j] /\ (jpc[j] = "mark" => jline'[j].kind = "marker")
      BY <1>0, <2>4, SealFacts
    <3>5. prev'[j] <= hashes' /\ jline'[j].prev < jline'[j].id /\ jline'[j].id <= hashes'
      BY <1>0, <3>1, <3>3, <3>4
    <3> QED  BY <3>1, <3>2, <3>3, <3>4, <3>5 DEF Writes
  <2>5. CASE J!Write(j)
    <3> DEFINE c == J!Chunk(jline[j], TRUE, TRUE)
    <3>1. c \in ChunkType /\ disk' = Append(disk, c)
      BY <1>0, <2>5, LineTyped, WriteFacts
    <3> HIDE DEF c
    <3>3. disk' # <<>> /\ disk'[Len(disk')] = c
      BY <1>0, <3>1, Appended
    <3>2. disk' # <<>> /\ disk'[Len(disk')] = J!Chunk(jline[j], TRUE, TRUE)
      BY <3>3 DEF c
    <3> QED  BY <1>0, <2>5, <3>2, WriteFacts DEF Writes
  <2>6. CASE J!Sync(j)
    <3>1. prev'[j] <= hashes' /\ jpc'[j] \notin {"write", "sync", "truncate"}
      BY <1>0, <2>6, SyncFacts DEF Writes
    <3> QED  BY <3>1 DEF Writes
  <2>7. CASE AppendFailed(j)
    <3>1. prev'[j] <= hashes' /\ jpc'[j] \notin {"write", "sync", "truncate"}
      BY <1>0, <2>7, FailedFacts, AppendFailsFacts DEF Writes
    <3> QED  BY <3>1 DEF Writes
  <2>8. CASE J!Close(j)
    BY <1>0, <2>8, CloseFacts DEF Writes, Quiet
  <2>9. CASE J!Crash(j)
    <3>1. prev'[j] = 0 /\ jpc'[j] = "idle" /\ hashes' = hashes
      BY <1>0, <2>9, CrashFacts
    <3> QED  BY <1>0, <3>1 DEF Writes
  <2> QED  BY <2>1, <2>2, <2>3, <2>4, <2>5, <2>6, <2>7, <2>8, <2>9 DEF Step, J!AppendLine, AppendFailed
<1> QED  BY <1>1, <1>2

(* After crashes alone a restart continues the same chain. *)
LEMMA CalmBefore ==
    ASSUME JournalInv, NEW j \in Journals, Step(j), Calm'
    PROVE  /\ J!Chained(J!Body(disk)) /\ J!MarkersTrue(J!Body(disk)) /\ Tailed
           /\ \A k \in open : Remembers(k)
           /\ ~AppendFailed(j)
<1>1. J!Range(trouble) \subseteq J!Range(trouble') /\ (AppendFailed(j) => "error" \in J!Range(trouble'))
  <2>1. CASE AppendFailed(j)
    <3>1. trouble \in Seq(Troubles) /\ trouble' = Append(trouble, "error") /\ "error" \in Troubles
      BY <2>1, FailedFacts DEF JournalInv, FileType, Troubles
    <3> QED  BY <3>1, Troubled
  <2>2. CASE ~AppendFailed(j)
    BY <2>2, StepTroubles DEF AppendFailed
  <2> QED  BY <2>1, <2>2
<1>2. Calm /\ ~AppendFailed(j)
  BY <1>1 DEF Calm
<1> QED  BY <1>2 DEF JournalInv, Continues

LEMMA ContinuesKept ==
    ASSUME JournalInv, NEW j \in Journals, Step(j), Calm'
    PROVE  /\ J!Chained(J!Body(disk')) /\ J!MarkersTrue(J!Body(disk')) /\ Tailed'
           /\ \A k \in open' : Remembers(k)'
<1>0. /\ CallType /\ Opened /\ hashes \in Nat /\ disk \in Seq(ChunkType) /\ synced \in BOOLEAN
      /\ \A k \in Journals : Writes(k) /\ Holder(k) /\ Calling(k)
  BY DEF JournalInv, FileType
<1>1. /\ J!Chained(J!Body(disk)) /\ J!MarkersTrue(J!Body(disk)) /\ Tailed
      /\ \A k \in open : Remembers(k)
      /\ ~AppendFailed(j)
  BY CalmBefore
<1>2. \A k \in Journals : k # j => /\ jpc'[k] = jpc[k] /\ prev'[k] = prev[k] /\ jrecords'[k] = jrecords[k]
                                   /\ (k \in open' <=> k \in open)
  BY OthersStay
<1>3. open' \subseteq Journals /\ open \subseteq Journals
  BY <1>0, OthersStay DEF Opened
<1>4. J!Rest(disk) = <<>> => J!Body(disk) = disk /\ J!Chained(disk) /\ J!MarkersTrue(disk)
  <2>1. J!Rest(disk) = <<>> => J!LastNewline(disk) = Len(disk)
    BY <1>0, Parts
  <2> QED  BY <1>0, <1>1, <2>1, Whole
(* An instance that is not the one that steps, while the file stays. *)
<1>5. ASSUME disk' = disk, NEW k \in open', k # j PROVE Remembers(k)'
  <2>1. k \in Journals /\ k \in open /\ Remembers(k)
    BY <1>1, <1>2, <1>3, <1>5
  <2>2. jpc'[k] = jpc[k] /\ prev'[k] = prev[k] /\ jrecords'[k] = jrecords[k]
    BY <1>2, <1>5, <2>1
  <2> QED  BY <1>5, <2>1, <2>2 DEF Remembers, Behind
<1>6. ASSUME disk' = disk, synced' = synced
      PROVE  J!Chained(J!Body(disk')) /\ J!MarkersTrue(J!Body(disk')) /\ Tailed'
  BY <1>1, <1>6 DEF Tailed
<1>7. ASSUME lock = j, NEW k \in open' PROVE k = j
  BY <1>0, <1>2, <1>3, <1>7 DEF Holder
<1>8. CASE J!SendCall(j)
  <2>1. j \in open => Remembers(j)
    BY <1>1
  <2>2. j \in open' => Remembers(j)'
    BY <1>0, <1>8, <2>1, SendFacts DEF Remembers
  <2>3. disk' = disk /\ synced' = synced
    BY <1>0, <1>8, SendFacts
  <2> QED  BY <1>5, <1>6, <2>2, <2>3
<1>9. CASE J!Open(j)
  <2>1. j \notin open'
    BY <1>0, <1>9, OpenFacts DEF Holder
  <2>2. disk' = disk /\ synced' = synced
    BY <1>0, <1>9, OpenFacts DEF Quiet
  <2> QED  BY <1>5, <1>6, <2>1, <2>2
<1>10. CASE J!Close(j)
  <2>1. disk' = disk /\ synced' = synced /\ prev' = prev /\ jrecords' = jrecords
    BY <1>0, <1>10, CloseFacts DEF Quiet
  <2>2. j \in open' => j \in open /\ jpc[j] # "hook" /\ jpc'[j] \in {"mark", "close"} /\ (jpc[j] = "close" => j \notin open')
    BY <1>0, <1>1, <1>10, CloseFacts DEF Remembers
  <2>3. j \in open' => jpc[j] = "idle"
    BY <1>0, <1>10, <2>2, CloseFacts
  <2>4. j \in open' => Remembers(j)'
    BY <1>1, <2>1, <2>2, <2>3 DEF Remembers
  <2> QED  BY <1>5, <1>6, <2>1, <2>4
<1>11. CASE J!Resume(j)
  <2>0. jpc[j] \in {"resume", "truncate"} /\ lock = j /\ j \notin open
    BY <1>0, <1>11, ResumeFacts DEF Holder
  <2>1. CASE disk' = disk /\ synced' = synced /\ open' = open
    BY <1>5, <1>6, <2>0, <2>1
  <2>2. CASE Reopened(j, disk, J!RecordsIn(disk)) /\ J!Rest(disk) = <<>> /\ disk' = disk /\ synced' = synced
    <3>1. Remembers(j)'
      BY <2>2 DEF Remembers, Reopened
    <3> QED  BY <1>5, <1>6, <2>2, <3>1
  <2>3. CASE J!Complete(disk)
    <3>1. J!Rest(disk) # <<>> /\ J!Rest(disk)[1].whole
      <4>1. J!Rest(disk) = <<>> => Len(J!Rest(disk)) = 0
        OBVIOUS
      <4> QED  BY <2>3, <4>1 DEF J!Complete
    <3> QED  BY <1>1, <3>1 DEF Tailed
  <2>4. CASE Reopened(j, J!Body(disk), J!RecordsIn(J!Body(disk))) /\ disk' = J!Body(disk) /\ synced' = synced
    <3>1. J!Body(disk') = J!Body(disk) /\ J!Rest(disk') = <<>>
      BY <1>0, <2>4, BodyStays
    <3>2. Remembers(j)'
      BY <2>4, <3>1 DEF Remembers, Reopened
    <3> QED  BY <1>1, <1>7, <2>0, <3>1, <3>2 DEF Tailed
  <2> QED  BY <1>11, <2>1, <2>2, <2>3, <2>4, ResumeFacts DEF Quiet
<1>12. CASE J!SealLine(j)
  <2>1. disk' = disk /\ synced' = synced /\ open' = open /\ prev' = prev /\ jrecords' = jrecords
        /\ jpc[j] \in {"seal", "mark"} /\ jpc'[j] = "write"
    BY <1>0, <1>12, SealFacts
  <2>2. j \in open' => Remembers(j)'
    BY <1>1, <2>1 DEF Remembers
  <2> QED  BY <1>5, <1>6, <2>1, <2>2
<1>13. CASE J!Write(j)
  <2> DEFINE c == J!Chunk(jline[j], TRUE, TRUE)
  <2>0. /\ jpc[j] = "write" /\ jpc'[j] = "sync" /\ prev' = prev /\ jrecords' = jrecords /\ open' = open
        /\ disk' = Append(disk, c) /\ lock = j /\ j \in open
    BY <1>0, <1>13, WriteFacts DEF Holder
  <2>1. c \in ChunkType /\ c.whole /\ c.nl /\ c.line = jline[j]
    BY <1>0, LineTyped DEF J!Chunk
  <2> HIDE DEF c
  <2>2. prev[j] = J!HeadOf(disk) /\ jrecords[j] = J!RecordsIn(disk) /\ J!Rest(disk) = <<>>
    BY <1>1, <2>0 DEF Remembers
  <2>3. jline[j].prev = prev[j] /\ jline[j].count = jrecords[j]
    BY <1>0, <2>0 DEF Writes
  <2>4. J!Body(disk') = disk' /\ J!Rest(disk') = <<>>
    BY <1>0, <2>0, <2>1, Ended
  <2>5. J!Chained(disk')
    BY <1>0, <1>4, <2>0, <2>1, <2>2, <2>3, ChainedMore
  <2>6. J!MarkersTrue(disk')
    BY <1>0, <1>4, <2>0, <2>1, <2>2, <2>3, MarkersMore
  <2>7. Behind' = disk
    <3>1. Len(disk') = Len(disk) + 1 /\ Len(disk) \in Nat /\ SubSeq(disk', 1, Len(disk)) = disk
      BY <1>0, <2>0, <2>1, Appended
    <3>2. Len(disk') - 1 = Len(disk)
      BY <3>1
    <3> QED  BY <3>1, <3>2 DEF Behind
  <2>8. Remembers(j)'
    BY <2>0, <2>2, <2>4, <2>7 DEF Remembers
  <2> QED  BY <1>7, <2>0, <2>4, <2>5, <2>6, <2>8 DEF Tailed
<1>14. CASE J!Sync(j)
  <2> DEFINE c == J!Chunk(jline[j], TRUE, TRUE)
  <2>0. /\ jpc[j] = "sync" /\ disk' = disk /\ synced' = TRUE /\ open' = open /\ lock = j /\ j \in open
        /\ jpc'[j] \in {"idle", "mark", "close"} /\ prev'[j] = jline[j].id
        /\ jrecords'[j] = jrecords[j] + (IF J!Counts(jline[j]) THEN 1 ELSE 0)
    BY <1>0, <1>14, SyncFacts DEF Holder
  <2>1. c \in ChunkType /\ c.line = jline[j]
    BY <1>0, LineTyped DEF J!Chunk
  <2>2. disk # <<>> /\ disk[Len(disk)] = c
    BY <1>0, <2>0 DEF Writes
  <2> HIDE DEF c
  <2>3. jrecords[j] = J!RecordsIn(Behind) /\ J!Rest(disk) = <<>>
    BY <1>1, <2>0 DEF Remembers
  <2>4. /\ Behind \in Seq(ChunkType) /\ disk = Append(Behind, c) /\ Len(disk) \in Nat \ {0}
    BY <1>0, <2>2, LastOff DEF Behind
  <2>5. J!RecordsIn(disk) = J!RecordsIn(Behind) + (IF J!Counts(jline[j]) THEN 1 ELSE 0)
    BY <2>1, <2>4, RecordsCounted
  <2>6. J!HeadOf(disk) = jline[j].id
    BY <2>1, <2>2, <2>4 DEF J!HeadOf, J!HashOf
  <2>7. Remembers(j)'
    BY <2>0, <2>3, <2>5, <2>6 DEF Remembers
  <2> QED  BY <1>1, <1>7, <2>0, <2>7 DEF Tailed
<1>15. CASE J!Crash(j)
  <2>0. open' = open \ {j} /\ synced' = TRUE
    BY <1>0, <1>15, CrashFacts
  <2>1. CASE disk' = disk
    BY <1>1, <1>5, <2>0, <2>1 DEF Tailed
  <2>2. CASE ~synced /\ disk # <<>> /\ lock \in {j, None} /\ disk' # disk
    <3> DEFINE torn == [disk[Len(disk)] EXCEPT !.whole = FALSE, !.nl = FALSE]
    <3>1. disk' = Behind \/ disk' = Append(Behind, torn)
      BY <1>15, <2>2, CrashLeaves
    <3>2. \A k \in open : k = j
      BY <1>0, <1>3, <2>2, JournalParameters DEF Holder
    <3>3. J!Chained(disk) /\ J!MarkersTrue(disk)
      BY <1>1, <1>4, <2>2 DEF Tailed
    <3>4. Behind \in Seq(ChunkType) /\ disk[Len(disk)] \in ChunkType /\ Len(disk) \in Nat \ {0}
      BY <1>0, <2>2, LastOff DEF Behind
    <3>5. J!Chained(Behind) /\ J!MarkersTrue(Behind)
      <4>1. Len(disk) - 1 \in 0..Len(disk)
        BY <3>4
      <4> QED  BY <1>0, <3>3, <4>1, ChainedPrefix, MarkersPrefix DEF Behind
    <3>6. J!Body(Behind) = Behind /\ J!Rest(Behind) = <<>>
      BY <3>4, <3>5, ChainedWhole
    <3>7. torn \in ChunkType /\ ~torn.nl /\ ~torn.whole
      BY <3>4 DEF ChunkType
    <3> HIDE DEF torn
    <3>8. CASE disk' = Behind
      BY <2>0, <3>2, <3>5, <3>6, <3>8 DEF Tailed
    <3>9. CASE disk' = Append(Behind, torn)
      <4>1. J!Body(disk') = Behind /\ J!Rest(disk') = Append(<<>>, torn)
        BY <3>4, <3>6, <3>7, <3>9, TornOff
      <4>2. Len(J!Rest(disk')) = 1 /\ J!Rest(disk')[1] = torn
        BY <4>1
      <4> QED  BY <2>0, <3>2, <3>5, <3>7, <4>1, <4>2 DEF Tailed
    <3> QED  BY <3>1, <3>8, <3>9
  <2> QED  BY <1>15, <2>1, <2>2, CrashLeaves
<1> QED  BY <1>1, <1>8, <1>9, <1>10, <1>11, <1>12, <1>13, <1>14, <1>15 DEF Step, J!AppendLine, AppendFailed

(* What a step does to the file, and to whether its last chunk is synced. *)
LEMMA SyncedMoves ==
    ASSUME JournalInv, NEW j \in Journals, Step(j)
    PROVE  \/ disk' = disk /\ (synced => synced')
           \/ \E c \in ChunkType :
                  /\ disk' = Append(disk, c) /\ (~c.nl => synced' = synced)
                  /\ \/ jpc[j] = "write" /\ c.line = jline[j]
                     \/ \E k \in 1..Len(disk) : ~disk[k].nl /\ c.line = disk[k].line
           \/ disk' = J!Body(disk) /\ synced' = synced
           \/ /\ disk # <<>> /\ ~synced /\ synced'
              /\ disk' = Behind \/ \E x \in Cut(disk[Len(disk)]) : disk' = Append(Behind, x)
<1>0. CallType /\ Opened /\ hashes \in Nat /\ disk \in Seq(ChunkType)
  BY DEF JournalInv, FileType
<1>1. CASE J!SendCall(j) \/ J!Open(j) \/ J!Close(j)
  BY <1>0, <1>1, SendFacts, OpenFacts, CloseFacts DEF Quiet
<1>2. CASE J!Resume(j)
  <2>1. CASE J!Complete(disk) /\ disk' = Append(disk, [J!Rest(disk)[1] EXCEPT !.nl = TRUE])
    <3> DEFINE c == [J!Rest(disk)[1] EXCEPT !.nl = TRUE]
    <3>1. /\ c \in ChunkType /\ c.nl /\ c.line = disk[J!LastNewline(disk) + 1].line
          /\ J!LastNewline(disk) + 1 \in 1..Len(disk) /\ ~disk[J!LastNewline(disk) + 1].nl
      BY <1>0, <2>1, Second
    <3> HIDE DEF c
    <3>2. \E k \in 1..Len(disk) : ~disk[k].nl /\ c.line = disk[k].line
      BY <3>1
    <3>3. disk' = Append(disk, c)
      BY <2>1 DEF c
    <3> QED  BY <3>1, <3>2, <3>3
  <2> QED  BY <1>2, <2>1, ResumeFacts DEF Quiet
<1>3. CASE J!SealLine(j) \/ J!Sync(j)
  BY <1>0, <1>3, SealFacts, SyncFacts
<1>4. CASE J!Write(j)
  <2> DEFINE c == J!Chunk(jline[j], TRUE, TRUE)
  <2>1. c \in ChunkType /\ c.nl /\ c.line = jline[j]
    BY LineTyped DEF J!Chunk
  <2>2. disk' = Append(disk, c) /\ jpc[j] = "write"
    BY <1>0, <1>4, WriteFacts
  <2> HIDE DEF c
  <2> QED  BY <2>1, <2>2
<1>5. CASE AppendFailed(j)
  <2>1. CASE disk' = disk
    BY <1>0, <1>5, <2>1, FailedFacts
  <2>2. ASSUME NEW whole \in BOOLEAN, disk' = Append(disk, J!Chunk(jline[j], whole, FALSE)), jpc[j] = "write"
        PROVE  \E c \in ChunkType : /\ disk' = Append(disk, c) /\ (~c.nl => synced' = synced)
                                    /\ jpc[j] = "write" /\ c.line = jline[j]
    <3> DEFINE c == J!Chunk(jline[j], whole, FALSE)
    <3>1. c \in ChunkType /\ c.line = jline[j]
      BY LineTyped DEF J!Chunk
    <3>2. disk' = Append(disk, c) /\ synced' = synced
      BY <1>0, <1>5, <2>2, FailedFacts
    <3> HIDE DEF c
    <3> QED  BY <2>2, <3>1, <3>2
  <2> QED  BY <1>0, <1>5, <2>1, <2>2, FailedFacts
<1>6. CASE J!Crash(j)
  BY <1>0, <1>6, CrashLeaves, CrashFacts
<1> QED  BY <1>1, <1>2, <1>3, <1>4, <1>5, <1>6 DEF Step, J!AppendLine, AppendFailed

Writing(j, e) == jpc[j] = "write" /\ jline[j].of = e /\ jline[j].kind = "record"

LEMMA NoLineYet ==
    ASSUME JournalInv, NEW j \in Journals, Step(j), NEW e, LinesOf(e) = {}, ~Writing(j, e)
    PROVE  LinesOf(e)' = {}
<1>1. ASSUME NEW i \in 1..Len(disk'), disk'[i].line.of = e, disk'[i].line.kind = "record" PROVE FALSE
  <2>1. \A k \in 1..Len(disk) : ~(disk[k].line.of = e /\ disk[k].line.kind = "record")
    BY DEF LinesOf
  <2> QED  BY <1>1, <2>1, LinesMove DEF Writing
<1> QED  BY <1>1 DEF LinesOf

(* A record's line stays where it is through every step, crashes included. *)
LEMMA OneLine ==
    ASSUME NEW e, NEW i \in 1..Len(disk), LinesOf(e) = {i}
    PROVE  /\ disk[i].line.of = e /\ disk[i].line.kind = "record"
           /\ \A m \in 1..Len(disk) : disk[m].line.of = e /\ disk[m].line.kind = "record" => m = i
  BY DEF LinesOf

LEMMA LastsKept ==
    ASSUME JournalInv, NEW j \in Journals, Step(j), NEW e, Lasts(e), ~Writing(j, e)
    PROVE  Lasts(e)'
<1>0. disk \in Seq(ChunkType) /\ disk' \in Seq(ChunkType) /\ synced \in BOOLEAN /\ synced' \in BOOLEAN
  BY FileTyped DEF JournalInv, FileType
<1>1. PICK i \in 1..Len(disk) : /\ LinesOf(e) = {i} /\ disk[i].whole /\ disk[i].nl
                                /\ synced \/ i < J!LastNewline(disk)
  BY DEF Lasts
<1>2. /\ disk[i].line.of = e /\ disk[i].line.kind = "record"
      /\ \A m \in 1..Len(disk) : disk[m].line.of = e /\ disk[m].line.kind = "record" => m = i
  BY <1>1, OneLine
<1>3. J!LastNewline(disk) \in 0..Len(disk) /\ Len(disk) \in Nat /\ i <= J!LastNewline(disk)
  BY <1>0, <1>1, Newline
<1>4. ASSUME i \in 1..Len(disk'), disk'[i] = disk[i], synced' \/ i < J!LastNewline(disk'),
             \A m \in 1..Len(disk') : disk'[m].line.of = e /\ disk'[m].line.kind = "record" => m = i
      PROVE  Lasts(e)'
  <2>1. LinesOf(e)' = {i}
    BY <1>2, <1>4 DEF LinesOf
  <2> QED  BY <1>1, <1>4, <2>1 DEF Lasts
<1>5. CASE disk' = disk /\ (synced => synced')
  BY <1>1, <1>2, <1>4, <1>5
<1>6. ASSUME NEW c \in ChunkType,
             disk' = Append(disk, c), ~c.nl => synced' = synced,
             \/ jpc[j] = "write" /\ c.line = jline[j]
             \/ \E k \in 1..Len(disk) : ~disk[k].nl /\ c.line = disk[k].line
      PROVE  Lasts(e)'
  <2>1. ~(c.line.of = e /\ c.line.kind = "record")
    BY <1>1, <1>2, <1>6 DEF Writing
  <2>2. /\ Len(disk') = Len(disk) + 1 /\ disk'[Len(disk) + 1] = c
        /\ \A m \in 1..Len(disk) : disk'[m] = disk[m]
    BY <1>0, <1>6, Appended
  <2>3. i \in 1..Len(disk') /\ disk'[i] = disk[i]
    BY <1>3, <2>2
  <2>4. ASSUME NEW m \in 1..Len(disk'), disk'[m].line.of = e, disk'[m].line.kind = "record" PROVE m = i
    <3>1. CASE m = Len(disk) + 1
      BY <2>1, <2>2, <2>4, <3>1
    <3>2. CASE m \in 1..Len(disk)
      BY <1>2, <2>2, <2>4, <3>2
    <3> QED  BY <1>3, <2>2, <3>1, <3>2
  <2>5. synced' \/ i < J!LastNewline(disk')
    <3>1. CASE c.nl
      <4>1. J!LastNewline(disk') = Len(disk) + 1
        BY <1>0, <1>6, <3>1, Ended
      <4> QED  BY <1>3, <4>1
    <3>2. CASE ~c.nl
      <4>1. J!LastNewline(disk') = J!LastNewline(disk)
        BY <1>0, <1>6, <3>2, TornOff
      <4> QED  BY <1>1, <1>6, <3>2, <4>1
    <3> QED  BY <3>1, <3>2
  <2> QED  BY <1>4, <2>3, <2>4, <2>5
<1>7. CASE disk' = J!Body(disk) /\ synced' = synced
  <2>1. /\ Len(disk') = J!LastNewline(disk) /\ \A m \in 1..J!LastNewline(disk) : disk'[m] = disk[m]
        /\ J!LastNewline(disk') = J!LastNewline(disk)
    BY <1>0, <1>7, BodyFacts, BodyStays
  <2>2. i \in 1..Len(disk') /\ disk'[i] = disk[i]
    BY <1>3, <2>1
  <2>3. \A m \in 1..Len(disk') : m \in 1..Len(disk) /\ disk'[m] = disk[m]
    BY <1>3, <2>1
  <2>4. synced' \/ i < J!LastNewline(disk')
    BY <1>1, <1>7, <2>1
  <2> QED  BY <1>2, <1>4, <2>2, <2>3, <2>4
<1>8. CASE /\ disk # <<>> /\ ~synced /\ synced'
           /\ disk' = Behind \/ \E x \in Cut(disk[Len(disk)]) : disk' = Append(Behind, x)
  <2>1. /\ Behind \in Seq(ChunkType) /\ Len(Behind) = Len(disk) - 1 /\ disk[Len(disk)] \in ChunkType
        /\ Len(disk) \in Nat \ {0} /\ \A m \in 1..Len(Behind) : Behind[m] = disk[m]
    BY <1>0, <1>8, LastOff DEF Behind
  <2>2. i < J!LastNewline(disk)
    BY <1>1, <1>8
  <2>3. i \in 1..Len(Behind) /\ Len(disk) # i
    BY <1>3, <2>1, <2>2
  <2>4. CASE disk' = Behind
    <3>1. \A m \in 1..Len(disk') : m \in 1..Len(disk) /\ disk'[m] = disk[m]
      BY <2>1, <2>4
    <3> QED  BY <1>2, <1>4, <1>8, <2>3, <2>4, <3>1
  <2>5. ASSUME NEW x \in Cut(disk[Len(disk)]), disk' = Append(Behind, x) PROVE Lasts(e)'
    <3>1. x \in ChunkType /\ x.line = disk[Len(disk)].line
      BY <2>1, <2>5, CutTyped
    <3>2. /\ Len(disk') = Len(disk) /\ disk'[Len(disk)] = x
          /\ \A m \in 1..Len(Behind) : disk'[m] = disk[m]
      BY <2>1, <2>5, <3>1, Appended
    <3>3. i \in 1..Len(disk') /\ disk'[i] = disk[i]
      BY <2>1, <2>3, <3>2
    <3>4. \A m \in 1..Len(disk') : m \in 1..Len(disk) /\ disk'[m].line = disk[m].line
      BY <2>1, <3>1, <3>2
    <3> QED  BY <1>2, <1>4, <1>8, <3>3, <3>4
  <2> QED  BY <1>8, <2>4, <2>5
<1> QED  BY <1>5, <1>6, <1>7, <1>8, SyncedMoves

(* Where the records go. *)
LEMMA RecordsMove ==
    ASSUME JournalInv, NEW j \in Journals, Step(j)
    PROVE  /\ fresh' \subseteq fresh
           /\ \/ acked' = acked
              \/ J!Sync(j) /\ jpc[j] = "sync" /\ call[j] = "send" /\ acked' = acked \cup {jevent[j]}
<1>0. CallType /\ hashes \in Nat
  BY DEF JournalInv, FileType
<1>1. CASE J!SendCall(j) \/ J!Open(j) \/ J!Close(j)
  BY <1>0, <1>1, SendFacts, OpenFacts, CloseFacts DEF Quiet
<1>2. CASE J!Resume(j)
  BY <1>2, ResumeFacts DEF Quiet, Reopened
<1>3. CASE J!SealLine(j) \/ J!Write(j) \/ AppendFailed(j) \/ J!Crash(j)
  BY <1>0, <1>3, SealFacts, WriteFacts, FailedFacts, CrashFacts
<1>4. CASE J!Sync(j)
  BY <1>0, <1>4, SyncFacts
<1> QED  BY <1>1, <1>2, <1>3, <1>4 DEF Step, J!AppendLine, AppendFailed

(* A record that was written is in the file for good from its sync. *)
LEMMA SyncLasts ==
    ASSUME JournalInv, J!Never("damage"), NEW j \in Journals, J!Sync(j), call[j] = "send", NEW e, e = jevent[j]
    PROVE  Lasts(e)'
<1>0. /\ CallType /\ Opened /\ disk \in Seq(ChunkType) /\ Calling(j) /\ Writes(j) /\ Carries(j) /\ Step(j)
      /\ jline[j] \in J!LineType
  BY DEF JournalInv, FileType, Durable, Step, J!AppendLine, CallType
<1>1. jpc[j] = "sync" /\ disk' = disk /\ synced' = TRUE /\ jevent[j] # None
  BY <1>0, SyncFacts DEF Calling
<1>2. CASE jline[j].kind = "record"
  <2>1. LinesOf(e) = {Len(disk)} /\ disk # <<>> /\ disk[Len(disk)] = J!Chunk(jline[j], TRUE, TRUE)
    BY <1>0, <1>1, <1>2 DEF Carries, Writes
  <2>2. disk[Len(disk)].whole /\ disk[Len(disk)].nl /\ Len(disk) \in 1..Len(disk)
    <3>1. Len(disk) \in Nat \ {0}
      BY <1>0, <2>1, LastOff
    <3> QED  BY <2>1, <3>1 DEF J!Chunk
  <2>3. LinesOf(e)' = {Len(disk)}
    BY <1>1, <2>1 DEF LinesOf
  <2> QED  BY <1>1, <2>2, <2>3 DEF Lasts
<1>3. CASE jline[j].kind = "marker"
  <2>1. Lasts(e)
    BY <1>0, <1>1, <1>3 DEF Carries
  <2>2. ~Writing(j, e)
    BY <1>1 DEF Writing
  <2> QED  BY <1>0, <2>1, <2>2, LastsKept
<1> QED  BY <1>0, <1>2, <1>3 DEF J!LineType

LEMMA DamageKnown ==
    ASSUME JournalInv, NEW j \in Journals, Step(j), J!Never("damage")'
    PROVE  /\ J!Never("damage")
           /\ \A e \in fresh : LinesOf(e) = {}
           /\ \A e \in acked : Lasts(e)
           /\ \A k \in Journals : Carries(k)
<1>1. J!Range(trouble) \subseteq J!Range(trouble')
  BY StepTroubles
<1> QED  BY <1>1 DEF J!Never, JournalInv, Durable

LEMMA CarriesKept ==
    ASSUME JournalInv, NEW j \in Journals, Step(j), J!Never("damage")'
    PROVE  Carries(j)'
<1>0. /\ CallType /\ Opened /\ hashes \in Nat /\ disk \in Seq(ChunkType) /\ Calling(j) /\ Writes(j) /\ Carries(j)
      /\ jline[j] \in J!LineType /\ None \notin Records
      /\ \A e \in fresh : LinesOf(e) = {}
  BY DamageKnown, JournalParameters DEF JournalInv, FileType, CallType
<1>1. CASE jevent'[j] = None
  BY <1>1 DEF Carries
(* The record is the one it was, and no line of it is written. *)
<1>2. ASSUME jevent'[j] = jevent[j], jevent[j] # None, Unwritten(j), jpc[j] # "write", Unwritten(j)', jpc'[j] # "sync"
      PROVE  Carries(j)'
  <2>0. PICK e : e = jevent[j]
    OBVIOUS
  <2>1. LinesOf(e) = {} /\ ~Writing(j, e)
    BY <1>0, <1>2, <2>0 DEF Carries, Writing
  <2>2. LinesOf(e)' = {}
    BY <2>1, NoLineYet
  <2>3. LinesOf(jevent[j])' = {}
    BY <1>2, <2>0, <2>2 DEF LinesOf
  <2>4. ~(jpc'[j] = "mark" \/ (jpc'[j] \in {"write", "sync"} /\ jline'[j].kind = "marker"))
    BY <1>2 DEF Unwritten
  <2> QED  BY <1>2, <2>3, <2>4 DEF Carries
(* Its line is in the file for good. *)
<1>3. ASSUME jevent'[j] = jevent[j], NEW e, e = jevent[j], Lasts(e)',
             jpc'[j] = "mark" \/ (jpc'[j] \in {"write", "sync"} /\ jline'[j].kind = "marker")
      PROVE  Carries(j)'
  <2>1. Lasts(jevent[j])'
    BY <1>3 DEF Lasts, LinesOf
  <2>2. ~Unwritten(j)' /\ ~(jpc'[j] = "sync" /\ jline'[j].kind = "record")
    BY <1>3 DEF Unwritten
  <2> QED  BY <2>1, <2>2 DEF Carries
<1>4. CASE J!SendCall(j)
  <2>1. jevent'[j] = J!NextRecord /\ J!NextRecord \in fresh /\ disk' = disk /\ jpc'[j] \in {"open", "seal"}
    BY <1>0, <1>4, SendFacts
  <2>2. LinesOf(jevent[j])' = {}
    BY <1>0, <2>1 DEF LinesOf
  <2> QED  BY <2>1, <2>2 DEF Carries
<1>5. CASE J!Open(j)
  <2>1. jevent'[j] = None \/ (jevent'[j] = jevent[j] /\ jpc[j] = "open" /\ jpc'[j] = "resume" /\ jevent[j] # None)
    BY <1>0, <1>5, OpenFacts DEF Calling
  <2> QED  BY <1>1, <1>2, <2>1 DEF Unwritten
<1>6. CASE J!Resume(j)
  <2>1. \/ jevent'[j] = None
        \/ /\ jevent'[j] = jevent[j] /\ jpc[j] \in {"resume", "truncate"} /\ jevent[j] # None
           /\ jpc'[j] \in {"truncate", "seal"}
    BY <1>0, <1>6, ResumeFacts DEF Calling, Reopened
  <2> QED  BY <1>1, <1>2, <2>1 DEF Unwritten
<1>7. CASE J!SealLine(j)
  <2>1. /\ jevent'[j] = jevent[j] /\ jpc[j] \in {"seal", "mark"} /\ jpc'[j] = "write"
        /\ jline'[j].kind = IF jpc[j] = "seal" THEN "record" ELSE "marker"
    BY <1>0, <1>7, SealFacts
  <2>2. CASE jpc[j] = "seal" /\ jevent[j] # None
    BY <1>2, <2>1, <2>2 DEF Unwritten
  <2>3. CASE jpc[j] = "mark" /\ jevent[j] # None
    <3>3. PICK e : e = jevent[j]
      OBVIOUS
    <3>1. Lasts(e) /\ ~Writing(j, e)
      BY <1>0, <2>3, <3>3 DEF Carries, Writing
    <3>2. Lasts(e)'
      BY <3>1, LastsKept
    <3>4. jline'[j].kind = "marker"
      BY <2>1, <2>3
    <3> QED  BY <1>3, <2>1, <2>3, <3>2, <3>3, <3>4
  <2> QED  BY <1>1, <2>1, <2>2, <2>3
<1>8. CASE J!Write(j)
  <2> DEFINE c == J!Chunk(jline[j], TRUE, TRUE)
  <2>0. PICK e : e = jevent[j]
    OBVIOUS
  <2>1. /\ jevent'[j] = jevent[j] /\ jpc[j] = "write" /\ jpc'[j] = "sync" /\ jline'[j] = jline[j]
        /\ disk' = Append(disk, c) /\ jline[j].of = e
    BY <1>0, <1>8, <2>0, WriteFacts DEF Writes
  <2>2. c \in ChunkType /\ c.line = jline[j]
    BY LineTyped DEF J!Chunk
  <2> HIDE DEF c
  <2>3. CASE jline[j].kind = "record" /\ e # None
    <3>1. LinesOf(e) = {}
      BY <1>0, <2>0, <2>1, <2>3 DEF Carries, Unwritten
    <3>2. /\ Len(disk') = Len(disk) + 1 /\ Len(disk) \in Nat /\ disk'[Len(disk) + 1] = c
          /\ \A m \in 1..Len(disk) : disk'[m] = disk[m]
      BY <1>0, <2>1, <2>2, Appended
    <3>3. \A m \in 1..Len(disk) : ~(disk[m].line.of = e /\ disk[m].line.kind = "record")
      BY <3>1 DEF LinesOf
    <3>4. LinesOf(e)' = {Len(disk')}
      <4>1. ASSUME NEW m \in 1..Len(disk')
            PROVE  disk'[m].line.of = e /\ disk'[m].line.kind = "record" <=> m = Len(disk')
        <5>1. CASE m = Len(disk) + 1
          BY <2>1, <2>2, <2>3, <3>2, <5>1
        <5>2. CASE m \in 1..Len(disk)
          BY <3>2, <3>3, <5>2
        <5> QED  BY <3>2, <5>1, <5>2
      <4>2. Len(disk') \in 1..Len(disk')
        BY <3>2
      <4> QED  BY <4>1, <4>2 DEF LinesOf
    <3>5. LinesOf(jevent[j])' = {Len(disk')}
      BY <2>0, <2>1, <3>4 DEF LinesOf
    <3> QED  BY <2>1, <2>3, <3>5 DEF Carries, Unwritten
  <2>4. CASE jline[j].kind = "marker" /\ e # None
    <3>1. Lasts(e) /\ ~Writing(j, e)
      BY <1>0, <2>0, <2>1, <2>4 DEF Carries, Writing
    <3>2. Lasts(e)'
      BY <3>1, LastsKept
    <3> QED  BY <1>3, <2>0, <2>1, <2>4, <3>2
  <2>5. CASE e = None
    BY <1>1, <2>0, <2>1, <2>5
  <2> QED  BY <1>0, <2>3, <2>4, <2>5 DEF J!LineType
<1>9. CASE J!Sync(j)
  <2>1. jevent'[j] = None \/ (jevent'[j] = jevent[j] /\ call[j] = "send" /\ jpc'[j] = "mark")
    BY <1>0, <1>9, SyncFacts DEF Calling
  <2>2. CASE jevent'[j] = jevent[j] /\ call[j] = "send" /\ jpc'[j] = "mark"
    <3>0. PICK e : e = jevent[j]
      OBVIOUS
    <3>1. Lasts(e)'
      BY <1>9, <2>2, <3>0, DamageKnown, SyncLasts
    <3> QED  BY <1>3, <2>2, <3>0, <3>1
  <2> QED  BY <1>1, <2>1, <2>2
<1>10. CASE AppendFailed(j)
  <2>1. jevent'[j] = None
    BY <1>0, <1>10, FailedFacts, AppendFailsFacts DEF Calling
  <2> QED  BY <1>1, <2>1
<1>11. CASE J!Close(j)
  <2>1. jevent'[j] = None
    BY <1>0, <1>11, CloseFacts DEF Calling
  <2> QED  BY <1>1, <2>1
<1>12. CASE J!Crash(j)
  BY <1>0, <1>1, <1>12, CrashFacts
<1> QED  BY <1>4, <1>5, <1>6, <1>7, <1>8, <1>9, <1>10, <1>11, <1>12 DEF Step, J!AppendLine, AppendFailed

LEMMA OthersCarry ==
    ASSUME JournalInv, NEW j \in Journals, Step(j), J!Never("damage")', NEW k \in Journals, k # j
    PROVE  Carries(k)'
<1>8. PICK e : e = jevent[k]
  OBVIOUS
<1>0. Carries(k) /\ Holder(k) /\ Calling(k) /\ Writes(j) /\ CallType
  BY DamageKnown DEF JournalInv
<1>1. jpc'[k] = jpc[k] /\ jevent'[k] = jevent[k] /\ jline'[k] = jline[k]
  BY OthersStay
<1>2. e # None => ~Writing(j, e)
  BY <1>0, <1>8 DEF Writing, Writes, Calling
<1>3. /\ e # None /\ Unwritten(k) => LinesOf(e) = {}
      /\ e # None /\ jpc[k] = "sync" /\ jline[k].kind = "record" => LinesOf(e) = {Len(disk)}
      /\ e # None /\ (jpc[k] = "mark" \/ (jpc[k] \in {"write", "sync"} /\ jline[k].kind = "marker")) => Lasts(e)
  BY <1>0, <1>8 DEF Carries
<1>4. jpc[k] = "sync" => disk' = disk
  BY <1>0, FileMoves, JournalParameters DEF Holder
<1>5. e # None /\ Unwritten(k) => LinesOf(e)' = {}
  BY <1>2, <1>3, NoLineYet
<1>6. e # None /\ jpc[k] = "sync" /\ jline[k].kind = "record" => LinesOf(e)' = {Len(disk')}
  BY <1>3, <1>4 DEF LinesOf
<1>7. e # None /\ (jpc[k] = "mark" \/ (jpc[k] \in {"write", "sync"} /\ jline[k].kind = "marker")) => Lasts(e)'
  BY <1>2, <1>3, LastsKept
<1>9. jevent'[k] = e
  BY <1>1, <1>8
<1>10. LinesOf(jevent[k])' = LinesOf(e)' /\ (Lasts(e)' => Lasts(jevent[k])') /\ (Unwritten(k)' => Unwritten(k))
  BY <1>1, <1>9 DEF LinesOf, Lasts, Unwritten
<1> QED  BY <1>1, <1>5, <1>6, <1>7, <1>9, <1>10 DEF Carries

LEMMA DurableKept ==
    ASSUME JournalInv, NEW j \in Journals, Step(j)
    PROVE  Durable'
<1> SUFFICES ASSUME J!Never("damage")'
             PROVE  /\ \A e \in fresh' : LinesOf(e)' = {}
                    /\ \A e \in acked' : Lasts(e)'
                    /\ \A k \in Journals : Carries(k)'
  BY DEF Durable
<1>0. /\ Calling(j) /\ Writes(j)
      /\ \A e \in fresh : LinesOf(e) = {}
      /\ \A e \in acked : Lasts(e)
  BY DamageKnown DEF JournalInv
<1>1. ASSUME NEW e \in fresh' PROVE LinesOf(e)' = {}
  <2>1. e \in fresh
    BY RecordsMove
  <2>2. ~Writing(j, e)
    BY <1>0, <2>1 DEF Calling, Writes, Writing
  <2> QED  BY <1>0, <2>1, <2>2, NoLineYet
<1>2. ASSUME NEW e \in acked' PROVE Lasts(e)'
  <2>1. CASE e \in acked
    <3>1. ~Writing(j, e)
      BY <1>0, <2>1 DEF Calling, Writes, Writing
    <3> QED  BY <1>0, <2>1, <3>1, LastsKept
  <2>2. CASE J!Sync(j) /\ call[j] = "send" /\ e = jevent[j]
    BY <2>2, DamageKnown, SyncLasts
  <2> QED  BY <2>1, <2>2, RecordsMove
<1>3. \A k \in Journals : Carries(k)'
  BY CarriesKept, OthersCarry
<1> QED  BY <1>1, <1>2, <1>3

(* No record is lost between the hands it passes through. *)
LEMMA TracedKept ==
    ASSUME JournalInv, NEW j \in Journals, Step(j)
    PROVE  Traced'
<1> SUFFICES ASSUME J!Range(trouble') \subseteq {"error"}, NEW e \in Records
             PROVE  e \in fresh' \cup acked' \cup jreported' \/ \E k \in Journals : jevent'[k] = e
  BY DEF Traced
<1>0. CallType /\ Opened /\ hashes \in Nat
  BY DEF JournalInv, FileType
<1>1. ~J!Crash(j) /\ J!Range(trouble) \subseteq {"error"}
  <2>1. J!Range(trouble) \subseteq J!Range(trouble')
    BY StepTroubles
  <2>2. ASSUME J!Crash(j) PROVE FALSE
    <3>1. PICK what \in {"crash", "newline"} : trouble' = Append(trouble, what)
      BY <2>2 DEF J!Crash, J!Happens
    <3>2. trouble \in Seq(Troubles) /\ what \in Troubles
      BY DEF JournalInv, FileType, Troubles
    <3>3. what \in J!Range(trouble')
      BY <3>1, <3>2, Troubled
    <3> QED  BY <3>3
  <2> QED  BY <2>1, <2>2
<1>2. e \in fresh \cup acked \cup jreported \/ \E k \in Journals : jevent[k] = e
  BY <1>1 DEF JournalInv, Traced
<1>3. \A k \in Journals : k # j => jevent'[k] = jevent[k]
  BY OthersStay
<1>4. /\ acked \subseteq acked' /\ jreported \subseteq jreported'
      /\ fresh' = fresh \/ (fresh' = fresh \ {J!NextRecord} /\ jevent'[j] = J!NextRecord)
      /\ jevent[j] = None \/ jevent'[j] = jevent[j] \/ jevent[j] \in acked' \cup jreported'
  <2>1. CASE J!SendCall(j)
    BY <1>0, <2>1, SendFacts DEF JournalInv, Calling
  <2>2. CASE J!Open(j)
    BY <1>0, <2>2, OpenFacts DEF Quiet
  <2>3. CASE J!Resume(j)
    BY <1>0, <2>3, ResumeFacts DEF Quiet, Reopened
  <2>4. CASE J!SealLine(j)
    BY <1>0, <2>4, SealFacts
  <2>5. CASE J!Write(j)
    BY <1>0, <2>5, WriteFacts
  <2>6. CASE J!Sync(j)
    BY <1>0, <2>6, SyncFacts
  <2>7. CASE AppendFailed(j)
    BY <1>0, <2>7, FailedFacts, AppendFailsFacts
  <2>8. CASE J!Close(j)
    BY <1>0, <2>8, CloseFacts DEF Quiet
  <2> QED  BY <1>1, <2>1, <2>2, <2>3, <2>4, <2>5, <2>6, <2>7, <2>8 DEF Step, J!AppendLine, AppendFailed
<1>5. e # None
  BY JournalParameters
<1> QED  BY <1>2, <1>3, <1>4, <1>5

LEMMA WithoutFacts ==
    ASSUME NEW s \in Seq(ChunkType), NEW i \in 1..Len(s)
    PROVE  /\ J!Without(s, i) \in Seq(ChunkType) /\ Len(J!Without(s, i)) = Len(s) - 1 /\ Len(s) \in Nat
           /\ \A m \in 1..Len(s) - 1 : J!Without(s, i)[m] = IF m < i THEN s[m] ELSE s[m + 1]
<1> DEFINE a == SubSeq(s, 1, i - 1)   b == SubSeq(s, i + 1, Len(s))
<1>1. Len(s) \in Nat /\ i \in Nat /\ i - 1 \in Nat
  OBVIOUS
<1>2. a \in Seq(ChunkType) /\ Len(a) = i - 1 /\ \A m \in 1..i - 1 : a[m] = s[m]
  <2>1. i - 1 \in 0..Len(s)
    BY <1>1
  <2> QED  BY <2>1, Prefixed
<1>3. b \in Seq(ChunkType) /\ Len(b) = Len(s) - i /\ \A m \in 1..Len(s) - i : b[m] = s[i + m]
  BY <1>1
<1> HIDE DEF a, b
<1>4. /\ a \o b \in Seq(ChunkType) /\ Len(a \o b) = Len(a) + Len(b)
      /\ \A m \in 1..Len(a) + Len(b) : (a \o b)[m] = IF m <= Len(a) THEN a[m] ELSE b[m - Len(a)]
  BY <1>2, <1>3, ConcatProperties
<1>5. Len(a \o b) = Len(s) - 1
  BY <1>1, <1>2, <1>3, <1>4
<1>6. ASSUME NEW m \in 1..Len(s) - 1 PROVE (a \o b)[m] = IF m < i THEN s[m] ELSE s[m + 1]
  <2>1. CASE m < i
    BY <1>1, <1>2, <1>3, <1>4, <2>1
  <2>2. CASE ~(m < i)
    <3>1. (a \o b)[m] = b[m - (i - 1)] /\ m - (i - 1) \in 1..Len(s) - i
      BY <1>1, <1>2, <1>3, <1>4, <2>2
    <3>2. i + (m - (i - 1)) = m + 1
      BY <1>1
    <3> QED  BY <1>3, <2>2, <3>1, <3>2
  <2> QED  BY <2>1, <2>2
<1>7. J!Without(s, i) = a \o b
  BY DEF J!Without, a, b
<1> QED  BY <1>1, <1>4, <1>5, <1>6, <1>7

LEMMA SwappedFacts ==
    ASSUME NEW s \in Seq(ChunkType), NEW i \in 1..Len(s) - 1
    PROVE  /\ J!Swapped(s, i) \in Seq(ChunkType) /\ Len(J!Swapped(s, i)) = Len(s) /\ Len(s) \in Nat
           /\ i \in 1..Len(s) /\ i + 1 \in 1..Len(s)
           /\ \A m \in 1..Len(s) : J!Swapped(s, i)[m] = IF m = i THEN s[i + 1] ELSE IF m = i + 1 THEN s[i] ELSE s[m]
<1>1. Len(s) \in Nat /\ i \in 1..Len(s) /\ i + 1 \in 1..Len(s) /\ i # i + 1
  OBVIOUS
<1>2. s[i] \in ChunkType /\ s[i + 1] \in ChunkType
  BY <1>1, ElementOfSeq
<1>3. [s EXCEPT ![i] = s[i + 1], ![i + 1] = s[i]] \in Seq(ChunkType)
      /\ Len([s EXCEPT ![i] = s[i + 1], ![i + 1] = s[i]]) = Len(s)
  BY <1>1, <1>2
<1>4. \A m \in 1..Len(s) : [s EXCEPT ![i] = s[i + 1], ![i + 1] = s[i]][m]
                           = IF m = i THEN s[i + 1] ELSE IF m = i + 1 THEN s[i] ELSE s[m]
  BY <1>1, <1>2
<1> QED  BY <1>1, <1>3, <1>4 DEF J!Swapped

(* Somebody changes the closed file: its lines stay lines of it. *)
Edited(s, t) ==
    \/ \E i \in 1..Len(s) : t = [s EXCEPT ![i].whole = FALSE]
    \/ \E i \in 1..Len(s) : t = J!Without(s, i)
    \/ \E i \in 1..Len(s) - 1 : t = J!Swapped(s, i)
    \/ s # <<>> /\ t = Append(s, s[Len(s)])
LEMMA Damaged ==
    ASSUME NEW s \in Seq(ChunkType), NEW t, Edited(s, t)
    PROVE  t \in Seq(ChunkType) /\ \A m \in 1..Len(t) : \E k \in 1..Len(s) : t[m].line = s[k].line
<1>0. Len(s) \in Nat /\ \A k \in 1..Len(s) : s[k] \in ChunkType
  BY ElementOfSeq
<1>1. ASSUME NEW i \in 1..Len(s), t = [s EXCEPT ![i].whole = FALSE]
      PROVE  t \in Seq(ChunkType) /\ \A m \in 1..Len(t) : \E k \in 1..Len(s) : t[m].line = s[k].line
  <2> DEFINE c == [s[i] EXCEPT !.whole = FALSE]
  <2>1. c \in ChunkType /\ c.line = s[i].line
    BY <1>0 DEF ChunkType
  <2>2. t = [s EXCEPT ![i] = c]
    BY <1>1
  <2> HIDE DEF c
  <2>3. t \in Seq(ChunkType) /\ Len(t) = Len(s) /\ \A m \in 1..Len(s) : t[m] = IF m = i THEN c ELSE s[m]
    BY <1>0, <2>1, <2>2
  <2> QED  BY <2>1, <2>3
<1>2. ASSUME NEW i \in 1..Len(s), t = J!Without(s, i)
      PROVE  t \in Seq(ChunkType) /\ \A m \in 1..Len(t) : \E k \in 1..Len(s) : t[m].line = s[k].line
  <2>1. /\ t \in Seq(ChunkType) /\ Len(t) = Len(s) - 1
        /\ \A m \in 1..Len(t) : t[m] = IF m < i THEN s[m] ELSE s[m + 1]
    BY <1>0, <1>2, WithoutFacts
  <2>2. \A m \in 1..Len(t) : m \in 1..Len(s) /\ m + 1 \in 1..Len(s)
    BY <1>0, <2>1
  <2> QED  BY <2>1, <2>2
<1>3. ASSUME NEW i \in 1..Len(s) - 1, t = J!Swapped(s, i)
      PROVE  t \in Seq(ChunkType) /\ \A m \in 1..Len(t) : \E k \in 1..Len(s) : t[m].line = s[k].line
  <2>1. /\ t \in Seq(ChunkType) /\ Len(t) = Len(s) /\ i \in 1..Len(s) /\ i + 1 \in 1..Len(s)
        /\ \A m \in 1..Len(s) : t[m] = IF m = i THEN s[i + 1] ELSE IF m = i + 1 THEN s[i] ELSE s[m]
    BY <1>0, <1>3, SwappedFacts
  <2> QED  BY <2>1
<1>4. ASSUME s # <<>>, t = Append(s, s[Len(s)])
      PROVE  t \in Seq(ChunkType) /\ \A m \in 1..Len(t) : \E k \in 1..Len(s) : t[m].line = s[k].line
  <2>1. s[Len(s)] \in ChunkType /\ Len(s) \in 1..Len(s)
    BY <1>0, <1>4, LastOff
  <2>2. /\ t \in Seq(ChunkType) /\ Len(t) = Len(s) + 1 /\ t[Len(s) + 1] = s[Len(s)]
        /\ \A m \in 1..Len(s) : t[m] = s[m]
    BY <1>4, <2>1, Appended
  <2> QED  BY <1>0, <2>1, <2>2
<1> QED  BY <1>1, <1>2, <1>3, <1>4 DEF Edited

LEMMA DamageKept ==
    ASSUME JournalInv, J!Damage
    PROVE  JournalInv'
<1>0. /\ FileType /\ CallType /\ Opened /\ Sorted /\ Hashed /\ disk \in Seq(ChunkType)
      /\ \A k \in Journals : Holder(k) /\ Calling(k) /\ Writes(k)
  BY DEF JournalInv, FileType
<1>1. /\ lock = None /\ trouble' = Append(trouble, "damage")
      /\ synced' = synced /\ lock' = lock /\ hashes' = hashes /\ fresh' = fresh
      /\ acked' = acked /\ jreported' = jreported
      /\ open' = open /\ jpc' = jpc /\ call' = call /\ jevent' = jevent /\ jline' = jline /\ prev' = prev
      /\ jrecords' = jrecords /\ hook' = hook
  BY DEF J!Damage, J!Happens, J!instance
<1>2. disk' \in Seq(ChunkType) /\ \A m \in 1..Len(disk') : \E k \in 1..Len(disk) : disk'[m].line = disk[k].line
  <2>1. Edited(disk, disk')
    BY DEF J!Damage, Edited
  <2> QED  BY <1>0, <2>1, Damaged
<1>3. trouble' \in Seq(Troubles) /\ "damage" \in J!Range(trouble')
  <2>1. trouble \in Seq(Troubles) /\ "damage" \in Troubles
    BY <1>0 DEF FileType, Troubles
  <2> QED  BY <1>1, <2>1, Troubled
<1>4. FileType' /\ CallType' /\ Opened' /\ Sorted'
  BY <1>0, <1>1, <1>2, <1>3 DEF FileType, CallType, Opened, Sorted
<1>5. Hashed'
  BY <1>0, <1>1, <1>2 DEF Hashed
<1>6. Continues' /\ Durable' /\ Traced'
  BY <1>3 DEF Continues, Calm, Durable, J!Never, Traced
<1>7. ASSUME NEW k \in Journals PROVE Holder(k)' /\ Calling(k)' /\ Writes(k)'
  <2>1. jpc[k] \notin {"write", "sync", "truncate"}
    BY <1>0, <1>1, JournalParameters DEF Holder
  <2>2. Holder(k)' /\ Calling(k)'
    BY <1>0, <1>1 DEF Holder, Calling
  <2>3. prev[k] <= hashes
    BY <1>0 DEF Writes
  <2>4. Writes(k)'
    BY <1>1, <2>1, <2>3 DEF Writes
  <2> QED  BY <2>2, <2>4
<1> QED  BY <1>4, <1>5, <1>6, <1>7 DEF JournalInv

LEMMA StepKept ==
    ASSUME JournalInv, NEW j \in Journals, Step(j)
    PROVE  JournalInv'
<1>1. Continues'
  BY ContinuesKept DEF Continues
<1> QED  BY <1>1, FileTyped, OthersStay, CallingKept, HashedKept, DurableKept, TracedKept, HolderKept, WritesKept
            DEF JournalInv

(* An open that fails: the second writing of the last line may leave less than the line, *)
(* and nothing of it comes before a newline.                                             *)
LEMMA ShortCopy ==
    ASSUME NEW s \in Seq(ChunkType), J!Complete(s), NEW t \in J!RewrittenShort(s)
    PROVE  /\ t \in Seq(ChunkType) /\ J!LastNewline(t) = J!LastNewline(s) /\ Len(s) \in Nat
           /\ Len(t) = Len(s) + 1 /\ \A i \in 1..Len(s) : t[i] = s[i]
           /\ J!LastNewline(s) + 1 \in 1..Len(s) /\ ~s[J!LastNewline(s) + 1].nl
           /\ t[Len(s) + 1].line = s[J!LastNewline(s) + 1].line
<1>1. PICK w \in BOOLEAN : t = Append(s, [J!Rest(s)[1] EXCEPT !.whole = w])
  BY DEF J!RewrittenShort
<1> DEFINE c == [J!Rest(s)[1] EXCEPT !.whole = w]
<1>2. J!Rest(s)[1] = s[J!LastNewline(s) + 1] /\ J!LastNewline(s) + 1 \in 1..Len(s) /\ ~s[J!LastNewline(s) + 1].nl
  BY Second
<1>3. s[J!LastNewline(s) + 1] \in ChunkType
  BY <1>2, ElementOfSeq
<1>4. c \in ChunkType /\ ~c.nl /\ c.line = s[J!LastNewline(s) + 1].line
  BY <1>2, <1>3 DEF ChunkType
<1> HIDE DEF c
<1>5. J!LastNewline(t) = J!LastNewline(s)
  BY <1>1, <1>4, TornOff DEF c
<1> QED  BY <1>1, <1>2, <1>4, <1>5, Appended DEF c

LEMMA OpenFailsFacts ==
    ASSUME JournalInv, NEW j \in Journals, J!OpenFails(j)
    PROVE  /\ jpc[j] \in {"open", "resume", "truncate"} /\ j \notin open
           /\ jreported' = jreported \cup {jevent[j]} /\ jevent[j] \in Records
           /\ jevent' = [jevent EXCEPT ![j] = None] /\ jpc' = [jpc EXCEPT ![j] = "idle"]
           /\ lock' = (IF lock = j THEN None ELSE lock)
           /\ synced' = synced /\ open' = open /\ call' = call /\ jline' = jline /\ prev' = prev /\ jrecords' = jrecords
           /\ hook' = hook /\ hashes' = hashes /\ fresh' = fresh /\ acked' = acked
           /\ trouble' \in Seq(Troubles) /\ J!Range(trouble') = J!Range(trouble) \cup {"error"}
           /\ \/ disk' = disk
              \/ lock = j /\ jpc[j] = "resume" /\ J!Complete(disk) /\ disk' \in J!RewrittenShort(disk)
<1>0. CallType /\ Holder(j) /\ Calling(j) /\ trouble \in Seq(Troubles) /\ "error" \in Troubles
  BY DEF JournalInv, FileType, Troubles
<1>1. /\ jpc[j] \in {"open", "resume", "truncate"} /\ J!Fail(j) /\ trouble' = Append(trouble, "error")
      /\ lock' = (IF lock = j THEN None ELSE lock)
      /\ synced' = synced /\ open' = open /\ call' = call /\ jline' = jline /\ prev' = prev /\ jrecords' = jrecords
      /\ hook' = hook /\ hashes' = hashes /\ fresh' = fresh /\ acked' = acked
      /\ \/ disk' = disk
         \/ jpc[j] = "resume" /\ J!Complete(disk) /\ disk' \in J!RewrittenShort(disk)
  BY DEF J!OpenFails, J!Happens
<1>2. j \notin open /\ (jpc[j] = "resume" => lock = j)
  BY <1>0, <1>1 DEF Holder
<1>3. jevent[j] \in Records
  <2>1. call[j] = "send" /\ jpc[j] # "idle"
    BY <1>0, <1>1 DEF Calling
  <2> QED  BY <1>0, <2>1 DEF Calling, CallType
<1>4. trouble' \in Seq(Troubles) /\ J!Range(trouble') = J!Range(trouble) \cup {"error"}
  BY <1>0, <1>1, Troubled
<1> QED  BY <1>0, <1>1, <1>2, <1>3, <1>4, FailFacts

LEMMA OpenFailsKept ==
    ASSUME JournalInv, NEW j \in Journals, J!OpenFails(j)
    PROVE  JournalInv'
<1>0. /\ FileType /\ CallType /\ Opened /\ Sorted /\ Hashed /\ Durable /\ Traced /\ disk \in Seq(ChunkType)
      /\ None \notin Journals /\ None \notin Records
      /\ \A k \in Journals : Holder(k) /\ Calling(k) /\ Writes(k)
  BY JournalParameters DEF JournalInv, FileType
<1>1. /\ jpc[j] \in {"open", "resume", "truncate"} /\ j \notin open
      /\ jreported' = jreported \cup {jevent[j]} /\ jevent[j] \in Records
      /\ jevent' = [jevent EXCEPT ![j] = None] /\ jpc' = [jpc EXCEPT ![j] = "idle"]
      /\ lock' = (IF lock = j THEN None ELSE lock)
      /\ synced' = synced /\ open' = open /\ call' = call /\ jline' = jline /\ prev' = prev /\ jrecords' = jrecords
      /\ hook' = hook /\ hashes' = hashes /\ fresh' = fresh /\ acked' = acked
      /\ trouble' \in Seq(Troubles) /\ J!Range(trouble') = J!Range(trouble) \cup {"error"}
  BY OpenFailsFacts
<1>2. jpc'[j] = "idle" /\ jevent'[j] = None /\ \A k \in Journals : k # j => jpc'[k] = jpc[k] /\ jevent'[k] = jevent[k]
  BY <1>0, <1>1 DEF CallType
<1>3. \/ disk' = disk
      \/ lock = j /\ J!Complete(disk) /\ disk' \in J!RewrittenShort(disk)
  BY OpenFailsFacts
<1>4. FileType' /\ CallType' /\ Opened' /\ Sorted'
  <2>1. disk' \in Seq(ChunkType)
    BY <1>0, <1>3, ShortCopy
  <2>2. FileType'
    BY <1>0, <1>1, <2>1 DEF FileType
  <2>3. jpc' \in [Journals -> Calls] /\ jevent' \in [Journals -> Records \cup {None}] /\ jreported' \subseteq Records
    BY <1>0, <1>1 DEF CallType, Calls
  <2>4. jevent[j] \notin fresh \cup acked
    BY <1>0 DEF Calling
  <2> QED  BY <1>0, <1>1, <2>2, <2>3, <2>4 DEF CallType, Opened, Sorted
<1>5. Hashed'
  <2>1. CASE disk' \in J!RewrittenShort(disk) /\ J!Complete(disk)
    <3>1. /\ Len(disk') = Len(disk) + 1 /\ Len(disk) \in Nat /\ \A i \in 1..Len(disk) : disk'[i] = disk[i]
          /\ J!LastNewline(disk) + 1 \in 1..Len(disk) /\ disk'[Len(disk) + 1].line = disk[J!LastNewline(disk) + 1].line
      BY <1>0, <2>1, ShortCopy
    <3>2. \A i \in 1..Len(disk') : \E k \in 1..Len(disk) : disk'[i].line = disk[k].line
      BY <3>1
    <3> QED  BY <1>0, <1>1, <3>2 DEF Hashed
  <2> QED  BY <1>0, <1>1, <1>3, <2>1 DEF Hashed
<1>6. \A k \in Journals : Holder(k)' /\ Calling(k)' /\ Writes(k)'
  <2> SUFFICES ASSUME NEW k \in Journals PROVE Holder(k)' /\ Calling(k)' /\ Writes(k)'
    OBVIOUS
  <2>1. Holder(k)'
    BY <1>0, <1>1, <1>2 DEF Holder
  <2>2. Calling(k)'
    <3>1. CASE k = j
      BY <1>0, <1>1, <1>2, <3>1 DEF Calling, CallType
    <3>2. CASE k # j
      BY <1>0, <1>1, <1>2, <3>2 DEF Calling
    <3> QED  BY <3>1, <3>2
  <2>3. Writes(k)'
    <3>1. jpc'[k] \in {"write", "sync", "truncate"} => lock = k /\ k # j /\ disk' = disk
      BY <1>0, <1>1, <1>2, <1>3 DEF Holder
    <3> QED  BY <1>0, <1>1, <1>2, <3>1 DEF Writes
  <2> QED  BY <2>1, <2>2, <2>3
<1>7. Continues' /\ Traced'
  <2>0. "error" \in J!Range(trouble')
    BY <1>1
  <2>1. ~Calm'
    BY <2>0 DEF Calm
  <2>2. ASSUME J!Range(trouble') \subseteq {"error"}, NEW e \in Records
        PROVE  e \in fresh' \cup acked' \cup jreported' \/ \E k \in Journals : jevent'[k] = e
    <3>1. e \in fresh \cup acked \cup jreported \/ \E k \in Journals : jevent[k] = e
      BY <1>0, <1>1, <2>2 DEF Traced
    <3>2. CASE e \in fresh \cup acked \cup jreported
      BY <1>1, <3>2
    <3>3. ASSUME NEW k \in Journals, jevent[k] = e
          PROVE  e \in jreported' \/ \E x \in Journals : jevent'[x] = e
      BY <1>1, <1>2, <3>3
    <3> QED  BY <3>1, <3>2, <3>3
  <2> QED  BY <2>1, <2>2 DEF Continues, Traced
(* The copy is of a line that was not terminated: of no record that was written for good. *)
<1>8. Durable'
  <2> SUFFICES ASSUME J!Never("damage")'
               PROVE  /\ \A e \in fresh : LinesOf(e)' = {}
                      /\ \A e \in acked : Lasts(e)'
                      /\ \A k \in Journals : Carries(k)'
    BY <1>1 DEF Durable
  <2>1. /\ \A e \in fresh : LinesOf(e) = {}
        /\ \A e \in acked : Lasts(e)
        /\ \A k \in Journals : Carries(k)
    BY <1>0, <1>1 DEF Durable, J!Never
  <2>2. \A e : LinesOf(e) = {} => LinesOf(e)' = {}
    <3>1. CASE disk' = disk
      BY <3>1 DEF LinesOf
    <3>2. CASE J!Complete(disk) /\ disk' \in J!RewrittenShort(disk)
      <4>1. /\ Len(disk') = Len(disk) + 1 /\ Len(disk) \in Nat /\ \A i \in 1..Len(disk) : disk'[i] = disk[i]
            /\ J!LastNewline(disk) + 1 \in 1..Len(disk) /\ disk'[Len(disk) + 1].line = disk[J!LastNewline(disk) + 1].line
        BY <1>0, <3>2, ShortCopy
      <4> QED  BY <4>1 DEF LinesOf
    <3> QED  BY <1>3, <3>1, <3>2
  <2>3. \A e : Lasts(e) => Lasts(e)'
    <3>1. CASE disk' = disk
      BY <1>1, <3>1 DEF Lasts, LinesOf
    <3>2. CASE J!Complete(disk) /\ disk' \in J!RewrittenShort(disk)
      <4>1. /\ Len(disk') = Len(disk) + 1 /\ Len(disk) \in Nat /\ \A i \in 1..Len(disk) : disk'[i] = disk[i]
            /\ J!LastNewline(disk) + 1 \in 1..Len(disk) /\ disk'[Len(disk) + 1].line = disk[J!LastNewline(disk) + 1].line
            /\ ~disk[J!LastNewline(disk) + 1].nl /\ J!LastNewline(disk') = J!LastNewline(disk)
        BY <1>0, <3>2, ShortCopy
      <4> SUFFICES ASSUME NEW e, Lasts(e) PROVE Lasts(e)'
        OBVIOUS
      <4>2. PICK i \in 1..Len(disk) : /\ LinesOf(e) = {i} /\ disk[i].whole /\ disk[i].nl
                                      /\ synced \/ i < J!LastNewline(disk)
        BY DEF Lasts
      <4>3. J!LastNewline(disk) + 1 \notin LinesOf(e)
        BY <4>1, <4>2
      <4>4. LinesOf(e)' = {i}
        BY <4>1, <4>2, <4>3 DEF LinesOf
      <4> QED  BY <1>1, <4>1, <4>2, <4>4 DEF Lasts
    <3> QED  BY <1>3, <3>1, <3>2
  <2>4. ASSUME NEW k \in Journals PROVE Carries(k)'
    <3>1. CASE k = j
      BY <1>2, <3>1 DEF Carries
    <3>2. CASE k # j /\ disk' = disk
      BY <1>1, <1>2, <2>1, <2>2, <2>3, <3>2 DEF Carries, Unwritten, LinesOf
    <3>3. CASE k # j /\ lock = j
      <4>1. jpc[k] \in {"idle", "open"}
        BY <3>3, Holding
      <4> QED  BY <1>1, <1>2, <2>1, <2>2, <3>3, <4>1 DEF Carries, Unwritten
    <3> QED  BY <1>3, <3>1, <3>2, <3>3
  <2> QED  BY <1>1, <2>1, <2>2, <2>3, <2>4
<1> QED  BY <1>4, <1>5, <1>6, <1>7, <1>8 DEF JournalInv

LEMMA JournalStarts == J!Init => JournalInv
<1> SUFFICES ASSUME J!Init PROVE JournalInv
  OBVIOUS
<1>0. /\ disk = <<>> /\ jpartial = {} /\ lock = None /\ open = {}
      /\ jpc = [j \in Journals |-> "idle"] /\ call = [j \in Journals |-> "send"]
      /\ jevent = [j \in Journals |-> None] /\ jline = [j \in Journals |-> J!NoLine]
      /\ prev = [j \in Journals |-> 0] /\ jrecords = [j \in Journals |-> 0]
      /\ hook = {} /\ hashes = 0 /\ fresh = Records /\ acked = {} /\ jreported = {}
      /\ synced = TRUE /\ trouble = <<>>
  BY DEF J!Init, J!Start
<1>1. J!NoLine \in J!LineType /\ None \notin Journals /\ None \notin Records
  BY JournalParameters DEF J!NoLine, J!LineType, J!Start
<1>2. FileType
  BY <1>0 DEF FileType
<1>3. CallType
  BY <1>0, <1>1 DEF CallType, Calls
<1>4. Opened /\ Sorted /\ Hashed
  BY <1>0 DEF Opened, Sorted, Hashed
<1>5. Continues
  <2>1. disk \in Seq(ChunkType) /\ Len(disk) = 0
    BY <1>0
  <2>2. J!Chained(disk) /\ J!MarkersTrue(disk)
    BY <2>1 DEF J!Chained, J!MarkersTrue
  <2>3. J!Body(disk) = disk /\ J!Rest(disk) = <<>>
    BY <2>1, <2>2, ChainedWhole
  <2> QED  BY <1>0, <2>2, <2>3 DEF Continues, Tailed
<1>6. Durable
  BY <1>0 DEF Durable, LinesOf, Carries
<1>7. Traced
  BY <1>0 DEF Traced
<1>8. \A j \in Journals : Holder(j) /\ Calling(j) /\ Writes(j)
  <2> SUFFICES ASSUME NEW j \in Journals PROVE Holder(j) /\ Calling(j) /\ Writes(j)
    OBVIOUS
  <2>1. /\ jpc[j] = "idle" /\ jevent[j] = None /\ prev[j] = 0 /\ hashes = 0
        /\ open = {} /\ hook = {} /\ lock = None /\ fresh \cup acked \cup jreported = Records
        /\ \A k \in Journals : jevent[k] = None
    BY <1>0
  <2>2. Holder(j)
    BY <1>1, <2>1 DEF Holder
  <2>3. Calling(j)
    BY <1>1, <2>1 DEF Calling
  <2>4. Writes(j)
    BY <2>1 DEF Writes
  <2> QED  BY <2>2, <2>3, <2>4
<1> QED  BY <1>2, <1>3, <1>4, <1>5, <1>6, <1>7, <1>8 DEF JournalInv

LEMMA JournalStutters == JournalInv /\ UNCHANGED J!vars => JournalInv'
<1> SUFFICES ASSUME JournalInv, UNCHANGED J!vars PROVE JournalInv'
  OBVIOUS
<1>1. /\ disk' = disk /\ synced' = synced /\ lock' = lock /\ hashes' = hashes /\ trouble' = trouble
      /\ open' = open /\ jpc' = jpc /\ call' = call /\ jevent' = jevent /\ jline' = jline /\ prev' = prev
      /\ jrecords' = jrecords /\ hook' = hook
      /\ fresh' = fresh /\ acked' = acked /\ jreported' = jreported
  BY DEF J!vars, J!file, J!instance, J!ghosts
<1>2. FileType' /\ CallType' /\ Opened' /\ Sorted' /\ Hashed'
  BY <1>1 DEF JournalInv, FileType, CallType, Opened, Sorted, Hashed
<1>3. \A j \in Journals : Holder(j)' /\ Calling(j)' /\ Writes(j)'
  BY <1>1 DEF JournalInv, Holder, Calling, Writes
<1>4. Continues'
  <2>1. Continues
    BY DEF JournalInv
  <2>2. \A j \in open : Remembers(j) => Remembers(j)'
    BY <1>1 DEF Remembers, Behind
  <2> QED  BY <1>1, <2>1, <2>2 DEF Continues, Calm, Tailed
<1>5. Durable'
  <2>1. Durable
    BY DEF JournalInv
  <2>2. \A e : LinesOf(e)' = LinesOf(e)
    BY <1>1 DEF LinesOf
  <2>3. \A e : Lasts(e) => Lasts(e)'
    BY <1>1, <2>2 DEF Lasts
  <2>4. \A j \in Journals : Carries(j) => Carries(j)'
    BY <1>1 DEF Carries, Unwritten, Lasts, LinesOf
  <2> QED  BY <1>1, <2>1, <2>2, <2>3, <2>4 DEF Durable, J!Never
<1>6. Traced'
  BY <1>1 DEF JournalInv, Traced
<1> QED  BY <1>2, <1>3, <1>4, <1>5, <1>6 DEF JournalInv

LEMMA JournalSteps == JournalInv /\ [J!Next]_J!vars => JournalInv'
<1>1. J!Next => J!Damage \/ \E j \in Journals : Step(j) \/ J!OpenFails(j)
  BY DEF J!Next, Step
<1> QED  BY <1>1, StepKept, OpenFailsKept, DamageKept, JournalStutters

(* What the runs check, from the invariant. *)

LEMMA HoldsOne ==
    ASSUME NEW e, Lasts(e)
    PROVE  J!Cardinality(J!Holds(e)) = 1 /\ J!Holds(e) # {}
<1>1. PICK i \in 1..Len(disk) : LinesOf(e) = {i} /\ disk[i].whole
  BY DEF Lasts
<1>2. J!Holds(e) = {i}
  BY <1>1 DEF J!Holds, LinesOf
<1>3. Cardinality({i}) = 1
  BY FS_Singleton
<1> QED  BY <1>2, <1>3, SameCardinality

LEMMA JournalTells ==
    ASSUME JournalInv
    PROVE  J!TypeOK /\ J!AgreesWithDisk /\ J!ChainVerifies /\ J!AckedDurable /\ J!NoSilentHole
<1>0. /\ FileType /\ CallType /\ Opened /\ Sorted /\ Continues /\ Durable /\ Traced
      /\ \A j \in Journals : Holder(j) /\ Calling(j) /\ Writes(j)
  BY DEF JournalInv
<1>1. J!TypeOK
  <2>1. \A i \in DOMAIN disk : disk[i] \in [line : J!LineType, whole : BOOLEAN, nl : BOOLEAN]
    <3>1. DOMAIN disk = 1..Len(disk) /\ disk \in Seq(ChunkType)
      BY <1>0 DEF FileType
    <3> QED  BY <3>1, ElementOfSeq DEF ChunkType
  <2>2. prev \in [Journals -> 0..hashes]
    <3>1. prev \in [Journals -> Nat] /\ hashes \in Nat /\ \A j \in Journals : prev[j] <= hashes
      BY <1>0 DEF FileType, CallType, Writes
    <3>2. ASSUME NEW j \in Journals PROVE prev[j] \in 0..hashes
      <4>1. prev[j] \in Nat /\ hashes \in Nat /\ prev[j] <= hashes
        BY <3>1
      <4> QED  BY <4>1
    <3> QED  BY <3>1, <3>2
  <2>3. hook \subseteq open /\ open \subseteq Journals
    BY <1>0 DEF Opened, Holder
  <2>4. /\ jpc \in [Journals -> {"idle", "open", "resume", "truncate", "seal", "mark",
                                "write", "sync", "hook", "close"}]
        /\ call \in [Journals -> {"send", "close"}] /\ jevent \in [Journals -> Records \cup {None}]
        /\ jline \in [Journals -> J!LineType] /\ jrecords \in [Journals -> Nat] /\ fresh \subseteq Records
    BY <1>0 DEF CallType, Calls
  <2>5. /\ lock \in Journals \cup {None} /\ acked \cap jreported = {} /\ synced \in BOOLEAN
        /\ trouble \in Seq({"crash", "newline", "error", "damage"})
    BY <1>0 DEF FileType, Sorted, Troubles
  <2> QED  BY <2>1, <2>2, <2>3, <2>4, <2>5 DEF J!TypeOK
<1>2. J!AgreesWithDisk
  <2> SUFFICES ASSUME NEW j \in open
               PROVE  /\ lock = j
                      /\ jpc[j] \in {"idle", "seal", "mark", "write"} /\ Calm =>
                             prev[j] = J!HeadOf(disk) /\ jrecords[j] = J!RecordsIn(disk) /\ J!Rest(disk) = <<>>
    BY DEF J!AgreesWithDisk, Calm
  <2>1. j \in Journals /\ lock = j
    BY <1>0 DEF Opened, Holder
  <2> QED  BY <1>0, <2>1 DEF Continues, Remembers
<1>3. J!ChainVerifies
  BY <1>0 DEF J!ChainVerifies, Continues, Calm
<1>4. J!AckedDurable
  BY <1>0, HoldsOne DEF J!AckedDurable, Durable
<1>5. J!NoSilentHole
  <2> SUFFICES ASSUME J!Range(trouble) \subseteq {"error"}, NEW e \in Records, J!Returned(e)
               PROVE  e \in jreported \/ J!Holds(e) # {}
    BY DEF J!NoSilentHole
  <2>1. e \in acked \cup jreported
    BY <1>0 DEF Traced, J!Returned
  <2>2. e \in acked => J!Holds(e) # {}
    BY <1>0, HoldsOne DEF Durable, J!Never
  <2> QED  BY <2>1, <2>2
<1> QED  BY <1>1, <1>2, <1>3, <1>4, <1>5

(* Lines that verify are whole, and each names the line before it, the last one too *)
(* when its newline is missing.                                                     *)
LEMMA VerifiedLinked ==
    ASSUME NEW s \in Seq(ChunkType), J!Verifies(s), NEW i \in 1..Len(s)
    PROVE  s[i].whole /\ s[i].line.prev = J!HashOf(s, i - 1)
<1>1. /\ J!Body(s) \in Seq(ChunkType) /\ Len(J!Body(s)) = J!LastNewline(s)
      /\ \A m \in 1..J!LastNewline(s) : J!Body(s)[m] = s[m]
      /\ J!LastNewline(s) \in Nat /\ Len(s) \in Nat
  BY BodyFacts
<1>2. J!Chained(J!Body(s)) /\ (J!Rest(s) = <<>> \/ J!Complete(s))
  BY DEF J!Verifies
<1>3. \A m \in 0..J!LastNewline(s) : J!HashOf(J!Body(s), m) = J!HashOf(s, m)
  BY <1>1 DEF J!HashOf
<1>4. CASE i <= J!LastNewline(s)
  <2>1. i \in 1..J!LastNewline(s) /\ i - 1 \in 0..J!LastNewline(s)
    BY <1>1, <1>4
  <2>2. J!Body(s)[i].whole /\ J!Body(s)[i].line.prev = J!HashOf(J!Body(s), i - 1)
    BY <1>1, <1>2, <2>1 DEF J!Chained, J!Linked
  <2> QED  BY <1>1, <1>3, <2>1, <2>2
<1>5. CASE ~(i <= J!LastNewline(s))
  <2>1. J!Rest(s) = <<>> <=> J!LastNewline(s) = Len(s)
    BY Parts
  <2>2. J!Complete(s)
    BY <1>1, <1>2, <1>5, <2>1
  <2>3. Len(J!Rest(s)) = Len(s) - J!LastNewline(s) /\ \A m \in 1..Len(s) - J!LastNewline(s) : J!Rest(s)[m] = s[J!LastNewline(s) + m]
    BY Parts
  <2>4. Len(J!Rest(s)) = 1 /\ J!Rest(s)[1].whole /\ J!Rest(s)[1].line.prev = J!HeadOf(J!Body(s))
    BY <2>2 DEF J!Complete
  <2>5. i = J!LastNewline(s) + 1 /\ J!Rest(s)[1] = s[i] /\ i - 1 = J!LastNewline(s) /\ J!LastNewline(s) \in 0..J!LastNewline(s)
    <3>0. Len(s) - J!LastNewline(s) = 1
      BY <2>3, <2>4
    <3>1. i = J!LastNewline(s) + 1
      BY <1>1, <1>5, <3>0
    <3>2. 1 \in 1..Len(s) - J!LastNewline(s)
      BY <3>0
    <3>3. J!Rest(s)[1] = s[J!LastNewline(s) + 1]
      BY <2>3, <3>2
    <3> QED  BY <1>1, <3>1, <3>3
  <2>6. J!HeadOf(J!Body(s)) = J!HashOf(s, J!LastNewline(s))
    BY <1>1, <1>3, <2>5 DEF J!HeadOf
  <2> QED  BY <2>4, <2>5, <2>6
<1> QED  BY <1>4, <1>5

LEMMA PrefixOf ==
    ASSUME NEW s \in Seq(ChunkType), NEW t \in Seq(ChunkType), Len(t) <= Len(s), \A m \in 1..Len(t) : t[m] = s[m]
    PROVE  J!IsPrefix(t, s)
<1>1. Len(t) \in 0..Len(s) /\ Len(t) \in 0..Len(t)
  OBVIOUS
<1>2. /\ SubSeq(s, 1, Len(t)) \in Seq(ChunkType) /\ Len(SubSeq(s, 1, Len(t))) = Len(t)
      /\ \A m \in 1..Len(t) : SubSeq(s, 1, Len(t))[m] = s[m]
  BY <1>1, Prefixed
<1>3. /\ SubSeq(t, 1, Len(t)) \in Seq(ChunkType) /\ Len(SubSeq(t, 1, Len(t))) = Len(t)
      /\ \A m \in 1..Len(t) : SubSeq(t, 1, Len(t))[m] = t[m]
  BY <1>1, Prefixed
<1>4. SubSeq(t, 1, Len(t)) = SubSeq(s, 1, Len(t))
  BY <1>2, <1>3, SeqEqual
<1> QED  BY <1>4 DEF J!IsPrefix

(* Verify accepts an edited file only when lines were cut from its end. *)
LEMMA EditShows ==
    ASSUME NEW s \in Seq(ChunkType), \A i \in 1..Len(s) : s[i].line.prev < s[i].line.id,
           NEW t, Edited(s, t), J!Verifies(s), J!Verifies(t)
    PROVE  J!IsPrefix(t, s)
<1>0. /\ t \in Seq(ChunkType) /\ Len(s) \in Nat
      /\ \A i \in 1..Len(s) : s[i].line.prev \in Nat /\ s[i].line.id \in Nat
  <2>1. \A i \in 1..Len(s) : s[i].line.prev \in Nat /\ s[i].line.id \in Nat
    <3> SUFFICES ASSUME NEW i \in 1..Len(s) PROVE s[i].line.prev \in Nat /\ s[i].line.id \in Nat
      OBVIOUS
    <3>1. s[i] \in ChunkType
      BY ElementOfSeq
    <3> QED  BY <3>1 DEF ChunkType, J!LineType
  <2> QED  BY <2>1, Damaged
<1>1. \A i \in 1..Len(s) : s[i].whole /\ s[i].line.prev = J!HashOf(s, i - 1)
  BY VerifiedLinked
<1>2. \A i \in 1..Len(t) : t[i].whole /\ t[i].line.prev = J!HashOf(t, i - 1)
  BY <1>0, VerifiedLinked
(* A line cannot follow what its predecessor followed. *)
<1>3. ASSUME NEW i \in 1..Len(s) - 1, i \in 1..Len(t), t[i] = s[i + 1], J!HashOf(t, i - 1) = J!HashOf(s, i - 1)
      PROVE  FALSE
  <2>1. i \in 1..Len(s) /\ i + 1 \in 1..Len(s) /\ (i + 1) - 1 = i /\ i # 0
    BY <1>0
  <2>2. s[i + 1].line.prev = s[i].line.id /\ s[i].line.prev = J!HashOf(s, i - 1)
    BY <1>1, <2>1 DEF J!HashOf
  <2>3. s[i + 1].line.prev = s[i].line.prev
    BY <1>2, <1>3, <2>2
  <2>4. s[i].line.prev < s[i].line.id /\ s[i].line.prev \in Nat /\ s[i].line.id \in Nat
    BY <1>0, <2>1
  <2> QED  BY <2>2, <2>3, <2>4
<1>4. ASSUME NEW i \in 1..Len(s), t = [s EXCEPT ![i].whole = FALSE] PROVE FALSE
  <2>1. Len(t) = Len(s) /\ s[i] \in ChunkType
    BY <1>4, ElementOfSeq
  <2>2. ~t[i].whole
    BY <1>4, <2>1 DEF ChunkType
  <2> QED  BY <1>2, <2>1, <2>2
<1>5. ASSUME NEW i \in 1..Len(s), t = J!Without(s, i) PROVE J!IsPrefix(t, s)
  <2>1. /\ Len(t) = Len(s) - 1
        /\ \A m \in 1..Len(s) - 1 : t[m] = IF m < i THEN s[m] ELSE s[m + 1]
    BY <1>5, WithoutFacts
  <2>2. CASE i < Len(s)
    <3>1. i \in 1..Len(s) - 1 /\ i \in 1..Len(t) /\ t[i] = s[i + 1]
      BY <1>0, <2>1, <2>2
    <3>2. i - 1 # 0 => t[i - 1] = s[i - 1]
      BY <1>0, <2>1, <2>2
    <3>3. J!HashOf(t, i - 1) = J!HashOf(s, i - 1)
      BY <3>2 DEF J!HashOf
    <3> QED  BY <1>3, <3>1, <3>3
  <2>3. CASE i = Len(s)
    <3>1. \A m \in 1..Len(t) : t[m] = s[m]
      BY <1>0, <2>1, <2>3
    <3>2. t \in Seq(ChunkType) /\ Len(t) <= Len(s)
      BY <1>0, <2>1
    <3> QED  BY <3>1, <3>2, PrefixOf
  <2> QED  BY <1>0, <2>2, <2>3
<1>6. ASSUME NEW i \in 1..Len(s) - 1, t = J!Swapped(s, i) PROVE FALSE
  <2>1. /\ Len(t) = Len(s) /\ i \in 1..Len(s) /\ i + 1 \in 1..Len(s)
        /\ \A m \in 1..Len(s) : t[m] = IF m = i THEN s[i + 1] ELSE IF m = i + 1 THEN s[i] ELSE s[m]
    BY <1>6, SwappedFacts
  <2>4. i \in 1..Len(t) /\ t[i] = s[i + 1]
    BY <2>1
  <2>5. i - 1 # 0 => i - 1 \in 1..Len(s) /\ i - 1 # i /\ i - 1 # i + 1
    BY <1>0, <2>1
  <2>2. i \in 1..Len(t) /\ t[i] = s[i + 1] /\ (i - 1 # 0 => t[i - 1] = s[i - 1])
    BY <2>1, <2>4, <2>5
  <2>3. J!HashOf(t, i - 1) = J!HashOf(s, i - 1)
    BY <2>2 DEF J!HashOf
  <2> QED  BY <1>3, <2>2, <2>3
<1>7. ASSUME s # <<>>, t = Append(s, s[Len(s)]) PROVE FALSE
  <2>1. s[Len(s)] \in ChunkType /\ Len(s) \in 1..Len(s) /\ Len(s) # 0
    BY <1>0, <1>7, LastOff
  <2>2. /\ Len(t) = Len(s) + 1 /\ t[Len(s) + 1] = s[Len(s)] /\ t[Len(s)] = s[Len(s)]
    BY <1>7, <2>1, Appended
  <2>3. Len(s) + 1 \in 1..Len(t) /\ (Len(s) + 1) - 1 = Len(s)
    BY <1>0, <2>2
  <2>4. s[Len(s)].line.prev = s[Len(s)].line.id
    BY <1>2, <2>1, <2>2, <2>3 DEF J!HashOf
  <2>5. s[Len(s)].line.prev < s[Len(s)].line.id /\ s[Len(s)].line.prev \in Nat /\ s[Len(s)].line.id \in Nat
    BY <1>0, <2>1
  <2> QED  BY <2>4, <2>5
<1> QED  BY <1>4, <1>5, <1>6, <1>7 DEF Edited

LEMMA DamageIsTold == ASSUME JournalInv, [J!Next]_J!vars PROVE J!DamageTold
<1>0. CallType /\ disk \in Seq(ChunkType) /\ hashes \in Nat /\ Hashed
  BY DEF JournalInv, FileType
<1>1. J!Damage /\ J!Verifies(disk) => (J!Verifies(disk') => J!IsPrefix(disk', disk))
  <2> SUFFICES ASSUME J!Damage, J!Verifies(disk), J!Verifies(disk') PROVE J!IsPrefix(disk', disk)
    OBVIOUS
  <2>1. Edited(disk, disk')
    BY DEF J!Damage, Edited
  <2>2. \A i \in 1..Len(disk) : disk[i].line.prev < disk[i].line.id
    BY <1>0 DEF Hashed
  <2> QED  BY <1>0, <2>1, <2>2, EditShows
<1>2. open' \subseteq open \/ J!Chained(J!Body(disk))
  <2>1. ASSUME NEW j \in Journals, Step(j) PROVE open' \subseteq open \/ J!Chained(J!Body(disk))
    <3>1. CASE J!SendCall(j) \/ J!Open(j) \/ J!Close(j) \/ J!Crash(j)
      BY <1>0, <3>1, SendFacts, OpenFacts, CloseFacts, CrashFacts
    <3>2. CASE J!Resume(j)
      BY <3>2, ResumeFacts DEF Reopened, J!Replays
    <3>3. CASE J!SealLine(j) \/ J!Write(j) \/ J!Sync(j) \/ AppendFailed(j)
      BY <1>0, <3>3, SealFacts, WriteFacts, SyncFacts, FailedFacts
    <3> QED  BY <2>1, <3>1, <3>2, <3>3 DEF Step, J!AppendLine, AppendFailed
  <2>2. CASE J!Damage
    BY <2>2 DEF J!Damage, J!instance
  <2>3. CASE UNCHANGED J!vars
    BY <2>3 DEF J!vars, J!instance
  <2>4. ASSUME NEW j \in Journals, J!OpenFails(j) PROVE open' \subseteq open
    BY <2>4 DEF J!OpenFails
  <2> QED  BY <2>1, <2>2, <2>3, <2>4 DEF J!Next, Step
<1> QED  BY <1>1, <1>2 DEF J!DamageTold
=============================================================================
