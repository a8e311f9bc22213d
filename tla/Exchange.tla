------------------------------ MODULE Exchange -------------------------------
(***************************************************************************)
(* middleware/httpcore and the HTTP adapters on it: one request event from *)
(* Start to End, around a handler that writes, fails or panics.            *)
(*                                                                         *)
(* Several requests run at once.  They share the pool of body buffers of   *)
(* one Core, and nothing else.  The adapters differ in the writer they     *)
(* read the status from, in what they do with a body and with a panic:     *)
(* Policy has one record for each of them.                                 *)
(***************************************************************************)
EXTENDS Naturals, FiniteSets

CONSTANTS Requests,
          Adapters,         \* of this instance, by their names in Policy
          Informational,    \* the 1xx codes a handler writes: {} or {103}
          MaxBody,          \* bytes of a body that are captured
          MaxSteps,         \* what a handler does before it returns
          CrowdSteps,       \* the same, when it is not alone
          Buffers,
          None, Cutoff      \* no value; the answer of a connection that was cut

(* writer: statusWriter over a net/http writer ("wrapped"), Gin's own, or a      *)
(* response the framework sends after the handler ("buffered").                  *)
(* rest: the handler reads a body that starts with the captured buffer.          *)
(* keeps: the buffer is the request's until it returns.  repanics: PanicPolicy   *)
(* is heeded.  aborts: http.ErrAbortHandler goes on whatever the policy says.    *)
NetHTTP    == [writer |-> "wrapped", rest |-> TRUE, keeps |-> TRUE, repanics |-> TRUE, aborts |-> TRUE]
Chi        == NetHTTP
Echo       == NetHTTP
Echo5      == NetHTTP
GoZero     == NetHTTP
HTTPRouter == NetHTTP
Kratos     == NetHTTP
GCF        == NetHTTP
Gin        == [NetHTTP EXCEPT !.writer = "gin", !.repanics = FALSE, !.aborts = FALSE]
FastHTTP   == [NetHTTP EXCEPT !.writer = "buffered", !.rest = FALSE, !.aborts = FALSE]
Fiber      == FastHTTP
Fiber3     == FastHTTP
Hertz      == [FastHTTP EXCEPT !.keeps = FALSE, !.repanics = FALSE]

Policy == [nethttp |-> NetHTTP, chi |-> Chi, echo |-> Echo, echo5 |-> Echo5,
           gozero |-> GoZero, httprouter |-> HTTPRouter, kratos |-> Kratos, gcf |-> GCF,
           gin |-> Gin, fasthttp |-> FastHTTP, fiber |-> Fiber, fiber3 |-> Fiber3,
           hertz |-> Hertz]

Codes   == {200, 404, 500}
Lengths == 0..(MaxBody + 1)

VARIABLES
    adapter,            \* the adapter around this Core
    captures, length,   \* whether the policy captures bodies; the request body
    owned,              \* FALSE when the request joined an open event
    pc, steps,          \* where the request is
    wrote, status,      \* statusWriter, or the response the framework keeps
    wire,               \* the final status the client got, None before, or Cutoff
    written,            \* the body bytes of the response
    error,              \* the recorded error: None, or the status it carries
    again,              \* the panic continues after the event
    level,              \* the level of the event, "info" when no one set one
    reqBody, respBody,  \* the buffers the request holds
    rest,               \* the buffer the handler's own reader starts with
    pool, filler,       \* the free buffers, and who filled each one last
    event               \* the event that was emitted, or None

(* History: the level the handler named itself; how often the event went out.   *)
VARIABLES named, emitted

ExchangeAssumption ==
    /\ Adapters \subseteq DOMAIN Policy /\ MaxBody \in Nat
    /\ None \notin Requests \cup Buffers \cup Nat

Adapter == Policy[adapter]
Wrapped == Adapter.writer = "wrapped"
Direct  == Adapter.writer # "buffered"

config  == <<adapter, captures, length, owned>>
answer  == <<wrote, status, wire, written>>
record  == <<error, level, named>>
bodies  == <<reqBody, respBody, rest, pool, filler>>
outcome == <<again, event, emitted>>
vars    == <<config, pc, steps, answer, record, bodies, outcome>>

Init ==
    /\ adapter \in Adapters
    /\ captures \in BOOLEAN
    /\ length \in [Requests -> IF captures THEN Lengths ELSE {0}]
    /\ owned \in [Requests -> BOOLEAN]
    /\ \E here \in SUBSET Requests :
           /\ here # {}
           /\ pc = [r \in Requests |-> IF r \in here THEN "start" ELSE "absent"]
           /\ steps = [r \in Requests |-> IF Cardinality(here) = 1 THEN 0 ELSE MaxSteps - CrowdSteps]
    /\ wrote = [r \in Requests |-> FALSE] /\ status = [r \in Requests |-> 200]
    /\ wire = [r \in Requests |-> None] /\ written = [r \in Requests |-> 0]
    /\ error = [r \in Requests |-> None] /\ again = [r \in Requests |-> FALSE]
    /\ level = [r \in Requests |-> "info"] /\ named = [r \in Requests |-> None]
    /\ reqBody = [r \in Requests |-> None] /\ respBody = [r \in Requests |-> None]
    /\ rest = [r \in Requests |-> None]
    /\ pool = {} /\ filler = [b \in Buffers |-> None]
    /\ event = [r \in Requests |-> None] /\ emitted = [r \in Requests |-> 0]

(* sync.Pool hands out a free buffer, or a new one. *)
New == {b \in Buffers : filler[b] = None}
Get == pool \cup IF New = {} THEN {} ELSE {CHOOSE b \in New : TRUE}

----------------------------------------------------------------------------
(* Core.Start and the reads of the request body.  NetHTTP leaves the body of a  *)
(* joined event alone; hertz gives the buffer back at once.                     *)

ReadsBody(r) == captures /\ length[r] > 0 /\ (Wrapped => owned[r])
NotKept      == FALSE                             \* mutant: given back before the handler
Kept         == Adapter.keeps
Start(r) ==
    /\ pc[r] = "start" /\ pc' = [pc EXCEPT ![r] = "body"]
    /\ IF captures /\ Wrapped
       THEN \E b \in Get : /\ respBody' = [respBody EXCEPT ![r] = b]
                           /\ filler' = [filler EXCEPT ![b] = r]
                           /\ pool' = pool \ {b}
       ELSE UNCHANGED <<respBody, filler, pool>>
    /\ UNCHANGED <<config, steps, answer, record, reqBody, rest, outcome>>

ReadBody(r) ==
    /\ pc[r] = "body" /\ pc' = [pc EXCEPT ![r] = "handler"]
    /\ IF ReadsBody(r)
       THEN \E b \in Get :
              /\ filler' = [filler EXCEPT ![b] = r]
              /\ rest' = [rest EXCEPT ![r] = IF Adapter.rest THEN b ELSE None]
              /\ IF Kept THEN reqBody' = [reqBody EXCEPT ![r] = b] /\ pool' = pool \ {b}
                 ELSE UNCHANGED reqBody /\ pool' = pool \cup {b}
       ELSE UNCHANGED <<filler, rest, reqBody, pool>>
    /\ UNCHANGED <<config, steps, answer, record, respBody, outcome>>

----------------------------------------------------------------------------
(* The handler *)

Handling(r) == pc[r] = "handler" /\ steps[r] < MaxSteps /\ steps' = [steps EXCEPT ![r] = @ + 1]

(* What net/http does with a header: a 1xx is sent on its way, and the first    *)
(* other code is the answer.                                                    *)
Commit(r, code) ==
    wire' = [wire EXCEPT ![r] = IF @ = None /\ code \notin Informational THEN code ELSE @]

(* statusWriter.WriteHeader forwards the first one only; Gin keeps a code until *)
(* something is written; a buffered response keeps the last one.                *)
Header(r, code) ==
    CASE Wrapped ->
            IF wrote[r] THEN UNCHANGED <<wrote, status, wire>>
            ELSE /\ wrote' = [wrote EXCEPT ![r] = TRUE]
                 /\ status' = [status EXCEPT ![r] = code]
                 /\ Commit(r, code)
      [] Adapter.writer = "gin" ->
            /\ status' = [status EXCEPT ![r] = IF wrote[r] THEN @ ELSE code]
            /\ UNCHANGED <<wrote, wire>>
      [] OTHER -> status' = [status EXCEPT ![r] = code] /\ UNCHANGED <<wrote, wire>>

WriteHeader(r) ==
    /\ Handling(r)
    /\ \E code \in Codes \cup (IF Wrapped THEN Informational ELSE {}) : Header(r, code)
    /\ UNCHANGED <<config, pc, written, record, bodies, outcome>>

(* Write, ReadFrom and Flush send the header first; the body may be empty. *)
Write(r) ==
    /\ Handling(r)
    /\ \E n \in 0..1 : written' = [written EXCEPT ![r] = @ + n]
    /\ IF Direct
       THEN /\ wrote' = [wrote EXCEPT ![r] = TRUE]
            /\ Commit(r, IF wrote[r] THEN 200 ELSE status[r])
            /\ UNCHANGED status
       ELSE UNCHANGED <<wrote, status, wire>>
    /\ UNCHANGED <<config, pc, record, bodies, outcome>>

(* Hijack: the handler owns the connection, which counts as 101. *)
Hijack(r) ==
    /\ Handling(r) /\ Wrapped /\ wire[r] = None
    /\ wrote' = [wrote EXCEPT ![r] = TRUE]
    /\ status' = [status EXCEPT ![r] = 101] /\ wire' = [wire EXCEPT ![r] = 101]
    /\ UNCHANGED <<config, pc, written, record, bodies, outcome>>

(* wlog.SetLevel in the handler. *)
NameLevel(r) ==
    /\ Handling(r)
    /\ \E l \in {"info", "warn", "error"} :
           level' = [level EXCEPT ![r] = l] /\ named' = [named EXCEPT ![r] = l]
    /\ UNCHANGED <<config, pc, answer, error, bodies, outcome>>

(* A returned error is recorded and answered by the framework's error handler   *)
(* before the event ends; one already committed keeps its answer.               *)
Fail(r) ==
    /\ Handling(r)
    /\ \E code \in {404, 500} :
           /\ error' = [error EXCEPT ![r] = code]
           /\ Header(r, code)
    /\ pc' = [pc EXCEPT ![r] = "finish"]
    /\ UNCHANGED <<config, written, level, named, bodies, outcome>>

(* A panic is recorded.  Recover500 answers 500 when nothing was written; Gin   *)
(* and hertz always recover; http.ErrAbortHandler always goes on.               *)
Continues(abort, repanic) == (Adapter.aborts /\ abort) \/ (Adapter.repanics /\ repanic)
Untouched(r) == IF Direct THEN ~wrote[r] ELSE status[r] = 200 /\ written[r] = 0
Panic(r) ==
    /\ Handling(r)
    /\ error' = [error EXCEPT ![r] = 0]
    /\ \E abort, repanic \in BOOLEAN :
           /\ again' = [again EXCEPT ![r] = Continues(abort, repanic)]
           /\ IF ~Continues(abort, repanic) /\ Untouched(r) THEN Header(r, 500)
              ELSE UNCHANGED <<wrote, status, wire>>
    /\ pc' = [pc EXCEPT ![r] = "finish"]
    /\ UNCHANGED <<config, written, level, named, bodies, event, emitted>>

Finish(r) ==
    /\ pc[r] = "handler" /\ pc' = [pc EXCEPT ![r] = "finish"]
    /\ UNCHANGED <<config, steps, answer, record, bodies, outcome>>

----------------------------------------------------------------------------
(* Exchange.End *)

ClientError(code) == code \in 400..499
LevelFor(code, err) ==
    IF err # None THEN IF ClientError(code) \/ ClientError(err) THEN "warn" ELSE "error"
    ELSE IF ClientError(code) THEN "warn" ELSE IF code >= 500 THEN "error" ELSE "none"

(* captured: a full capture counts as cut. *)
NeverCut(n) == FALSE                              \* mutant: the cut is not marked
Cut(n)      == n >= MaxBody

(* Gin commits the status it kept before the event reads it.                    *)
End(r) ==
    /\ pc[r] = "finish" /\ pc' = [pc EXCEPT ![r] = "emitted"]
    /\ IF Adapter.writer = "gin" /\ ~wrote[r]
       THEN wrote' = [wrote EXCEPT ![r] = TRUE] /\ Commit(r, status[r])
       ELSE UNCHANGED <<wrote, wire>>
    /\ LET final == LevelFor(status[r], error[r])
       IN /\ level' = [level EXCEPT ![r] = IF final = "none" THEN @ ELSE final]
          /\ event' = [event EXCEPT ![r] =
                          [status |-> status[r], level |-> level'[r],
                           cut |-> respBody[r] # None /\ Cut(written[r]), failed |-> error[r] # None]]
    /\ emitted' = [emitted EXCEPT ![r] = IF owned[r] THEN @ + 1 ELSE @]
    /\ UNCHANGED <<config, steps, status, written, error, named, bodies, again>>

(* The deferred ReturnBody calls, and then the server: a panic that goes on     *)
(* cuts a connection that got no answer, and a plain return answers.            *)
Released(r) == {reqBody[r], respBody[r]} \ {None}
Return(r) ==
    /\ pc[r] = "emitted" /\ pc' = [pc EXCEPT ![r] = "done"]
    /\ pool' = pool \cup Released(r)
    /\ reqBody' = [reqBody EXCEPT ![r] = None] /\ respBody' = [respBody EXCEPT ![r] = None]
    /\ rest' = [rest EXCEPT ![r] = None]
    /\ wire' = [wire EXCEPT ![r] =
                   IF @ # None THEN @
                   ELSE IF again[r] THEN Cutoff
                   ELSE IF Wrapped THEN 200 ELSE status[r]]
    /\ UNCHANGED <<config, steps, wrote, status, written, record, filler, outcome>>

Handle(r) == WriteHeader(r) \/ Write(r) \/ Hijack(r) \/ NameLevel(r) \/ Fail(r) \/ Panic(r)

Next == \E r \in Requests : Start(r) \/ ReadBody(r) \/ Handle(r) \/ Finish(r) \/ End(r) \/ Return(r)

Spec == Init /\ [][Next]_vars

----------------------------------------------------------------------------
(* The event says what the client got: the status of the answer, a failure when *)
(* the handler failed, and a body that was cut is marked so.  It is out exactly *)
(* once before a panic goes on, and never by a request that joined an event.    *)
EventMatchesWire ==
    \A r \in Requests : pc[r] = "done" =>
        /\ wire[r] # Cutoff => event[r].status = wire[r]
        /\ emitted[r] = IF owned[r] THEN 1 ELSE 0
        /\ error[r] # None => event[r].failed /\ event[r].level # "info"
        /\ captures /\ Wrapped /\ written[r] > MaxBody => event[r].cut

(* writer.go: "The wrapper never forwards a second WriteHeader, the same as     *)
(* net/http": the answer is the status the handler wrote last before the body.  *)
StatusMatchesWire ==
    \A r \in Requests : pc[r] = "done" /\ wire[r] # Cutoff => event[r].status = wire[r]

(* A body buffer has one user: until its request is done nobody refills it, and *)
(* a free one is nobody's, so a handler never reads another request's body.     *)
BuffersOwned ==
    \A r \in Requests : pc[r] \in {"handler", "finish", "emitted"} =>
        \A b \in {rest[r], respBody[r]} \ {None} :
            filler[b] = r /\ b \notin pool

(* docs/SPEC.md: an explicit SetLevel wins. *)
ExplicitLevelWins ==
    \A r \in Requests : pc[r] = "done" /\ named[r] # None => event[r].level = named[r]
=============================================================================
