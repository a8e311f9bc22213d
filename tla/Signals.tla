------------------------------ MODULE Signals ------------------------------
(***************************************************************************)
(* Units of work on contexts that OpenTelemetry and propagate share: the    *)
(* trace each event names, the spans the trace/otel plugin writes on, the    *)
(* headers that go out, the duration series of trace/otel and               *)
(* metrics/prometheus, and the records of trace/otellog.                    *)
(*                                                                         *)
(* A unit starts bare, under a span that OTel started, or from the context  *)
(* of another unit, which may have ended by then; the span may end at any    *)
(* time.  Ids are tuples named after what drew them, so two draws differ.    *)
(***************************************************************************)
EXTENDS Naturals, FiniteSets, Sequences

CONSTANTS Units,      \* 1..n, in the order in which they start
          Tracers,    \* the spans that OTel may start
          Named,      \* the kind and the operation of each unit
          MaxOperations,
          Carriers,   \* the headers that reach a unit: the trace and the request id they name
          None

VARIABLES
    unit,       \* each unit: None, or how it began and its context
    trace,      \* the trace group of its event
    stage,      \* "new", "open" or "ended"
    span,       \* each OTel span: its state and its trace
    wrote,      \* the units that wrote their event on each span, 
    ops, capped, reports, \* the recorder: operations by kind, kinds over the cap, problems
    series,     \* each measured unit: its kind and operation in the histogram
    records     \* what otellog handed to its provider

vars == <<unit, trace, stage, span, wrote, ops, capped, reports, series, records>>

SignalsAssumption == MaxOperations \in Nat \ {0} /\ Units = 1..Cardinality(Units)

Other == "_OTHER"
Kinds == {Named[u].kind : u \in Units}
Remote == [trace |-> <<"remote", 0>>, span |-> <<"remote", 0>>]

----------------------------------------------------------------------------
(* A context: the active span, the claim on a span, and the trace context of propagate.      *)
Background == [span |-> None, claim |-> None, tc |-> None]
Recording(s) == s # None /\ span[s].state = "recording"

(* markSpan: a unit claims the span unless the claim it finds is the outer unit's own.       *)
Claims(ctx) ==
    [ctx EXCEPT !.claim = [id |-> ctx.span,
                           mine |-> ~ (@ # None /\ @.mine /\ @.id = ctx.span)]]
Always(ctx) == [ctx EXCEPT !.claim = [id |-> ctx.span, mine |-> TRUE]]       \* a mutant
Mark(ctx) == Claims(ctx)
(* OnStart: the ids of the active span, when it records.  A request id is not among them.    *)
Live(ctx, spans) == ctx.span # None /\ spans[ctx.span].state = "recording"
OnStart(ctx, spans) ==
    IF ~ Live(ctx, spans) THEN ctx
    ELSE Mark([ctx EXCEPT !.tc = [trace |-> spans[ctx.span].trace, span |-> <<"otel", ctx.span>>,
                                  parent |-> None, req |-> None]])

(* Extract: a carrier that names a trace wins; else what a Starter wrote stays; else a new   *)
(* trace.  Redrawn, a mutant, forgets what was there.                                        *)
TraceOf(carrier, prior, id) ==
    IF carrier.trace # None THEN [trace |-> carrier.trace.trace, span |-> <<"extract", id>>,
                                  parent |-> carrier.trace.span]
    ELSE IF prior # None THEN [trace |-> prior.trace, span |-> prior.span, parent |-> None]
    ELSE [trace |-> <<"extract", id>>, span |-> <<"extract", id>>, parent |-> None]
Redrawn(carrier, prior, id) == TraceOf(carrier, None, id)
Joined(carrier, prior, id) == TraceOf(carrier, prior, id)
Extract(carrier, prior, id) ==
    LET t == Joined(carrier, prior, id) IN
    [trace |-> t.trace, span |-> t.span, parent |-> t.parent,
     req |-> IF carrier.req # None THEN carrier.req ELSE t.trace]
(* writeTraceGroup: what it does not name stays. *)
Merge(group, tc) ==
    [group EXCEPT !.trace = tc.trace, !.span = tc.span,
                  !.parent = IF tc.parent = None THEN @ ELSE tc.parent,
                  !.req = IF tc.req = None THEN @ ELSE tc.req]

----------------------------------------------------------------------------
Init ==
    /\ unit = [u \in Units |-> None] /\ trace = [u \in Units |-> None]
    /\ stage = [u \in Units |-> "new"]
    /\ span = [s \in Tracers |-> [state |-> "none", trace |-> None]]
    /\ wrote = [s \in Tracers |-> {}]
    /\ ops = [k \in Kinds |-> {}] /\ capped = {} /\ reports = <<>>
    /\ series = [u \in Units |-> None]
    /\ records = [u \in Units |-> None]

Metrics == <<ops, capped, reports, series>>
Sinks   == <<wrote, records>>

(* OTel's own middleware: it joins the trace of the carrier, and samples or not. *)
NewSpan(s, state, carrier, ctx) ==
    [span EXCEPT ![s] = [state |-> state,
                         trace |-> IF carrier # None /\ carrier.trace # None THEN carrier.trace.trace
                                   ELSE IF ctx.span # None THEN span[ctx.span].trace
                                   ELSE <<"otel", s>>]]
(* The event of a unit: its own trace, or the trace of the event that its context holds. *)
Group(u, p) ==
    IF p = None THEN [trace |-> <<"unit", u>>, span |-> <<"unit", u>>, parent |-> None, req |-> None]
    ELSE [trace[p] EXCEPT !.span = <<"unit", u>>, !.parent = trace[p].span]
(* Start or Detach, the Starters, and then Extract when the adapter has a carrier: under     *)
(* another unit only one that names a trace.                                                 *)
Begin(u, p, s, state, carrier) ==
    /\ stage[u] = "new" /\ \A v \in Units : v < u => stage[v] # "new"
    /\ p # None => stage[p] # "new"
    /\ s # None => span[s].state = "none"
    /\ LET base    == IF p = None THEN Background ELSE unit[p].ctx
           spans   == IF s = None THEN span ELSE NewSpan(s, state, carrier, base)
           here    == IF s = None THEN base ELSE [base EXCEPT !.span = s]
           started == OnStart(here, spans)
           group   == IF Live(here, spans) THEN Merge(Group(u, p), started.tc) ELSE Group(u, p)
           reads   == carrier # None /\ (p = None \/ carrier.trace # None)
           tc      == Extract(carrier, started.tc, u)
       IN /\ span' = spans
          /\ unit' = [unit EXCEPT ![u] = [under |-> p, carrier |-> carrier, hook |-> started, live |-> Live(here, spans),
                                          ctx |-> IF reads THEN [started EXCEPT !.tc = tc] ELSE started]]
          /\ trace' = [trace EXCEPT ![u] = IF reads THEN Merge(group, tc) ELSE group]
    /\ stage' = [stage EXCEPT ![u] = "open"]
    /\ UNCHANGED <<Metrics, Sinks>>

(* A function names its trace in another header, read after the first found none. *)
Fallback(u) ==
    /\ stage[u] = "open" /\ unit[u].under = None /\ unit[u].carrier # None /\ unit[u].carrier.trace = None
    /\ \A v \in Units : unit[v] # None => unit[v].under # u
    /\ LET tc == Extract([trace |-> Remote, req |-> None], unit[u].ctx.tc, u) IN
         /\ unit' = [unit EXCEPT ![u].ctx.tc = tc, ![u].carrier.trace = Remote]
         /\ trace' = [trace EXCEPT ![u] = Merge(@, tc)]
    /\ UNCHANGED <<stage, span, Metrics, Sinks>>

(* Inject, on a context of the unit or of a call that it started: what would go out now.      *)
Header(u, called) ==
    [trace |-> unit[u].ctx.tc.trace, span |-> IF called THEN <<"call", u>> ELSE unit[u].ctx.tc.span,
     req |-> unit[u].ctx.tc.req]
Sends(u) == IF unit[u].ctx.tc = None THEN {} ELSE {Header(u, called) : called \in BOOLEAN}

(* The operation of a series: a name the kind has, or a new one while there is room.         *)
Room(k) == Cardinality(ops[k]) < MaxOperations
OneMore(k) == Cardinality(ops[k]) <= MaxOperations         \* a mutant
HasRoom(k) == Room(k)
Measure(u) ==
    /\ LET k    == Named[u].kind
           o    == Named[u].op
           name == IF o \in ops[k] \/ HasRoom(k) THEN o ELSE Other
       IN
         /\ ops' = [ops EXCEPT ![k] = IF name = Other THEN @ ELSE @ \cup {o}]
         /\ capped' = IF name = Other THEN capped \cup {k} ELSE capped
         /\ reports' = IF name = Other /\ k \notin capped THEN Append(reports, k) ELSE reports
         /\ series' = [series EXCEPT ![u] = [kind |-> k, op |-> name]]
(* OnFinish sees the context the Starters left: the unit that claimed its span writes.        *)
OnFinish(u) ==
    LET ctx == unit[u].hook IN
    IF Recording(ctx.span) /\ ctx.claim # None /\ ctx.claim.mine /\ ctx.claim.id = ctx.span
    THEN wrote' = [wrote EXCEPT ![ctx.span] = @ \cup {u}]
    ELSE UNCHANGED wrote
(* otellog: the span of the context, or the ids of the event. *)
Record(u) == IF unit[u].hook.span # None THEN [trace |-> span[unit[u].hook.span].trace, span |-> <<"otel", unit[u].hook.span>>]
             ELSE [trace |-> trace[u].trace, span |-> trace[u].span]

(* emit: the measurers run before head sampling, the finishers and the drains after it.      *)
Sampled(u, keep) == Measure(u)
Kept(u, keep) == IF keep THEN Measure(u) ELSE UNCHANGED Metrics      \* a mutant
MeasureEvent(u, keep) == Sampled(u, keep)
End(u, keep) ==
    /\ stage[u] = "open" /\ stage' = [stage EXCEPT ![u] = "ended"]
    /\ MeasureEvent(u, keep)
    /\ IF keep THEN OnFinish(u) /\ records' = [records EXCEPT ![u] = Record(u)]
       ELSE UNCHANGED <<wrote, records>>
    /\ UNCHANGED <<unit, trace, span>>

EndSpan(s) ==
    /\ span[s].state = "recording" /\ span' = [span EXCEPT ![s].state = "ended"]
    /\ UNCHANGED <<unit, trace, stage, Metrics, Sinks>>

Next ==
    \/ \E u \in Units, p \in Units \cup {None}, s \in Tracers \cup {None}, c \in Carriers \cup {None} :
          \E state \in {"recording", "unsampled"} : Begin(u, p, s, state, c)
    \/ \E u \in Units : Fallback(u)
    \/ \E u \in Units, keep \in BOOLEAN : End(u, keep)
    \/ \E s \in Tracers : EndSpan(s)

----------------------------------------------------------------------------
Begun == {u \in Units : stage[u] # "new"}
Under(u) == unit[u].hook.span
(* A unit is the first under its span when its context had another one, or none. *)
Outermost(u) == unit[u].under = None \/ Under(unit[u].under) # Under(u)

(* trace/otel: a span holds the event of the unit that started first under it, once it was    *)
(* kept and if the span was still open, and never that of a unit started from its context.    *)
SpanTells ==
    \A s \in Tracers :
        /\ \A u \in wrote[s] : Under(u) = s /\ records[u] # None
        /\ \A u \in wrote[s] : Outermost(u) \/ ~ Outermost(unit[u].under)
        /\ span[s].state = "recording" =>
              \A u \in Begun : Under(u) = s /\ Outermost(u) /\ records[u] # None => u \in wrote[s]
(* propagate: an event joins the trace that its carrier names, else that of OTel's span, else *)
(* that of the event it came from; its headers, its log record and its event name one trace,  *)
(* and a header's span is that of its call or of an event on the way to it.                    *)
Expected(u) ==
    LET c == unit[u].carrier IN
    IF c # None /\ c.trace # None THEN {Remote.trace}
    ELSE IF unit[u].live THEN {span[Under(u)].trace}
    ELSE IF unit[u].under # None THEN {trace[unit[u].under].trace}
    ELSE IF c = None THEN {<<"unit", u>>} ELSE {<<"extract", u>>}
JoinsOneTrace ==
    /\ \A u \in Begun : trace[u].trace \in Expected(u)
    /\ \A u \in Begun : \A h \in Sends(u) : h.trace = trace[u].trace
(* The series: every event that ended is measured once, sampled or not; a kind has at most    *)
(* MaxOperations names and the rest, a name stays, and the cap is told once a kind.           *)
SeriesTell ==
    /\ \A u \in Units : (stage[u] = "ended") = (series[u] # None)
    /\ \A k \in Kinds :
          LET names == {series[u].op : u \in {v \in Units : series[v] # None /\ series[v].kind = k}} IN
          /\ Cardinality(names \ {Other}) <= MaxOperations
          /\ (Other \in names) = (k \in {reports[i] : i \in DOMAIN reports})
          /\ \A u \in Units : series[u] # None /\ series[u].kind = k => series[u].op \in {Named[u].op, Other}
    /\ \A i, j \in DOMAIN reports : reports[i] = reports[j] => i = j

SignalsTell == SpanTells /\ JoinsOneTrace /\ SeriesTell

(* What the documents say, and the code does not do.                                         *)

(* docs/SPEC-track-e.md: a unit that starts under a span another unit already claimed writes  *)
(* nothing onto that span.                                                                    *)
ClaimedOnce == \A s \in Tracers : \A u \in wrote[s] : Outermost(u)
(* docs/SPEC-track-e.md: with a recording span, the event uses the ids of the span.           *)
UsesTheSpan == \A u \in Begun : Recording(Under(u)) => trace[u].span = <<"otel", Under(u)>>
(* Detach: the child names its own span and points at the parent's.                           *)
OwnSpan == \A u \in Begun : trace[u].span # trace[u].parent
(* trace/otellog: a record links to its trace.                                                *)
RecordLinks == \A u \in Begun : records[u] # None => records[u].trace = trace[u].trace
(* Extract and Inject: the request id goes out with the trace.                                *)
RequestIdKept ==
    \A u \in Begun : \A h \in Sends(u) :
        unit[u].carrier # None /\ unit[u].carrier.req # None => h.req = unit[u].carrier.req
=============================================================================
