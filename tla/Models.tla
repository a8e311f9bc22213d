------------------------------- MODULE Models -------------------------------
(***************************************************************************)
(* Model calls on one event: what the adapters of ai read out of the answer *)
(* or the stream of a provider (an llm.Record), how llm.Set and llm.Add put *)
(* the records of several goroutines on the event, and how the Enricher of *)
(* llm prices them.                                                        *)
(*                                                                         *)
(* A record keeps its counts, its tool calls, its finish reason, its cost  *)
(* and its model; texts, ids and timings are left out.                     *)
(***************************************************************************)
EXTENDS Naturals, Sequences, FiniteSets, FiniteSetsExt

CONSTANTS Callers,    \* the goroutines of the event, one model call each
          Adapters,   \* a subset of DOMAIN Sdks
          Answers,    \* what a provider counted for a call, and how it says so
          MaxCalls,   \* llm.maxCalls
          Prices,     \* the table: a row of rates for each model it holds
          Million,    \* how many tokens a rate is for
          None

(* An answer is [fresh, read, w5, w1h, tooling, out, thought, tools, finish,       *)
(* model, own, split, final, tells]: tokens neither read from a cache nor written  *)
(* to one, read, written for five minutes and for an hour, those of the tool-use   *)
(* prompt; output, and the thinking in it; how many tools it calls; the cost the   *)
(* program paid, or None.  split: the provider breaks the cache writes down;       *)
(* final: the last usage of a stream repeats the input; tells: a stream says its   *)
(* usage at all.                                                                   *)

VARIABLES
    pc,        \* where each caller is
    adapter, answer,
    left,      \* the chunks of the stream that were not read yet
    rec,       \* the record the observer has built
    raw, saw,  \* Observer.rawInput; ChatObserver.sawUsage
    group,     \* the llm group of the event
    refused,   \* Add's own count of what the caps refused
    calls,     \* how many calls[] of the event has
    dropped    \* wlog.dropped_fields

(* History: the caller that set its record, those that added theirs, in order, and *)
(* those whose stream broke.                                                       *)
VARIABLES first, added, broken

observers == <<adapter, answer, left, rec, raw, saw, broken>>
written   == <<group, refused, calls, dropped, first, added>>
vars      == <<pc, observers, written>>

ToCall(c, place) == pc' = [pc EXCEPT ![c] = place]

Blank == [in |-> 0, cached |-> 0, w5 |-> 0, w1h |-> 0, out |-> 0, reason |-> 0,
          tools |-> 0, finish |-> None, model |-> None, own |-> None,
          unknown |-> FALSE, streamed |-> FALSE]

----------------------------------------------------------------------------
(* The usage each SDK gives.  OpenAI and Gemini count the cache in the prompt. *)
Usage(a) ==
    [input |-> a.fresh, prompt |-> a.fresh + a.read + a.w5 + a.w1h, read |-> a.read,
     written |-> a.w5 + a.w1h, w5 |-> IF a.split THEN a.w5 ELSE 0,
     w1h |-> IF a.split THEN a.w1h ELSE 0, tooling |-> a.tooling, out |-> a.out,
     thought |-> a.thought, has |-> {"input", "read", "written", "out", "thought"}]

Counts(r, in, cached, w5, w1h, out, reason) ==
    [r EXCEPT !.in = in, !.cached = cached, !.w5 = w5, !.w1h = w1h, !.out = out,
              !.reason = reason]

(* recordOf: no breakdown means that the total is the five minute write. *)
Unsplit(u) == u.w5 = 0 /\ u.w1h = 0
WithoutCache(r, u) == Counts(r, u.input, u.read, u.written, 0, u.out, u.thought)    \* mutant
Anthropic(r, u) ==
    Counts(r, u.input + u.written + u.read, u.read,
           IF Unsplit(u) THEN u.written ELSE u.w5, u.w1h, u.out, u.thought)
OpenAI(r, u)   == Counts(r, u.prompt, u.read, u.written, 0, u.out, u.thought)
GoOpenAI(r, u) == Counts(r, u.prompt, u.read, 0, 0, u.out, u.thought)
GenAI(r, u)    == Counts(r, u.prompt + u.tooling, u.read, 0, 0, (u.out - u.thought) + u.thought,
                         u.thought)
ChainAnthropic(r, u) == Counts(r, u.input + u.read + u.written, u.read, u.written, 0, u.out, 0)
ChainOpenAI(r, u)    == Counts(r, u.prompt, u.read, 0, 0, u.out, u.thought)
ChainOther(r, u)     == r
Eino(r, u)           == GoOpenAI(r, u)

UsageOf(sdk, r, u) ==
    CASE sdk = "anthropic"                 -> Anthropic(r, u)
      [] sdk \in {"openai", "responses"}   -> OpenAI(r, u)
      [] sdk \in {"goopenai", "eino"}      -> GoOpenAI(r, u)
      [] sdk = "genai"                     -> GenAI(r, u)
      [] sdk = "chainanthropic"            -> ChainAnthropic(r, u)
      [] sdk = "chainopenai"               -> ChainOpenAI(r, u)
      [] sdk = "chainother"                -> ChainOther(r, u)

(* FromMessage, FromChatCompletion, FromResponse, FromGenerateContent and the like. *)
HasFinish(sdk) == sdk # "responses"
Whole(sdk, a) ==
    [UsageOf(sdk, Blank, Usage(a)) EXCEPT
        !.tools = a.tools, !.own = a.own, !.model = a.model,
        !.finish = IF HasFinish(sdk) THEN a.finish ELSE None]

Chats   == {"openai", "goopenai"}
Streams == Chats \cup {"anthropic", "responses", "genai"}
Sdks    == Streams \cup {"eino", "chainanthropic", "chainopenai", "chainother"}

(* A stream as its provider sends it. *)
Chunk == [type |-> "chunk", usage |-> None, tools |-> 0, finish |-> None, model |-> None]
Tools(a, type) == [i \in 1..a.tools |-> [Chunk EXCEPT !.type = type, !.tools = 1]]
StreamOf(sdk, a) ==
    CASE sdk = "anthropic" ->
             <<[Chunk EXCEPT !.type = "message_start", !.model = a.model,
                             !.usage = [Usage(a) EXCEPT !.out = 1]]>>
             \o Tools(a, "content_block_start")
             \o <<[Chunk EXCEPT !.type = "message_delta", !.finish = a.finish,
                       !.usage = IF a.final THEN Usage(a)
                                 ELSE [Usage(a) EXCEPT !.has = {"out", "thought"}]]>>
      [] sdk = "responses" ->
             <<Chunk, [Chunk EXCEPT !.type = "response.completed"]>>
      [] sdk = "genai" ->
             <<[Chunk EXCEPT !.usage = [Usage(a) EXCEPT !.out = a.thought], !.model = a.model]>>
             \o Tools(a, "chunk")
             \o <<[Chunk EXCEPT !.usage = Usage(a), !.finish = a.finish]>>
      [] sdk \in Chats ->
             <<[Chunk EXCEPT !.model = a.model]>> \o Tools(a, "chunk")
             \o <<[Chunk EXCEPT !.finish = a.finish]>>
             \o (IF a.tells THEN <<[Chunk EXCEPT !.usage = Usage(a)]>> ELSE <<>>)


ModelsAssumption ==
    /\ Adapters \subseteq Sdks /\ {MaxCalls, Million} \subseteq Nat \ {0}
    /\ \A a \in Answers : a.thought <= a.out

(* Observer.consume of anthropic: the usage of message_delta, field by field. *)
DeltaSums(c, r, u) == r.in + r.cached + r.w5 + r.w1h    \* mutant: the folded input once more
DeltaInput(c, r, u) == (IF "input" \in u.has THEN u.input ELSE raw[c]) + r.cached + r.w5 + r.w1h
Delta(c, chunk) ==
    LET u == chunk.usage
        kept == [rec[c] EXCEPT
                    !.cached = IF "read" \in u.has THEN u.read ELSE @,
                    !.w5     = IF "written" \in u.has THEN u.written ELSE @,
                    !.w1h    = IF "written" \in u.has THEN 0 ELSE @]
    IN  [kept EXCEPT
            !.in     = IF {"input", "read", "written"} \cap u.has # {}
                       THEN DeltaInput(c, kept, u) ELSE @,
            !.out    = IF "out" \in u.has THEN u.out ELSE @,
            !.reason = IF "thought" \in u.has THEN u.thought ELSE @,
            !.finish = IF chunk.finish # None THEN chunk.finish ELSE @]

(* The other observers: each usage block replaces the one before it. *)
Consume(c, chunk) ==
    LET sdk == adapter[c]
        r   == rec[c]
        named == [r EXCEPT !.model = IF chunk.model # None THEN chunk.model ELSE @,
                           !.tools = @ + chunk.tools,
                           !.finish = IF chunk.finish # None THEN chunk.finish ELSE @]
    IN  CASE chunk.type = "message_start" -> 
                 [Anthropic(named, chunk.usage) EXCEPT !.reason = r.reason]
          [] chunk.type = "message_delta" -> Delta(c, chunk)
          [] chunk.type = "response.completed" ->
                 [Whole(sdk, answer[c]) EXCEPT !.streamed = TRUE]
          [] OTHER -> IF chunk.usage = None THEN named
                      ELSE [UsageOf(sdk, named, chunk.usage) EXCEPT !.unknown = FALSE]

----------------------------------------------------------------------------
(* llm.Add: the group of the event, folded under its lock (applyAdd). *)
EmptyGroup == [in |-> 0, out |-> 0, total |-> 0, cached |-> 0, w5 |-> 0, w1h |-> 0, reason |-> 0,
               calls |-> <<>>, tools |-> 0, count |-> 0, cost |-> None,
               finishes |-> <<>>, model |-> None, unknown |-> FALSE, unpriced |-> FALSE]

Value(cost) == IF cost = None THEN 0 ELSE cost
Least(m, n) == IF m < n THEN m ELSE n

CallOf(r) == [model |-> r.model, in |-> r.in, cached |-> r.cached, w5 |-> r.w5, w1h |-> r.w1h,
              out |-> r.out, cost |-> r.own]

Fold(g, r) ==
    [g EXCEPT
        !.in = @ + r.in, !.out = @ + r.out, !.total = g.in + r.in + g.out + r.out,
        !.cached = @ + r.cached, !.w5 = @ + r.w5, !.w1h = @ + r.w1h, !.reason = @ + r.reason,
        !.calls = IF Len(@) < MaxCalls THEN Append(@, CallOf(r)) ELSE @,
        !.tools = Least(@ + r.tools, MaxCalls),
        !.count = @ + r.tools,
        !.cost = IF r.own = None THEN @ ELSE Value(@) + r.own,
        !.finishes = IF r.finish = None THEN @ ELSE Append(@, r.finish),
        !.model = IF @ = None THEN r.model ELSE @,
        !.unknown = @ \/ r.unknown]

OnlyCalls(g, r) == IF Len(g.calls) < MaxCalls THEN 0 ELSE 1            \* mutant: tools are not counted
Refused(g, r) ==
    (IF Len(g.calls) < MaxCalls THEN 0 ELSE 1) + (g.tools + r.tools - Least(g.tools + r.tools, MaxCalls))

(* llm.Set: the fields of the record, which leaves its zero ones off. *)
Put(g, r) ==
    [EmptyGroup EXCEPT
        !.in = r.in, !.out = r.out, !.total = r.in + r.out, !.cached = r.cached, !.w5 = r.w5,
        !.w1h = r.w1h, !.reason = r.reason, !.tools = r.tools, !.count = r.tools,
        !.cost = r.own, !.finishes = IF r.finish = None THEN <<>> ELSE <<r.finish>>,
        !.model = r.model, !.unknown = r.unknown]

----------------------------------------------------------------------------
(* Prices.Cost: every part of the input at its own rate, none of them twice. *)
FirstRate(rates) == LET set == {i \in DOMAIN rates : rates[i] > 0}
                    IN  IF set = {} THEN 0 ELSE rates[Min(set)]
Micros(tokens, rate) == (tokens * rate + Million \div 2) \div Million

Unclipped(r) ==                                        \* mutant: writes are billed twice
    LET read == Least(r.cached, r.in)
    IN  [read |-> read, w1h |-> r.w1h, w5 |-> r.w5, plain |-> r.in - read]
Parts(r) ==
    LET read == Least(r.cached, r.in)
        w1h  == Least(r.w1h, r.in - read)
        w5   == Least(r.w5, r.in - read - w1h)
    IN  [read |-> read, w1h |-> w1h, w5 |-> w5, plain |-> r.in - read - w1h - w5]

CostOf(r) ==
    LET row == Prices[r.model]
        p   == Parts(r)
    IN  Micros(p.plain, row.input) + Micros(p.read, FirstRate(<<row.read, row.input>>))
        + Micros(p.w5, FirstRate(<<row.w5, row.input>>))
        + Micros(p.w1h, FirstRate(<<row.w1h, row.w5, row.input>>)) + Micros(r.out, row.output)

Priced(call) == Value(call.cost) > 0
Known(call)  == call.model \in DOMAIN Prices
CallPriced(call) == IF ~Priced(call) /\ Known(call) THEN [call EXCEPT !.cost = CostOf(call)] ELSE call

SumOver(s, F(_)) == MapThenSumSet(LAMBDA i : F(s[i]), DOMAIN s)

(* priceCalls: what the calls carry is in the total already, unless that is zero. *)
PriceCalls(g) ==
    LET after == [i \in DOMAIN g.calls |-> CallPriced(g.calls[i])]
        table == SumOver(g.calls, LAMBDA k : IF Priced(k) \/ ~Known(k) THEN 0 ELSE CostOf(k))
        held  == SumOver(g.calls, LAMBDA k : Value(k.cost))
        any   == Value(g.cost) > 0 \/ \E i \in DOMAIN g.calls : Priced(g.calls[i]) \/ Known(g.calls[i])
    IN  [g EXCEPT !.calls = after,
                  !.cost = IF ~any THEN @
                           ELSE IF Value(@) = 0 THEN held + table ELSE @ + table,
                  !.unpriced = @ \/ \E i \in DOMAIN g.calls :
                                      ~Priced(g.calls[i]) /\ ~Known(g.calls[i])
                                      /\ g.calls[i].model # None]

PriceRecord(g) ==
    IF g.model = None \/ Value(g.cost) > 0 THEN g
    ELSE IF g.model \in DOMAIN Prices THEN [g EXCEPT !.cost = CostOf(g)]
    ELSE [g EXCEPT !.unpriced = TRUE]

----------------------------------------------------------------------------
Init ==
    /\ pc = [c \in Callers |-> "ask"]
    /\ adapter = [c \in Callers |-> None] /\ answer = [c \in Callers |-> None]
    /\ left = [c \in Callers |-> <<>>] /\ rec = [c \in Callers |-> Blank]
    /\ raw = [c \in Callers |-> 0] /\ saw = [c \in Callers |-> FALSE]
    /\ group = EmptyGroup /\ refused = [c \in Callers |-> 0] /\ calls = 0 /\ dropped = 0
    /\ first = None /\ added = <<>> /\ broken = {}

(* The program asks, and maps the whole answer. *)
Ask(c) ==
    /\ pc[c] = "ask"
    /\ \E sdk \in Adapters, a \in Answers :
           /\ adapter' = [adapter EXCEPT ![c] = sdk] /\ answer' = [answer EXCEPT ![c] = a]
           /\ rec' = [rec EXCEPT ![c] = Whole(sdk, a)]
    /\ ToCall(c, "write")
    /\ UNCHANGED <<left, raw, saw, broken, written>>

(* Or it observes a stream. *)
Observe(c) ==
    /\ pc[c] = "ask"
    /\ \E sdk \in Adapters \cap Streams, a \in Answers :
           /\ adapter' = [adapter EXCEPT ![c] = sdk] /\ answer' = [answer EXCEPT ![c] = a]
           /\ left' = [left EXCEPT ![c] = StreamOf(sdk, a)]
           /\ rec' = [rec EXCEPT ![c] = [Blank EXCEPT !.streamed = TRUE, !.own = a.own]]
    /\ ToCall(c, "read")
    /\ UNCHANGED <<raw, saw, broken, written>>

(* Next reads one chunk. *)
Read(c) ==
    /\ pc[c] = "read" /\ left[c] # <<>>
    /\ LET chunk == Head(left[c])
       IN  /\ rec' = [rec EXCEPT ![c] = Consume(c, chunk)]
           /\ raw' = [raw EXCEPT ![c] = IF chunk.usage # None /\ "input" \in chunk.usage.has
                                        THEN chunk.usage.input ELSE @]
           /\ saw' = [saw EXCEPT ![c] = @ \/ chunk.usage # None]
    /\ left' = [left EXCEPT ![c] = Tail(@)]
    /\ UNCHANGED <<pc, adapter, answer, broken, written>>

(* Next reports the end, or an error anywhere before it. *)
NeverUnknown(c) == rec[c].unknown                     \* mutant
Unknown(c) == rec[c].unknown \/ (adapter[c] \in Chats /\ ~saw[c])
Ended(c) ==
    /\ pc[c] = "read"
    /\ rec' = [rec EXCEPT ![c].unknown = Unknown(c)]
    /\ broken' = IF left[c] = <<>> THEN broken ELSE broken \cup {c}
    /\ ToCall(c, "write")
    /\ UNCHANGED <<adapter, answer, left, raw, saw, written>>

(* llm.Set, for the first call of an event. *)
Set(c) ==
    /\ pc[c] = "write" /\ first = None /\ added = <<>>
    /\ group' = Put(group, rec[c]) /\ first' = c
    /\ ToCall(c, "done")
    /\ UNCHANGED <<observers, refused, calls, dropped, added>>

(* llm.Add: the group, then calls[], then the count of what the caps refused. *)
Add(c) ==
    /\ pc[c] = "write"
    /\ group' = Fold(group, rec[c]) /\ added' = Append(added, c)
    /\ refused' = [refused EXCEPT ![c] = Refused(group, rec[c])]
    /\ ToCall(c, "call")
    /\ UNCHANGED <<observers, calls, dropped, first>>

EndCall(c) ==
    /\ pc[c] = "call"
    /\ calls' = calls + 1
    /\ ToCall(c, "count")
    /\ UNCHANGED <<observers, group, refused, dropped, first, added>>

CountDropped(c) ==
    /\ pc[c] = "count"
    /\ dropped' = dropped + refused[c]
    /\ ToCall(c, "done")
    /\ UNCHANGED <<observers, group, refused, calls, first, added>>

(* The event ends: Enrich. *)
Enrich ==
    /\ \A c \in Callers : pc[c] = "done"
    /\ group' = IF group.calls # <<>> THEN PriceCalls(group) ELSE PriceRecord(group)
    /\ pc' = [c \in Callers |-> "over"]
    /\ UNCHANGED <<observers, refused, calls, dropped, first, added>>

Next == \/ \E c \in Callers : \/ Ask(c) \/ Observe(c) \/ Read(c) \/ Ended(c)
                              \/ Set(c) \/ Add(c) \/ EndCall(c) \/ CountDropped(c)
        \/ Enrich

Spec == Init /\ [][Next]_vars

----------------------------------------------------------------------------
HasRead(c) == pc[c] \notin {"ask", "read"}

(* What the provider counted, of what its SDK tells. *)
TellsWrites(sdk) == sdk \in {"anthropic", "chainanthropic", "openai", "responses"}
Input(sdk, a)    == Usage(a).prompt + (IF sdk = "genai" THEN a.tooling ELSE 0)
Told(c) == /\ c \notin broken /\ adapter[c] # "chainother"
           /\ rec[c].streamed /\ adapter[c] \in Chats => answer[c].tells

(* Every provider is mapped onto one shape: the cache counts are parts of the input *)
(* and the thinking is part of the output, at every chunk; an answer, or a stream   *)
(* read to its end, leaves the counts its provider made; and a chat stream that     *)
(* ended with no usage says so (llm/record.go, and the adapters of ai).             *)
OneShape ==
    \A c \in Callers : LET r == rec[c]
                           a == answer[c]
                       IN
        /\ r.cached + r.w5 + r.w1h <= r.in /\ r.reason <= r.out
        /\ HasRead(c) =>
              /\ Told(c) =>
                    /\ r.in = Input(adapter[c], a) /\ r.cached = a.read /\ r.out = a.out
                    /\ r.w5 + r.w1h = IF TellsWrites(adapter[c]) THEN a.w5 + a.w1h ELSE 0
                    /\ r.tools = a.tools /\ r.model = a.model
              /\ r.unknown <=> r.streamed /\ adapter[c] \in Chats
                               /\ ~(answer[c].tells /\ left[c] = <<>>)

(* Whatever the callers interleave, the group holds the sums of all their records,  *)
(* and each record that an array has no room for is in wlog.dropped_fields          *)
(* (llm.Add).                                                                       *)
Wrote == {added[i] : i \in DOMAIN added} \cup (IF first = None THEN {} ELSE {first})
Sum(field(_)) == MapThenSumSet(field, Wrote)
AddsUp ==
    /\ group.in = Sum(LAMBDA c : rec[c].in) /\ group.out = Sum(LAMBDA c : rec[c].out)
    /\ group.total = group.in + group.out
    /\ group.cached = Sum(LAMBDA c : rec[c].cached) /\ group.w1h = Sum(LAMBDA c : rec[c].w1h)
    /\ group.reason = Sum(LAMBDA c : rec[c].reason)
    /\ group.count = Sum(LAMBDA c : rec[c].tools)
    /\ Cardinality(Wrote) > 0 => \E c \in Wrote : group.model = rec[c].model
    /\ (\A c \in Callers : pc[c] \in {"done", "over"}) =>
          /\ calls = Len(added)
          /\ dropped = (Len(added) - Len(group.calls)) + (group.count - group.tools)

(* The money of the event: every call once, at what the program paid for it, or by  *)
(* the tokens its provider counted, each at its own rate.  A call the array had no  *)
(* room for, or a record set before others were added, is priced by its program or  *)
(* not at all; and a model the table does not hold is told (llm/price.go).          *)
TrueCost(sdk, a) ==
    LET row  == Prices[a.model]
        w1h  == IF sdk = "anthropic" /\ a.split THEN a.w1h ELSE 0
        w5   == IF TellsWrites(sdk) THEN a.w5 + a.w1h - w1h ELSE 0
    IN  Micros(Input(sdk, a) - a.read - w5 - w1h, row.input)
        + Micros(a.read, FirstRate(<<row.read, row.input>>))
        + Micros(w5, FirstRate(<<row.w5, row.input>>))
        + Micros(w1h, FirstRate(<<row.w1h, row.w5, row.input>>)) + Micros(a.out, row.output)
Truthful(c) == Told(c) /\ ~(adapter[c] = "anthropic" /\ rec[c].streamed /\ answer[c].final)
Kept(c)     == added = <<>> \/ \E i \in 1..Least(MaxCalls, Len(added)) : added[i] = c
Paid(c) == IF Value(rec[c].own) > 0 THEN rec[c].own
           ELSE IF ~Kept(c) \/ rec[c].model \notin DOMAIN Prices THEN 0
           ELSE TrueCost(adapter[c], answer[c])
MoneyAddsUp ==
    (\A c \in Callers : pc[c] = "over") /\ (\A c \in Wrote : Truthful(c)) =>
        /\ Value(group.cost) = Sum(Paid)
        /\ group.unpriced <=> \E c \in Wrote : /\ Kept(c) /\ rec[c].model \notin {None} \cup DOMAIN Prices
                                               /\ Value(rec[c].own) = 0

----------------------------------------------------------------------------
(* What the comments say, and the code does not keep.                              *)

(* Observe: "the caller still reads every chunk and still builds the same Record". *)
SameRecord ==
    \A c \in Callers : HasRead(c) /\ rec[c].streamed /\ Told(c) =>
        rec[c] = [Whole(adapter[c], answer[c]) EXCEPT !.streamed = TRUE]

(* UsageUnknown "is set when a stream ends with no usage chunk". *)
UnknownTold ==
    \A c \in Callers : HasRead(c) /\ rec[c].streamed /\ rec[c].in = 0 => rec[c].unknown
=============================================================================
