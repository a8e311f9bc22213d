------------------------------ MODULE Senders -------------------------------
(***************************************************************************)
(* One batch on its way from the pipeline to a network backend.            *)
(*                                                                         *)
(* pipeline.trySend calls SendBatch until every event is sent or given up. *)
(* The sender cuts the batch into chunks, posts each chunk, halves a       *)
(* request that is too large, and maps what the backend answers to one     *)
(* error: nil, a plain error, or a PartialError that names the positions   *)
(* to send again and those refused for good.  The senders differ in how    *)
(* they cut, what they halve and what an error of one chunk does to the    *)
(* others: Policy has one record for each of them, and one SendBatch reads *)
(* it.  The recursion of halve, post and sendChunk is the stack runs.      *)
(*                                                                         *)
(* A backend may answer anything a drain has code for, and a request that  *)
(* fails in transport may have reached it all the same.                    *)
(***************************************************************************)
EXTENDS Naturals, Sequences, SequencesExt

CONSTANTS Drains,       \* the senders of this instance
          NEvents,      \* the size of the batch
          Sizes,        \* encoded sizes an event may have
          MaxBytes,     \* the cap on the bytes of one request
          MaxItems,     \* the cap on its items, where a sender has one
          Tags,         \* what a sender groups or sorts by: dataset, timestamp, kind
          Span,         \* the widest range of timestamps in one request
          MaxAttempts   \* pipeline.WithMaxAttempts

Events == 1..NEvents

VARIABLES
    drain, size, tag,   \* the sender, and each event's size and tag
    phase,              \* where SendBatch is: "call", "chunks", "post", "answer", "done"
    attempt,            \* the attempt of trySend
    batch,              \* the events of this attempt, in order
    chunks,             \* the chunks SendBatch has not begun
    chunk,              \* the chunk it is sending: positions in batch
    runs,               \* the parts of that chunk left to post, next first
    refused,            \* the positions of the chunk refused for good so far
    retry, dropped,     \* the lists of the PartialError so far
    answer,             \* what SendBatch returned: "partial", "retry", "final", "transport"
    sent, gone          \* the events the pipeline counts as sent, as dropped

(* History: how often the backend took each event; those it took from this      *)
(* chunk, from chunks that ended without an error, and from all of a chunk; the *)
(* events behind a final refusal; those a per-item answer left unposted.        *)
VARIABLES landed, here, safe, blamed, skipped

call    == <<drain, size, tag, attempt, batch>>
state   == <<phase, call, chunks, chunk, runs, refused, retry, dropped, answer, sent, gone>>
history == <<landed, here, safe, blamed, skipped>>
vars    == <<state, history>>

----------------------------------------------------------------------------
(* over:  what happens to an event too large for any request: it is dropped     *)
(*        "before" the batch is cut or "after" it, or it goes "alone".          *)
(* bytes: the cap on a request holds, items: the cap on its items holds.        *)
(* halves: a 413 splits the run.  perItem: the answer has a status per event.   *)
(* refuses: what a final answer to a run of events refuses: the whole "run",    *)
(*        a "range" at either end, or nothing.                                  *)
(* fails: what a failed request takes with it: its "chunk", the chunk and the   *)
(*        "rest" when it may be retried, or the "whole" batch.                  *)
Elastic   == [over |-> "alone", bytes |-> TRUE, items |-> FALSE, halves |-> TRUE,
              perItem |-> TRUE, refuses |-> "none", fails |-> "chunk"]
Honeycomb == [Elastic EXCEPT !.over = "before"]
NewRelic  == [Elastic EXCEPT !.over = "after", !.perItem = FALSE]
Splunk    == [Elastic EXCEPT !.perItem = FALSE, !.refuses = "run", !.fails = "rest"]
CloudWatch == [over |-> "before", bytes |-> TRUE, items |-> TRUE, halves |-> FALSE,
              perItem |-> FALSE, refuses |-> "range", fails |-> "rest"]
VictoriaLogs == [over |-> "before", bytes |-> FALSE, items |-> FALSE, halves |-> TRUE,
              perItem |-> FALSE, refuses |-> "none", fails |-> "whole"]
(* Datadog returns the 413 of a run of one event as it is. *)
Datadog   == [VictoriaLogs EXCEPT !.over = "alone", !.bytes = TRUE, !.items = TRUE]
(* The senders that post the batch as one body. *)
OneBody     == [VictoriaLogs EXCEPT !.over = "alone", !.halves = FALSE]
Axiom       == OneBody
BetterStack == OneBody
ClickHouse  == OneBody
HyperDX     == OneBody
Loki        == OneBody
OTLP        == OneBody
PostHog     == OneBody
Webhook     == OneBody
(* One envelope for each error event and one for the others, or one message for *)
(* each event: Chunks cuts them so.  Both stop at the first that fails.         *)
Sentry      == OneBody
NATS        == OneBody

Policy == [elastic |-> Elastic, honeycomb |-> Honeycomb, newrelic |-> NewRelic,
           splunk |-> Splunk, cloudwatch |-> CloudWatch, victorialogs |-> VictoriaLogs,
           datadog |-> Datadog, axiom |-> Axiom, betterstack |-> BetterStack,
           clickhouse |-> ClickHouse, hyperdx |-> HyperDX, loki |-> Loki, otlp |-> OTLP,
           posthog |-> PostHog, webhook |-> Webhook, sentry |-> Sentry, nats |-> NATS]
Sender == Policy[drain]

(* The senders that read a tag of the event. *)
Tagged == {"honeycomb", "cloudwatch", "sentry"}

Init ==
    /\ drain \in Drains
    /\ size \in [Events -> Sizes]
    /\ tag \in IF drain \in Tagged THEN [Events -> Tags] ELSE [Events -> {0}]
    /\ phase = "call" /\ attempt = 1
    /\ batch = [i \in Events |-> i]
    /\ chunks = <<>> /\ chunk = <<>> /\ runs = <<>> /\ refused = {}
    /\ retry = {} /\ dropped = {} /\ answer = "partial"
    /\ sent = {} /\ gone = {}
    /\ landed = [e \in Events |-> 0]
    /\ here = {} /\ safe = {} /\ blamed = {} /\ skipped = {}

----------------------------------------------------------------------------
(* Cutting a batch.  A run of events is a sequence of positions in the batch,   *)
(* which is how the senders keep a part of a batch tied to the whole.           *)

Positions == [i \in 1..Len(batch) |-> i]
TagAt(i)  == tag[batch[i]]
Bytes(c)  == FoldLeft(LAMBDA n, i : n + size[batch[i]], 0, c)
TooLarge(i) == size[batch[i]] > MaxBytes

(* Whether position i starts a new chunk after c. *)
Full(c, i) ==
    \/ Sender.bytes /\ Bytes(c) + size[batch[i]] > MaxBytes
    \/ Sender.items /\ Len(c) >= MaxItems
    \/ drain = "cloudwatch" /\ TagAt(i) - TagAt(c[1]) >= Span

Cut(s) ==
    FoldLeft(LAMBDA cs, i : IF cs = <<>> \/ Full(Last(cs), i)
                            THEN Append(cs, <<i>>)
                            ELSE Append(Front(cs), Append(Last(cs), i)), <<>>, s)

(* Honeycomb: the chunks of each dataset, in the order the datasets appear. *)
ByDataset(s) ==
    LET first(t) == CHOOSE k \in 1..Len(s) : TagAt(s[k]) = t /\ \A j \in 1..(k - 1) : TagAt(s[j]) # t
        present  == {TagAt(s[k]) : k \in 1..Len(s)}
        order    == SetToSortSeq(present, LAMBDA a, b : first(a) < first(b))
    IN FoldLeft(LAMBDA cs, t : cs \o Cut(SelectSeq(s, LAMBDA i : TagAt(i) = t)), <<>>, order)

(* CloudWatch: by timestamp, and events of one timestamp in their order. *)
ByTime(s) ==
    SetToSortSeq(ToSet(s), LAMBDA i, j : TagAt(i) < TagAt(j) \/ (TagAt(i) = TagAt(j) /\ i < j))

(* Sentry with AllEvents: tag 1 is an error event. *)
Envelopes(s) ==
    LET errors == SelectSeq(s, LAMBDA i : TagAt(i) = 1)
        logs   == SelectSeq(s, LAMBDA i : TagAt(i) # 1)
    IN [k \in 1..Len(errors) |-> <<errors[k]>>] \o (IF logs = <<>> THEN <<>> ELSE <<logs>>)

Fits(s) == SelectSeq(s, LAMBDA i : ~TooLarge(i))

Chunks ==
    CASE drain = "honeycomb"    -> ByDataset(Fits(Positions))
      [] drain = "cloudwatch"   -> Cut(ByTime(Fits(Positions)))
      [] drain = "victorialogs" -> IF Fits(Positions) = <<>> THEN <<>> ELSE <<Fits(Positions)>>
      [] drain = "newrelic"     -> SelectSeq(Cut(Positions), LAMBDA c : ~TooLarge(c[1]))
      [] drain = "sentry"       -> Envelopes(Positions)
      [] drain = "nats"         -> [i \in 1..Len(batch) |-> <<i>>]
      [] OTHER                  -> Cut(Positions)

Oversize == IF Sender.over = "alone" THEN {} ELSE {i \in 1..Len(batch) : TooLarge(i)}

EventsAt(P) == {batch[i] : i \in P}

(* SendBatch begins. *)
Call ==
    /\ phase = "call" /\ phase' = "chunks"
    /\ chunks' = Chunks
    /\ dropped' = Oversize /\ retry' = {}
    /\ blamed' = blamed \cup EventsAt(Oversize)
    /\ UNCHANGED <<call, chunk, runs, refused, answer, sent, gone, landed, here, safe, skipped>>

(* SendChunk, and sendChunk of Splunk: the next chunk is posted whole first. *)
TakeChunk ==
    /\ phase = "chunks" /\ chunks # <<>> /\ phase' = "post"
    /\ chunk' = Head(chunks) /\ chunks' = Tail(chunks)
    /\ runs' = <<Head(chunks)>>
    /\ refused' = {} /\ here' = {}
    /\ UNCHANGED <<call, retry, dropped, answer, sent, gone, landed, safe, blamed, skipped>>

----------------------------------------------------------------------------
(* One request, and what its answer does. *)

Posting == phase = "post" /\ runs # <<>>
Run     == Head(runs)

Arrive(P) ==
    /\ landed' = [e \in Events |-> IF e \in EventsAt(P) THEN landed[e] + 1 ELSE landed[e]]
    /\ here' = here \cup EventsAt(P)

Blame(P) == blamed' = blamed \cup EventsAt(P)

(* The backend takes the run.  Splunk's capacity codes are such an answer. *)
Accept ==
    /\ Posting
    /\ runs' = Tail(runs)
    /\ Arrive(ToSet(Run))
    /\ UNCHANGED <<phase, call, chunks, chunk, refused, retry, dropped, answer, sent, gone,
                   safe, blamed, skipped>>

(* 413, and Splunk's code 6: two halves, and a run of one event is refused. *)
LeftHalf(s) == <<SubSeq(s, 1, Len(s) \div 2)>>           \* mutant: one half is forgotten
Halves(s) == LET middle == Len(s) \div 2
             IN <<SubSeq(s, 1, middle), SubSeq(s, middle + 1, Len(s))>>
Split ==
    /\ Posting /\ Sender.halves /\ Len(Run) > 1
    /\ runs' = Halves(Run) \o Tail(runs)
    /\ UNCHANGED <<phase, call, chunks, chunk, refused, retry, dropped, answer, sent, gone, history>>

RefuseOne ==
    /\ Posting /\ Sender.halves /\ Len(Run) = 1 /\ drain # "datadog"
    /\ runs' = Tail(runs) /\ refused' = refused \cup ToSet(Run)
    /\ Blame(ToSet(Run))
    /\ UNCHANGED <<phase, call, chunks, chunk, retry, dropped, answer, sent, gone,
                   landed, here, safe, skipped>>

(* CloudWatch rejects a range at either end of the run, Splunk's other codes    *)
(* the whole of it.                                                             *)
Ends(old, new) == {Run[k] : k \in {j \in 1..Len(Run) : j <= old \/ j >= new}}
RefuseSome ==
    /\ Posting /\ Sender.refuses # "none"
    /\ \E old \in 0..Len(Run), new \in 1..(Len(Run) + 1) :
           LET R == Ends(old, new)
           IN /\ R # {} /\ (Sender.refuses = "run" => R = ToSet(Run))
              /\ refused' = refused \cup R
              /\ Blame(R)
              /\ Arrive(ToSet(Run) \ R)
    /\ runs' = Tail(runs)
    /\ UNCHANGED <<phase, call, chunks, chunk, retry, dropped, answer, sent, gone, safe, skipped>>

(* Elastic and Honeycomb: the answer names the items to send again and those    *)
(* refused, as places in the run.  The PartialError it becomes is an error to   *)
(* halve and to SendChunk: the rest of the chunk is not posted, and what a 413  *)
(* refused in it is forgotten.                                                  *)
RunIndexes(J)   == J                                     \* mutant: not shifted to the batch
BatchIndexes(J) == {Run[k] : k \in J}
Items ==
    /\ Posting /\ Sender.perItem
    /\ \E D, R \in SUBSET (1..Len(Run)) :
           /\ D \cup R # {} /\ D \cap R = {}
           /\ dropped' = dropped \cup BatchIndexes(D)
           /\ retry' = retry \cup BatchIndexes(R)
           /\ blamed' = blamed \cup {batch[Run[k]] : k \in D}
           /\ Arrive({Run[k] : k \in (1..Len(Run)) \ (D \cup R)})
           /\ safe' = safe \cup here'
    /\ skipped' = skipped \cup EventsAt(refused \cup ToSet(FlattenSeq(Tail(runs))))
    /\ runs' = <<>> /\ refused' = {} /\ phase' = "chunks"
    /\ UNCHANGED <<call, chunks, chunk, answer, sent, gone>>

(* A request fails as a whole: with a status that may be retried, with a final  *)
(* one, or in transport, when the backend may have taken it.                    *)
Classes == {"retry", "final", "transport"}

FailChunk(class) ==
    /\ IF class = "final"
       THEN dropped' = dropped \cup ToSet(chunk) /\ UNCHANGED retry
       ELSE retry' = retry \cup ToSet(chunk) /\ UNCHANGED dropped
    /\ phase' = "chunks" /\ UNCHANGED <<chunks, answer>>

RestWithoutChunk == ToSet(FlattenSeq(chunks))            \* mutant: the failed chunk is forgotten
Rest == ToSet(chunk) \cup ToSet(FlattenSeq(chunks))
FailRest ==
    /\ retry' = retry \cup Rest
    /\ chunks' = <<>> /\ answer' = "partial" /\ phase' = "answer"
    /\ UNCHANGED dropped

FailWhole(class) ==
    /\ answer' = class /\ phase' = "answer" /\ chunks' = <<>>
    /\ UNCHANGED <<retry, dropped>>

(* Elastic asks whether the error is one that a retry may cure. *)
OnlyRetried(class) == Sender.fails = "chunk" /\ class # "final"   \* mutant: a final one ends the batch
Confined(class) == Sender.fails = "chunk"

Fail ==
    /\ Posting
    /\ \E class \in Classes :
           /\ \/ class = "transport" /\ Arrive(ToSet(Run))
              \/ UNCHANGED <<landed, here>>
           /\ IF class = "final" THEN Blame(ToSet(chunk)) ELSE UNCHANGED blamed
           /\ \/ Confined(class) /\ FailChunk(class)
              \/ Sender.fails = "rest" /\ class = "retry" /\ FailRest
              \/ ~Confined(class) /\ ~(Sender.fails = "rest" /\ class = "retry") /\ FailWhole(class)
    /\ runs' = <<>> /\ refused' = {}
    /\ UNCHANGED <<call, chunk, sent, gone, safe, skipped>>

(* Every run of the chunk has its answer. *)
EndChunk ==
    /\ phase = "post" /\ runs = <<>> /\ phase' = "chunks"
    /\ dropped' = dropped \cup refused
    /\ safe' = safe \cup here
    /\ UNCHANGED <<call, chunks, chunk, runs, refused, retry, answer, sent, gone,
                   landed, here, blamed, skipped>>

Return ==
    /\ phase = "chunks" /\ chunks = <<>> /\ phase' = "answer"
    /\ answer' = "partial"
    /\ UNCHANGED <<call, chunks, chunk, runs, refused, retry, dropped, sent, gone, history>>

----------------------------------------------------------------------------
(* trySend: a PartialError settles the events it does not name for a retry, an  *)
(* index in both lists counts as dropped, and attempts run out.                 *)

Again == IF answer = "partial" THEN SelectSeq(Positions, LAMBDA i : i \in retry \ dropped)
         ELSE IF answer = "final" THEN <<>> ELSE Positions
Lost  == IF answer = "partial" THEN EventsAt(dropped)
         ELSE IF answer = "final" THEN EventsAt(ToSet(Positions)) ELSE {}

Settle ==
    /\ phase = "answer"
    /\ LET left == EventsAt(ToSet(Again))
       IN /\ sent' = IF answer = "partial"
                     THEN sent \cup (EventsAt(ToSet(Positions)) \ (Lost \cup left)) ELSE sent
          /\ IF left # {} /\ attempt < MaxAttempts
             THEN /\ phase' = "call" /\ attempt' = attempt + 1
                  /\ batch' = [k \in 1..Len(Again) |-> batch[Again[k]]]
                  /\ gone' = gone \cup Lost
             ELSE /\ phase' = "done" /\ UNCHANGED <<attempt, batch>>
                  /\ gone' = gone \cup Lost \cup left
    /\ UNCHANGED <<drain, size, tag, chunks, chunk, runs, refused, retry, dropped, answer, history>>

Next ==
    \/ Call \/ TakeChunk \/ Accept \/ Split \/ RefuseOne \/ RefuseSome \/ Items
    \/ Fail \/ EndChunk \/ Return \/ Settle

Spec == Init /\ [][Next]_vars

----------------------------------------------------------------------------
(* Every event of a batch is counted once, as sent or as dropped, and an event  *)
(* counted as sent reached the backend: the chunks, the halves and the retries  *)
(* lose none of them.  The exception is the events a per-item answer inside a   *)
(* halved chunk left behind (skipped), which AllAccounted does not grant.       *)
Accounted ==
    phase = "done" => /\ sent \cup gone = Events /\ sent \cap gone = {}
                      /\ \A e \in sent : landed[e] > 0 \/ e \in skipped

(* pipeline.go, dropPartial: "An event in neither list reached the backend, so  *)
(* it counts as sent."                                                          *)
AllAccounted == phase = "done" => \A e \in sent : landed[e] > 0

(* The chunks that landed are left alone: an event the backend took is posted   *)
(* again only when its own chunk failed, or when the sender gives the pipeline  *)
(* a plain error for the whole batch.                                           *)
LandedLeftAlone ==
    phase = "call" /\ answer = "partial" => EventsAt(ToSet(Positions)) \cap safe = {}

(* splunk.go and cloudwatch.go: the chunks that landed are never sent again.    *)
LandedNotResent ==
    phase = "call" /\ Sender.fails = "rest" => EventsAt(ToSet(Positions)) \cap safe = {}

(* One refusal does not take the batch with it: before the last attempt, the    *)
(* senders that confine a failure drop only events of a refused chunk.          *)
RefusalsConfined ==
    attempt < MaxAttempts /\ phase # "call" /\ Sender.fails = "chunk"
        => gone \cup EventsAt(dropped) \subseteq blamed
=============================================================================
