-------------------------------- MODULE Preset --------------------------------
(***************************************************************************)
(* preset: the shapes a line can be printed in.  Apply walks a Go map, so  *)
(* its loops take the keys in any order.  The Logger's writer gives it a   *)
(* copy of the event; a drain that encodes with a preset (cloudwatch,      *)
(* elastic) gives it the event that the other drains hold.                 *)
(*                                                                         *)
(* A key is the tuple of its dotted segments and a place the sequence of   *)
(* keys that leads to it, so <<<<"http", "status">>>> is one dotted key    *)
(* and <<<<"http">>, <<"status">>>> a key in an object.  An event maps the *)
(* place of each value to that place; an output maps a place to the places *)
(* its value was made from, {} for a constant.  Of rows that rename alike  *)
(* the tables hold one.  Empty values and the order of keys are left out.  *)
(***************************************************************************)
EXTENDS Naturals, Sequences, FiniteSets, SequencesExt, TLC

CONSTANTS Setups   \* the records [preset, by, renames, given, facts] to play

VARIABLES
    preset, by,     \* which preset, and who calls it: "writer" or "drain"
    renames,        \* Rename's names: [old key -> new key]
    given, facts,   \* the event at the start, and what its values say
    event,          \* the event now, which other drains read
    out, left,      \* the map being built, and what the current loop has still to take
    step,           \* "start", "walk", "keys", "rename", "print", "done", "recovered"
    printed
vars == <<preset, by, renames, given, facts, event, out, left, step, printed>>

ReservedKeys ==
    {"timestamp", "level", "summary", "operation", "kind", "outcome", "duration_ms", "message", "error",
     "event_id", "service", "trace", "http", "rpc", "messaging", "job", "cli", "faas", "user", "geo", "client",
     "host", "deploy", "llm", "audit", "errors", "logs", "calls", "call_stats", "feature_flags", "wlog"}
IsReserved(key) == Len(key) = 1 /\ key[1] \in ReservedKeys
User(p) == ~IsReserved(p[1])

Dotted(p) == FlattenSeq(p)
Split(d)  == [i \in DOMAIN d |-> <<d[i]>>]
Holds(d)  == \E p \in DOMAIN event : Dotted(p) = d
Nested(p) == Len(p) > 1

(* The map f without what lies under a place, what lies under it, and f with a tree *)
(* at a place: a value in the way of the place is replaced by an object.            *)
Without(f, place) == [q \in {q \in DOMAIN f : ~IsPrefix(place, q)} |-> f[q]]
Under(f, place) ==
    [s \in {SubSeq(q, Len(place) + 1, Len(q)) : q \in {q \in DOMAIN f : IsPrefix(place, q)}} |-> f[place \o s]]
PutAll(f, place, tree) ==
    [q \in {place \o s : s \in DOMAIN tree} |-> tree[SubSeq(q, Len(place) + 1, Len(q))]]
    @@ [q \in {q \in DOMAIN f : ~IsPrefix(q, place) /\ ~IsPrefix(place, q)} |-> f[q]]
Put(f, place, from) == PutAll(f, place, <<>> :> from)
Move(f, from, to) == IF DOMAIN Under(f, from) = {} THEN f ELSE PutAll(Without(f, from), to, Under(f, from))
PutEach(f, places, from) == FoldSet(LAMBDA place, g : Put(g, place, from), f, places)

Aside(key) == <<<<"wlog">>, <<"fields">>>> \o Split(key)
FirstOf(ds) == LET there == {i \in DOMAIN ds : Holds(ds[i])} IN
    IF there = {} THEN {} ELSE {Split(ds[CHOOSE i \in there : \A j \in there : i <= j])}
ErrorKind == FirstOf(<<<<"error", "code">>, <<"error", "kind">>, <<"error", "type">>>>)
HasError == \E p \in DOMAIN event : p[1] = <<"error">> /\ Nested(p)

----------------------------------------------------------------------------
(* OTel: the places of one canonical name.                                           *)
Attributes == <<"attributes">>
Attr(d) == {<<Attributes, d>>}
OTelPlaces(d) ==
    CASE d = <<"timestamp">> -> {<<<<"timestamp">>>>}
      [] d = <<"summary">>   -> {<<<<"body">>>>}
      [] d = <<"kind">>      -> {<<<<"event_name">>>>}
      [] d = <<"level">>     -> {<<<<"severity_text">>>>, <<<<"severity_number">>>>}
      [] d = <<"trace", "trace_id">>  -> {<<<<"trace_id">>>>}
      [] d = <<"service", "name">>    -> {<<<<"resource">>, <<"service", "name">>>>}
      [] d = <<"error", "type">>      -> Attr(<<"exception", "type">>)
      [] d = <<"http", "path">>       -> Attr(<<"url", "path">>)
      [] d = <<"http", "request_headers", "referer">> -> Attr(<<"http", "request", "header", "referer">>)
      [] d = <<"http", "host">>       -> Attr(<<"server", "address">>)
                                         \cup (IF "port" \in facts THEN Attr(<<"server", "port">>) ELSE {})
      [] d = <<"messaging", "offset">> ->
             IF "kafka" \in facts THEN Attr(<<"messaging", "kafka", "offset">>) ELSE {}
      [] d \in {<<"error", "code">>, <<"error", "kind">>, <<"rpc", "service">>} -> {}
      [] OTHER -> Attr(d)
OTelFrom(p) ==
    IF Dotted(p) = <<"rpc", "method">> /\ Holds(<<"rpc", "service">>) THEN {Split(<<"rpc", "service">>), p}
    ELSE {p}
OTelTaken == {<<k>> : k \in {"timestamp", "severity_text", "severity_number", "body", "event_name", "trace_id",
                             "span_id", "resource", "attributes"}}
(* Wrong: the user's key stays under its own name too.                               *)
OTelStays(f, key) == f
(* A user's key moves aside, and only its own name is deleted.                       *)
OTelAside(f, key) ==
    Without(PutAll(f, <<Attributes, <<"wlog", "fields">> \o key>>, Under([p \in DOMAIN event |-> {p}], <<key>>)),
            <<Attributes, key>>)

(* ECS: four dotted keys, objects below, and the rest under wlog.                    *)
ECSPlaces(d) ==
    CASE d = <<"timestamp">> -> {<<<<"@timestamp">>>>}
      [] d = <<"level">>     -> {<<<<"log", "level">>>>}
      [] d = <<"summary">>   -> {<<<<"message">>>>}
      [] d = <<"operation">> -> {Split(<<"event", "action">>)}
      [] d \in {<<"outcome">>, <<"duration_ms">>} -> {Split(<<"event">> \o d)}
      [] d \in {<<"error", "type">>, <<"error", "code">>, <<"service", "name">>} -> {Split(d)}
      [] d = <<"trace", "trace_id">>   -> {Split(<<"trace", "id">>)}
      [] d = <<"trace", "request_id">> -> {Split(<<"http", "request", "id">>)}
      [] d = <<"http", "method">>      -> {Split(<<"http", "request", "method">>)}
      [] d = <<"http", "path">>        -> {Split(<<"url", "path">>)}
      [] d = <<"http", "host">>        -> {Split(<<"url", "domain">>)}
                                          \cup (IF "port" \in facts THEN {Split(<<"url", "port">>)} ELSE {})
      [] d[1] = "wlog" -> {Split(d)}
      [] OTHER -> {Split(<<"wlog">> \o d)}

(* GCP: the special fields, and the rest in jsonPayload.                             *)
Payload == <<"jsonPayload">>
Google(s) == <<"logging", "googleapis", "com", s>>
GCPIsError == "error" \in facts /\ HasError
GCPPlaces(d) ==
    CASE d = <<"timestamp">> -> {<<<<"time">>>>}
      [] d = <<"level">>     -> {<<<<"severity">>>>}
      [] d = <<"summary">>   -> {<<<<"message">>>>}
      [] d = <<"trace", "trace_id">>   -> {<<Google("trace")>>}
      [] d \in {<<"kind">>, <<"outcome">>} -> {<<Google("labels"), d>>}
      [] d = <<"trace", "request_id">> -> {<<Google("labels"), <<"request_id">>>>}
      [] d = <<"http", "method">>      -> {<<<<"httpRequest">>, <<"requestMethod">>>>}
      [] d = <<"http", "request_headers", "referer">> -> {<<<<"httpRequest">>, <<"referer">>>>}
      [] d = <<"http", "host">>        -> {<<<<"httpRequest">>, <<"requestUrl">>>>}
      [] d = <<"http", "path">> /\ ~Holds(<<"http", "host">>) -> {<<<<"httpRequest">>, <<"requestUrl">>>>}
      [] d = <<"http", "path">> /\ Holds(<<"http", "host">>) -> {}
      [] d = <<"http", "scheme">>      -> {}
      [] d = <<"error", "stack">>      -> {<<<<"stack_trace">>>>}
      [] d = <<"duration_ms">> /\ "log" \notin facts -> {<<<<"httpRequest">>, <<"latency">>>>}
      [] d = <<"service", "name">> /\ GCPIsError     -> {<<<<"serviceContext">>, <<"service">>>>}
      [] OTHER -> {<<Payload>> \o Split(d)}
UrlFrom == {Split(d) : d \in {d \in {<<"http", "scheme">>, <<"http", "host">>, <<"http", "path">>} : Holds(d)}}
(* Wrong: the url is the host alone.                                                 *)
GCPHost(p) == {p}
GCPFrom(p) == IF Dotted(p) = <<"http", "host">> THEN UrlFrom ELSE {p}
GCPTaken == {<<k>> : k \in {"time", "severity", "message", "stream", "httpRequest", "jsonPayload", "stack_trace",
                            "serviceContext"}}
GCPAside(f, key) == Without(PutAll(f, Aside(key), Under([p \in DOMAIN event |-> {p}], <<key>>)), <<Payload, key>>)

(* Datadog: moves inside the map it was given, one after the other.                  *)
DatadogTaken == {<<k>> : k \in {"message", "status", "service", "dd", "trace_id", "span_id", "evt", "duration",
                                "network", "usr", "logger"}}
DatadogAside(f, key) == Without(PutAll(f, Aside(key), Under(f, <<key>>)), <<key>>)
DatadogService(f) ==
    LET g == Move(f, Split(<<"service", "env">>), Split(<<"dd", "env">>))
        name == Under(g, Split(<<"service", "name">>))
        rest == [s \in DOMAIN Under(g, Split(<<"service">>)) \ {Split(<<"name">>)} |-> Under(g, Split(<<"service">>))[s]]
        h == Without(IF DOMAIN rest = {} THEN g ELSE PutAll(g, Split(<<"wlog", "service">>), rest), Split(<<"service">>))
    IN IF DOMAIN name = {} THEN h ELSE PutAll(h, Split(<<"service">>), name)
DatadogError(f) ==
    LET kind == {q \in DOMAIN f : q \in ErrorKind}
        g == [q \in DOMAIN f \ {Split(<<"error", k>>) : k \in {"code", "kind", "type"}} |-> f[q]]
    IN IF kind = {} THEN g ELSE Put(g, Split(<<"error", "kind">>), UNION {f[q] : q \in kind})
DatadogUrl(f) ==
    IF Split(<<"http", "host">>) \notin DOMAIN f THEN f
    ELSE Put(f, Split(<<"http", "url">>), UNION {f[q] : q \in UrlFrom \cap DOMAIN f})
DatadogMoves ==
    <<<<<<"level">>, <<"status">>>>, <<<<"summary">>, <<"message">>>>,
      <<<<"trace", "trace_id">>, <<"trace_id">>>>, <<<<"trace", "request_id">>, <<"http", "request_id">>>>,
      <<<<"operation">>, <<"evt", "name">>>>, <<<<"outcome">>, <<"evt", "outcome">>>>,
      <<<<"duration_ms">>, <<"duration">>>>, <<<<"user", "id">>, <<"usr", "id">>>>>>
DatadogApply(f) ==
    LET moved == FoldLeft(LAMBDA g, m : Move(g, Split(m[1]), Split(m[2])), DatadogService(f), DatadogMoves)
        path  == Move(DatadogUrl(DatadogError(moved)), Split(<<"http", "path">>), Split(<<"http", "url_details", "path">>))
    IN Put([q \in DOMAIN path \ {Split(<<"http", "scheme">>), Split(<<"http", "host">>)} |-> path[q]],
           Split(<<"logger", "name">>), {})

(* Flat: nested values first; a plain key whose name is taken moves aside.           *)
(* Wrong: the plain key replaces the nested value.                                   *)
FlatReplaces(f, p) == Put(f, <<Dotted(p)>>, {p})
FlatPut(f, p) ==
    IF ~Nested(p) /\ <<Dotted(p)>> \in DOMAIN f THEN Put(f, <<<<"wlog", "fields">> \o p[1]>>, {p})
    ELSE Put(f, <<Dotted(p)>>, {p})
(* EMF: the flat event with its count and directive.                                 *)
EMFApply(f) ==
    IF "log" \in facts THEN f ELSE Put(Put(f, <<<<"error_count">>>>, {}), <<<<"_aws">>>>, {})

----------------------------------------------------------------------------
Init ==
    /\ \E s \in Setups :
          /\ preset = s.preset /\ by = s.by /\ renames = s.renames
          /\ given = s.given /\ facts = s.facts /\ event = [p \in s.given |-> {p}]
    /\ out = <<>> /\ left = {} /\ step = "start" /\ printed = <<>>

Kept == UNCHANGED <<preset, by, renames, given, facts>>
Keys == {p[1] : p \in DOMAIN event}

(* Only Datadog works on the map it was given, which for a drain is the event.  Wrong: *)
(* the flat preset too.                                                              *)
InPlaceFlat == by = "drain" /\ preset \in {"datadog", "flat"}
InPlace == preset = "datadog" /\ by = "drain"
Shares == event' = IF InPlace THEN out' ELSE event

Start ==
    /\ step = "start" /\ step' = "walk"
    /\ out' = CASE preset = "datadog" -> event
                [] preset = "ecs" -> Put(<<>>, <<<<"ecs", "version">>>>, {})
                [] preset = "otel" /\ HasError -> Put(<<>>, <<Attributes, <<"error", "type">>>>, ErrorKind)
                [] preset = "gcp" /\ GCPIsError -> Put(<<>>, <<<<"@type">>>>, {})
                [] OTHER -> <<>>
    /\ left' = CASE preset = "datadog" -> {}
                 [] preset = "ecs" -> {p \in DOMAIN event : ~User(p)}
                 [] OTHER -> DOMAIN event
    /\ UNCHANGED <<event, printed>> /\ Kept

Walk ==
    /\ step = "walk"
    /\ \E p \in left :
          LET d == Dotted(p) IN
          /\ preset \in {"flat", "emf"} /\ ~Nested(p) => \A q \in left : ~Nested(q)
          /\ left' = left \ {p}
          /\ out' = CASE preset = "otel" -> PutEach(out, OTelPlaces(d), OTelFrom(p))
                      [] preset = "ecs"  -> PutEach(out, ECSPlaces(d), {p})
                      [] preset = "gcp"  -> PutEach(out, GCPPlaces(d), GCPFrom(p))
                      [] preset \in {"flat", "emf"} -> FlatPut(out, p)
                      [] preset = "default" -> Put(out, p, {p})
    /\ UNCHANGED <<step, printed>> /\ Shares /\ Kept

(* The user's keys that move aside, in a second loop.                                *)
Taken == [otel |-> OTelTaken, ecs |-> Keys, gcp |-> GCPTaken, datadog |-> DatadogTaken,
          flat |-> {}, emf |-> {}, default |-> {}]
(* Wrong: a name that Datadog reads is not on the list.                              *)
MovesNoStatus == {k \in Keys \cap (Taken[preset] \ {<<"status">>}) : ~IsReserved(k)}
Moves == {k \in Keys \cap Taken[preset] :
             ~IsReserved(k) \/ (preset = "datadog" /\ k = <<"message">>)}
WalkEnds ==
    /\ step = "walk" /\ left = {} /\ step' = "keys"
    /\ left' = Moves
    /\ UNCHANGED <<event, out, printed>> /\ Kept
MoveAside ==
    /\ step = "keys"
    /\ \E k \in left :
          /\ left' = left \ {k}
          /\ out' = CASE preset = "otel" -> OTelAside(out, k)
                      [] preset = "ecs"  -> PutAll(out, <<<<"wlog">>, <<"fields">>, k>>, Under(event, <<k>>))
                      [] preset = "gcp"  -> GCPAside(out, k)
                      [] preset = "datadog" -> DatadogAside(out, k)
    /\ UNCHANGED <<step, printed>> /\ Shares /\ Kept
KeysEnd ==
    /\ step = "keys" /\ left = {} /\ step' = "rename"
    /\ out' = CASE preset = "datadog" -> DatadogApply(out) [] preset = "emf" -> EMFApply(out) [] OTHER -> out
    /\ left' = DOMAIN renames
    /\ UNCHANGED printed /\ Shares /\ Kept

(* Rename: each pair of names, in any order.                                         *)
RenameKey ==
    /\ step = "rename"
    /\ \E from \in left :
          /\ left' = left \ {from}
          /\ out' = IF DOMAIN Under(out, <<from>>) = {} THEN out
                    ELSE PutAll(Without(out, <<from>>), <<renames[from]>>, Under(out, <<from>>))
    /\ UNCHANGED <<step, printed>> /\ Shares /\ Kept
RenamesEnd ==
    /\ step = "rename" /\ left = {} /\ step' = "print"
    /\ UNCHANGED <<event, out, left, printed>> /\ Kept

(* encodeOutput: a preset with no lead keys, the default one, is never applied.      *)
PrintLine ==
    /\ step = "print" /\ step' = "done"
    /\ printed' = IF by = "writer" /\ preset = "default" THEN event ELSE out
    /\ UNCHANGED <<event, out, left>> /\ Kept
(* A preset that panics under the writer's recover leaves the event to be printed.   *)
Panics ==
    /\ by = "writer" /\ preset # "default" /\ step = "walk" /\ step' = "recovered"
    /\ printed' = event
    /\ UNCHANGED <<event, out, left>> /\ Kept

Next == Start \/ Walk \/ WalkEnds \/ MoveAside \/ KeysEnd \/ RenameKey \/ RenamesEnd \/ PrintLine \/ Panics
Spec == Init /\ [][Next]_vars

----------------------------------------------------------------------------
TypeOK ==
    /\ step \in {"start", "walk", "keys", "rename", "print", "done", "recovered"}
    /\ \A f \in {event, out, printed} : \A q \in DOMAIN f : f[q] \subseteq given

(* What the tables leave out: one error kind of three, a scheme without a host, the  *)
(* offset of another broker, a service without its method.                           *)
LeftOut(p) ==
    \/ preset \in {"otel", "datadog"} /\ p \in {Split(<<"error", k>>) : k \in {"code", "kind", "type"}}
       /\ \E q \in given : q \in {Split(<<"error", k>>) : k \in {"code", "kind"}} /\ p # q
    \/ preset \in {"gcp", "datadog"} /\ p = Split(<<"http", "scheme">>) /\ Split(<<"http", "host">>) \notin given
    \/ preset = "otel" /\ p = Split(<<"messaging", "offset">>) /\ "kafka" \notin facts
    \/ preset = "otel" /\ p = Split(<<"rpc", "service">>) /\ Split(<<"rpc", "method">>) \notin given

(* SPEC-core-v2 416: whatever order the loops take, each value of the event that the *)
(* tables keep is in the line.                                                       *)
ValuesKept == step \in {"done", "recovered"} =>
    \A p \in given : LeftOut(p) \/ \E q \in DOMAIN printed : p \in printed[q]

(* SPEC-core-v2 418: no user key stands where a backend reads a field of the preset. *)
Reads ==
    [otel |-> {<<k>> : k \in OTelTaken \ {Attributes}} \cup {<<Attributes, k>> : k \in OTelTaken}
              \cup UNION {OTelPlaces(Dotted(p)) : p \in {p \in given : ~User(p)}},
     gcp |-> {<<k>> : k \in GCPTaken \ {Payload}},
     datadog |-> {<<k>> : k \in DatadogTaken},
     ecs |-> {<<<<k>>>> : k \in {"@timestamp", "message", "event", "http", "url", "trace", "service", "error"}},
     flat |-> {<<Dotted(p)>> : p \in {p \in given : ~User(p)}}, emf |-> {<<<<"error_count">>>>, <<<<"_aws">>>>},
     default |-> {}]
NoneReplaced == step = "done" /\ preset # "default" =>
    \A q \in DOMAIN printed : \A p \in printed[q] :
        User(p) => \A r \in Reads[preset] : ~IsPrefix(r, q)

(* preset.go 13 in the root package: Apply never changes the event.                  *)
EventKept == event = [p \in given |-> {p}]
=============================================================================
