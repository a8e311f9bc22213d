------------------------------- MODULE Capture --------------------------------
(***************************************************************************)
(* middleware/httpcore: what one request event keeps of its request and of *)
(* its response.  A Core is built from a list of options; the requests     *)
(* that run on it share its allow-lists, and a rule of ForRoute applies to *)
(* the response of a request whose route matches.                          *)
(*                                                                         *)
(* A header, a query key and a cookie are a pair <<name, value>>; a host   *)
(* is a name, the one of the network card a connection came from; a path   *)
(* is the sequence of its segments.                                        *)
(***************************************************************************)
EXTENDS Naturals, Sequences, FiniteSets, SequencesExt, FiniteSetsExt

CONSTANTS Servers,      \* the frameworks of this instance
          Setups,       \* a service environment and the list of options of a Core
          Crowds,       \* the lists of requests that may run on one Core
          Answers,      \* what a handler may answer with
          Errors,       \* the error details a handler may refuse a request with
          MaxBody, MaxNames, None

(* How a framework shows a request: whether the size of a body that declares     *)
(* none is known, and whether the adapter asks EchoesRequestID and hands the     *)
(* body of a response on.                                                        *)
NetHTTPView  == [counts |-> FALSE, asks |-> TRUE, answers |-> TRUE]
GinView      == [counts |-> FALSE, asks |-> FALSE, answers |-> FALSE]
FastHTTPView == [counts |-> TRUE, asks |-> FALSE, answers |-> FALSE]
HertzView    == [counts |-> FALSE, asks |-> TRUE, answers |-> FALSE]
View == [nethttp |-> NetHTTPView, gin |-> GinView, fasthttp |-> FastHTTPView, hertz |-> HertzView]

VARIABLES
    server, program, env, core, \* the adapter, its options, and the Core they made
    request, stage,             \* what each request asks, and where it is
    recorded, listed,           \* the event: the fields it keeps, and the errors in order
    reply                       \* what the client got
vars == <<server, program, env, core, request, stage, recorded, listed, reply>>

Asked == DOMAIN request

----------------------------------------------------------------------------
(* Options.                                                                      *)

SafeRequest  == {"accept", "content-type", "x-forwarded-proto"}
SafeResponse == {"content-type", "location"}
Base == [all |-> FALSE, body |-> FALSE, bodySet |-> FALSE, keeps |-> SafeRequest,
         tells |-> SafeResponse, shows |-> {}, proxies |-> {}, types |-> {"json", "form", "text"},
         trusts |-> TRUE, echoes |-> TRUE, skips |-> <<>>, rules |-> <<>>]

(* The hosts a name of TrustedProxies stands for; a typo stands for none.        *)
Covers == [net |-> {"proxy", "edge"}, proxy |-> {"proxy"}, edge |-> {"edge"}, typo |-> {}]

Applied(cfg, option) ==
    LET v == option.arg IN
    CASE option.name = "CaptureAll"             -> [cfg EXCEPT !.all = TRUE, !.body = @ \/ ~cfg.bodySet]
      [] option.name = "CaptureBody"            -> [cfg EXCEPT !.body = v, !.bodySet = TRUE]
      [] option.name = "BodyTypes"              -> [cfg EXCEPT !.types = v]
      [] option.name = "CaptureHeaders"         -> [cfg EXCEPT !.keeps = @ \cup v]
      [] option.name = "CaptureResponseHeaders" -> [cfg EXCEPT !.tells = @ \cup v]
      [] option.name = "CookieValues"           -> [cfg EXCEPT !.shows = @ \cup v]
      [] option.name = "TrustedProxies"         -> [cfg EXCEPT !.proxies = @ \cup Covers[v]]
      [] option.name = "TrustRequestID"         -> [cfg EXCEPT !.trusts = v]
      [] option.name = "EchoRequestID"          -> [cfg EXCEPT !.echoes = v]
      [] option.name = "SkipPaths"              -> [cfg EXCEPT !.skips = Append(@, v)]
      [] option.name = "ForRoute"               -> [cfg EXCEPT !.rules = Append(@, v)]

Local == {"local", "dev", "development"}
(* Wrong: CaptureAll turns bodies on, after CaptureBody(false) too.              *)
NewConfigForgets(where, options) ==
    LET cfg == FoldLeft(Applied, [Base EXCEPT !.all = where \in Local, !.body = where \in Local], options)
    IN [cfg EXCEPT !.body = @ \/ cfg.all]
NewConfig(where, options) ==
    FoldLeft(Applied, [Base EXCEPT !.all = where \in Local, !.body = where \in Local], options)

----------------------------------------------------------------------------
(* Globs and rules.                                                              *)

SegmentMatches(glob, segment) == glob \in {"*", segment}

(* Wrong: ** takes one segment or more.                                          *)
MatchesMore(pattern, target) ==
    LET match[i \in 1..(Len(pattern) + 1), j \in 1..(Len(target) + 1)] ==
            IF i > Len(pattern) THEN j > Len(target)
            ELSE /\ j <= Len(target)
                 /\ \/ (pattern[i] = "**" \/ SegmentMatches(pattern[i], target[j])) /\ match[i + 1, j + 1]
                    \/ pattern[i] = "**" /\ match[i, j + 1]
    IN match[1, 1]
(* Pattern i.. and target j.. match: ** takes any number of segments.            *)
MatchSegments(pattern, target) ==
    LET match[i \in 1..(Len(pattern) + 1), j \in 1..(Len(target) + 1)] ==
            IF i > Len(pattern) THEN j > Len(target)
            ELSE IF pattern[i] = "**"
                 THEN match[i + 1, j] \/ (j <= Len(target) /\ match[i, j + 1])
                 ELSE /\ j <= Len(target) /\ SegmentMatches(pattern[i], target[j])
                      /\ match[i + 1, j + 1]
    IN match[1, 1]

Skips(cfg, path) == \E i \in DOMAIN cfg.skips : MatchSegments(cfg.skips[i], path)

Target(ask) == <<ask.method>> \o ask.route
Matching(ask) ==
    {i \in DOMAIN core.rules : ask.route # <<>> /\ MatchSegments(core.rules[i].pattern, Target(ask))}
RouteConfig(ask) ==
    IF Matching(ask) = {} THEN core
    ELSE FoldLeft(Applied, core, core.rules[Min(Matching(ask))].options)
(* Wrong: the options of a rule write to the lists of the Core.                  *)
Shared(ask) == [core EXCEPT !.keeps = RouteConfig(ask).keeps, !.tells = RouteConfig(ask).tells,
                            !.shows = RouteConfig(ask).shows]
(* The Core after the options of a rule ran: they wrote to a copy of its lists.  *)
Untouched(ask) == core

----------------------------------------------------------------------------
(* What of a request is kept.                                                    *)

Trusted(host) == host \in core.proxies
Readable(host) == host # "unknown"
Remote(ask) == Last(ask.hops)

(* The first X-Forwarded-For line: what the client claimed, and the peer that    *)
(* each proxy saw, which it appends to the line or sends as a line of its own.   *)
Forwarded(ask) == IF ask.ownLines /\ ask.claim # <<>> THEN ask.claim
                  ELSE IF ask.ownLines THEN SubSeq(Front(ask.hops), 1, 1)
                  ELSE ask.claim \o Front(ask.hops)
Outside(line) == {i \in DOMAIN line : Readable(line[i]) /\ ~Trusted(line[i])}
(* Wrong: the header counts whoever sent it.                                     *)
ClientIPClaimed(ask) == IF Outside(Forwarded(ask)) # {} THEN Forwarded(ask)[Max(Outside(Forwarded(ask)))]
                        ELSE Remote(ask)
(* Wrong: the first address of the header.                                       *)
ClientIPFirst(ask) ==
    IF Trusted(Remote(ask)) /\ Outside(Forwarded(ask)) # {}
    THEN Forwarded(ask)[Min(Outside(Forwarded(ask)))]
    ELSE Remote(ask)
ClientIP(ask) ==
    IF Trusted(Remote(ask)) /\ Outside(Forwarded(ask)) # {}
    THEN Forwarded(ask)[Max(Outside(Forwarded(ask)))]
    ELSE Remote(ask)

(* The values of X-Forwarded-Proto and X-Forwarded-Host replace both.            *)
Scheme(ask) == IF Trusted(Remote(ask)) /\ ask.proto # None THEN ask.proto ELSE ask.scheme

Names(pairs) == {pairs[i][1] : i \in DOMAIN pairs}
FirstOf(pairs, name) == pairs[Min({i \in DOMAIN pairs : pairs[i][1] = name})][2]
LastOf(pairs, name)  == pairs[Max({i \in DOMAIN pairs : pairs[i][1] = name})][2]
Kept(all, list, pairs) ==
    [name \in {n \in Names(pairs) : all \/ n \in list} |-> FirstOf(pairs, name)]

(* The names of a set sorted, and cut to the cap: a name is a number here.       *)
SortedNames(names) == {n \in names : Cardinality({m \in names : m < n}) < MaxNames}
Query(ask) == IF core.all THEN [k \in Names(ask.query) |-> FirstOf(ask.query, k)] ELSE <<>>
Masked == "[REDACTED]"
Cookies(ask) ==
    IF ~core.all THEN <<>>
    ELSE [k \in Names(ask.cookies) |-> IF k \in core.shows THEN LastOf(ask.cookies, k) ELSE Masked]

----------------------------------------------------------------------------
(* Bodies.                                                                       *)

Cut(body) == body.size > MaxBody
Marker == "truncated"
(* Wrong: a cut body is parsed like a whole one.                                 *)
BodyValueCut(body) ==
    CASE body.type \in {"json", "form"} -> IF body.parses THEN "parsed" ELSE Marker
      [] body.type = "text"             -> "text"
      [] OTHER                          -> None
BodyValue(body) ==
    CASE body.type \in {"json", "form"} -> IF Cut(body) \/ ~body.parses THEN Marker ELSE "parsed"
      [] body.type = "text"             -> "text"
      [] OTHER                          -> None

CapturesBody(ask) == core.body /\ ask.method # "HEAD " /\ ask.body.type \in core.types
RequestBody(ask) ==
    IF CapturesBody(ask) /\ ask.body.size > 0 /\ ~ask.body.encoded THEN BodyValue(ask.body) ELSE None
CarriesBody(ask, answer) == ask.method # "HEAD " /\ answer.status \notin {204, 304}
ResponseBody(ask, answer) ==
    IF /\ View[server].answers /\ core.body /\ answer.body.size > 0
       /\ CarriesBody(ask, answer) /\ ~answer.body.encoded
    THEN BodyValue(answer.body) ELSE None

ContentLength(ask) == IF ask.declares \/ View[server].counts THEN ask.body.size ELSE None

----------------------------------------------------------------------------
(* The request id, which is the client's when the Core trusts it.                *)

Carried(ask) == IF core.trusts THEN ask.id ELSE None
RequestID(ask) == IF Carried(ask) \in {None, "invalid"} THEN "generated" ELSE Carried(ask)
Echo(ask) == IF core.echoes \/ ~View[server].asks THEN RequestID(ask) ELSE None

----------------------------------------------------------------------------
(* The problem document of an error, and the reader of one.                      *)

Status(info) == IF info.status \in 400..599 THEN info.status ELSE 500
Blank == "about:blank"
(* Wrong: the status is written as it is.                                        *)
ProblemAsIs(info) ==
    [type |-> info.link, status |-> info.status, code |-> info.code, detail |-> info.message,
     link |-> info.link]
ProblemFrom(info) ==
    [type |-> IF info.link # None THEN info.link ELSE Blank, status |-> Status(info),
     code |-> info.code, detail |-> info.message, link |-> info.link]
ParseProblem(document) ==
    [code |-> document.code, message |-> document.detail, status |-> document.status,
     link |-> IF document.type # Blank THEN document.type ELSE document.link]

----------------------------------------------------------------------------
(* One request.                                                                  *)

Nothing == [kind |-> None]
Init ==
    /\ server \in Servers /\ \E setup \in Setups : env = setup[1] /\ program = setup[2]
    /\ core = NewConfig(env, program)
    /\ request \in Crowds
    /\ stage = [r \in Asked |-> "new"]
    /\ recorded = [r \in Asked |-> Nothing]
    /\ listed = [r \in Asked |-> <<>>]
    /\ reply = [r \in Asked |-> Nothing]

Skip(r) ==
    /\ stage[r] = "new" /\ Skips(core, request[r].path)
    /\ stage' = [stage EXCEPT ![r] = "skipped"]
    /\ UNCHANGED <<server, program, env, core, request, recorded, listed, reply>>

WriteRequest(ask) ==
    [kind |-> "request", ip |-> ClientIP(ask), scheme |-> Scheme(ask), length |-> ContentLength(ask),
     id |-> RequestID(ask), headers |-> Kept(core.all, core.keeps, ask.headers),
     keys |-> SortedNames(Names(ask.query)), query |-> Query(ask),
     names |-> SortedNames(Names(ask.cookies)), cookies |-> Cookies(ask), body |-> RequestBody(ask),
     operation |-> "unmatched", status |-> None, error |-> None, told |-> <<>>, answered |-> None]
Start(r) ==
    /\ stage[r] = "new" /\ ~Skips(core, request[r].path)
    /\ recorded' = [recorded EXCEPT ![r] = WriteRequest(request[r])]
    /\ reply' = [reply EXCEPT ![r] = [kind |-> "open", id |-> Echo(request[r])]]
    /\ stage' = [stage EXCEPT ![r] = "handling"]
    /\ UNCHANGED <<server, program, env, core, request, listed>>

(* The handler, or another goroutine on its context, records an error.           *)
RecordError(r) ==
    /\ stage[r] \in {"handling", "refusing"} /\ Len(listed[r]) < 2
    /\ \E info \in Errors : listed' = [listed EXCEPT ![r] = Append(@, info)]
    /\ stage' = [stage EXCEPT ![r] = "refusing"]
    /\ UNCHANGED <<server, program, env, core, request, recorded, reply>>

Answered(r, answer) ==
    /\ reply' = [reply EXCEPT ![r] = [answer EXCEPT !.id = reply[r].id]]
    /\ stage' = [stage EXCEPT ![r] = "answered"]
    /\ UNCHANGED <<server, program, env, core, request, recorded, listed>>
Respond(r) == stage[r] = "handling" /\ \E answer \in Answers : Answered(r, answer)
(* WriteProblem reads the error back from the event once it recorded its own.    *)
WriteProblem(r) ==
    /\ stage[r] = "refusing"
    /\ LET document == ProblemFrom(Last(listed[r])) IN
       Answered(r, [kind |-> "problem", id |-> None, status |-> document.status, document |-> document,
                    headers |-> << <<"content-type", "problem">> >>,
                    body |-> [type |-> "json", size |-> 1, parses |-> TRUE, encoded |-> FALSE]])

(* A template that ends in a star, on a 404 or a 405, is the one of a group.     *)
Route(ask, answer) ==
    IF ask.route # <<>> /\ Last(ask.route) = "*" /\ answer.status \in {404, 405} THEN <<>> ELSE ask.route
Finished(ask, answer) == [ask EXCEPT !.route = Route(ask, answer)]
End(r) ==
    /\ stage[r] = "answered"
    /\ LET answer == reply[r]
           ask    == Finished(request[r], answer)
           cfg    == RouteConfig(ask)
       IN /\ recorded' = [recorded EXCEPT ![r] =
                 [@ EXCEPT !.operation = IF ask.route = <<>> THEN "unmatched" ELSE "matched",
                           !.status = answer.status,
                           !.error = IF listed[r] = <<>> THEN None ELSE Last(listed[r]),
                           !.told = Kept(cfg.all, cfg.tells, answer.headers),
                           !.answered = ResponseBody(ask, answer)]]
          /\ core' = Untouched(ask)
    /\ stage' = [stage EXCEPT ![r] = "ended"]
    /\ UNCHANGED <<server, program, env, request, listed, reply>>

Next == \E r \in Asked :
            Skip(r) \/ Start(r) \/ RecordError(r) \/ Respond(r) \/ WriteProblem(r) \/ End(r)
Spec == Init /\ [][Next]_vars

----------------------------------------------------------------------------
(* What the options say, read off their list and off nothing the Core made.      *)

TypeOK ==
    /\ server \in Servers /\ <<env, program>> \in Setups /\ request \in Crowds
    /\ stage \in [Asked -> {"new", "skipped", "handling", "refusing", "answered", "ended"}]

Started(r) == recorded[r].kind = "request"
Ended(r)   == stage[r] = "ended"
Given(options, name) == {options[i].arg : i \in {j \in DOMAIN options : options[j].name = name}}
Everything(options)  == env \in Local \/ Given(options, "CaptureAll") # {}
Named(options, name) == UNION Given(options, name)
Domain(f) == IF f = <<>> THEN {} ELSE DOMAIN f

(* options.go clientIP: the address of an event is the first host outside the    *)
(* trusted proxies, seen from this server; no claim of the client moves it.      *)
(* Assumed: a proxy appends its peer to the line it was sent.                    *)
Proxies == UNION {Covers[n] : n \in Given(program, "TrustedProxies")}
Origin(ask) ==
    LET out == {i \in DOMAIN ask.hops : ask.hops[i] \notin Proxies} IN ask.hops[Max(out)]
ClientTrue ==
    \A r \in Asked : Started(r) /\ ~request[r].ownLines =>
        /\ recorded[r].ip = Origin(request[r])
        /\ recorded[r].scheme # request[r].scheme => Remote(request[r]) \in Proxies

(* policy.go: an event holds no header, query value or cookie value that neither *)
(* an option, nor the environment, nor the safe defaults asked for.              *)
OnlyAllowed ==
    \A r \in Asked : Started(r) =>
        LET e == recorded[r] IN
        \/ /\ Everything(program)
           /\ \A k \in Domain(e.cookies) : e.cookies[k] = Masked \/ k \in Named(program, "CookieValues")
        \/ /\ Domain(e.headers) \subseteq SafeRequest \cup Named(program, "CaptureHeaders")
           /\ e.query = <<>> /\ e.cookies = <<>>

(* options.go routeConfig: the response headers of an event are those the base   *)
(* options or the first rule of its own route allow, whatever other requests     *)
(* ran on the Core before.                                                       *)
RulesOf(r) == {i \in DOMAIN core.rules :
                  recorded[r].operation = "matched"
                  /\ MatchSegments(core.rules[i].pattern, Target(request[r]))}
RoutesApart ==
    \A r \in Asked : Ended(r) =>
        LET rule == IF RulesOf(r) = {} THEN <<>> ELSE core.rules[Min(RulesOf(r))].options
            options == program \o rule
        IN Domain(recorded[r].told) =
               {n \in Names(reply[r].headers) :
                   \/ Everything(options) \/ n \in SafeResponse
                   \/ n \in Named(options, "CaptureResponseHeaders")}

(* body.go: a body is on the event only when an option or the environment asked  *)
(* for bodies; one that was cut or does not parse leaves its size and no text.   *)
Wanted == IF Given(program, "CaptureBody") # {}
          THEN LET last == Max({i \in DOMAIN program : program[i].name = "CaptureBody"})
               IN program[last].arg
          ELSE Everything(program)
Whole(value, body) == value = "parsed" => body.size <= MaxBody /\ body.parses
BodiesTrue ==
    \A r \in Asked :
        /\ Started(r) =>
               /\ recorded[r].body # None => Wanted /\ ~request[r].body.encoded
               /\ Whole(recorded[r].body, request[r].body)
        /\ Ended(r) =>
               /\ recorded[r].answered # None => Wanted /\ reply[r].status \notin {204, 304}
               /\ Whole(recorded[r].answered, reply[r].body)

(* problem.go: a refusal answers with an error its event lists; the status of    *)
(* the event is the one of the document; and what a reader makes of it is the    *)
(* error again.                                                                  *)
ProblemTold ==
    \A r \in Asked : Ended(r) /\ reply[r].kind = "problem" =>
        LET info == ParseProblem(reply[r].document) IN
        /\ recorded[r].status = info.status /\ info.status \in 400..599
        /\ \E i \in DOMAIN listed[r] :
              /\ <<info.code, info.message, info.link>> =
                     <<listed[r][i].code, listed[r][i].message, listed[r][i].link>>
              /\ listed[r][i].status \in 400..599 => listed[r][i].status = info.status

(* Skip: a request is skipped exactly when each ** of one of its globs stands    *)
(* for some number of segments and each * for one.                               *)
Stars(glob) == {i \in DOMAIN glob : glob[i] = "**"}
Means(glob, path) ==
    \E at \in [DOMAIN glob -> 0..Len(path)] :
        /\ \A i \in DOMAIN glob :
              LET before == IF i = 1 THEN 0 ELSE at[i - 1] IN
              /\ before <= at[i]
              /\ i \notin Stars(glob) => at[i] = before + 1 /\ glob[i] \in {"*", path[at[i]]}
        /\ at[Len(glob)] = Len(path)
SkipsMean ==
    \A r \in Asked : stage[r] # "new" =>
        (stage[r] = "skipped" <=> \E glob \in Given(program, "SkipPaths") : Means(glob, request[r].path))

(* The id a client reads in the response is the one of its event.                *)
IdsAgree == \A r \in Asked : Started(r) => reply[r].id \in {None, recorded[r].id}

CaptureTells ==
    /\ ClientTrue /\ OnlyAllowed /\ RoutesApart /\ BodiesTrue /\ ProblemTold /\ SkipsMean /\ IdsAgree

(* What the documents say, and the code does not keep.                           *)

(* options.go 246: a client cannot prepend a claim of its own.                   *)
ClaimsIgnored == \A r \in Asked : Started(r) => recorded[r].ip = Origin(request[r])
(* docs/SPEC-http-core.md 122: ForRoute("POST /login", CaptureBody(false)).      *)
BodyOff(options) == \E i \in DOMAIN options : options[i] = [name |-> "CaptureBody", arg |-> FALSE]
RouteRulesApply ==
    \A r \in Asked : Ended(r) /\ RulesOf(r) # {} =>
        (BodyOff(core.rules[Min(RulesOf(r))].options) => recorded[r].body = None)
(* docs/SPEC-http-core.md 136: a body is captured only for BodyTypes.            *)
OnlyBodyTypes ==
    \A r \in Asked : Ended(r) /\ recorded[r].answered # None => reply[r].body.type \in core.types
(* docs/SPEC-http-core.md 130: EchoRequestID(false) turns the header off.        *)
EchoTurnsOff == \A r \in Asked : Started(r) /\ ~core.echoes => reply[r].id = None
=============================================================================
