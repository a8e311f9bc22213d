------------------------------ MODULE Startup -------------------------------
(***************************************************************************)
(* How a Logger starts: setup.FromEnv reads the environment and builds a    *)
(* drain per name of WLOG_DRAINS (setup/setup.go, vars.go), New runs its    *)
(* options (wlog.go), and the problem reporter (problem.go) keeps what is   *)
(* reported until there is a handler, then counts and hands on each report. *)
(***************************************************************************)
EXTENDS Naturals, Sequences, FiniteSets, SequencesExt

CONSTANTS Builtins, Extras,    \* factories: [name, vars], of setup and of With
          Variables,           \* the environment variables
          WishLists,           \* the values of WLOG_DRAINS: sequences of names
          OptionLists,         \* the options of New: "fromenv" and "onproblem", in order
          Reporters,           \* goroutines that report once the Logger is built
          MaxReports, MaxMinutes   \* bounds

VARIABLES
    env,         \* the variables that hold a value
    wish,        \* WLOG_DRAINS
    next,        \* how many of its names are resolved
    built,       \* resolution.drains: the factories' names and origins
    problems,    \* resolution.problems: code and the name it is about
    options,     \* the options of New still to run
    queue,       \* reports an option or setHandler is delivering
    handler,     \* "nil", "user", "default"
    pending,     \* reports without a handler
    counts,      \* reports per code
    hand,        \* of New and of each reporter: the counted report it holds for the handler
    recent       \* the default handler's codes of the last minute

(* History: the reports made, those the handler was called with, the codes whose *)
(* line is out, the codes that were counted before a handler was there, minutes.  *)
VARIABLES made, handled, printed, minutes

resolution == <<env, wish, next, built, problems>>
reporter   == <<handler, pending, counts, hand, recent>>
history    == <<made, handled, printed, minutes>>
vars       == <<resolution, options, queue, reporter, history>>

Codes    == {"invalid", "disabled", "other"}
New      == "new"
Tellers  == Reporters \cup {New}
Nothing  == [code |-> "none", id |-> 0, count |-> 0]

Init ==
    /\ env \in SUBSET Variables /\ wish \in WishLists /\ options \in OptionLists
    /\ next = 0 /\ built = <<>> /\ problems = <<>> /\ queue = <<>>
    /\ handler = "nil" /\ pending = <<>> /\ counts = [c \in Codes |-> 0]
    /\ hand = [t \in Tellers |-> Nothing] /\ recent = {}
    /\ made = 0 /\ handled = {} /\ printed = [c \in Codes |-> 0] /\ minutes = 0

----------------------------------------------------------------------------
(* resolve *)

(* byName: a later factory of the same name replaces an earlier one. *)
Factories    == Extras \o Builtins
FactoryOf(n) == LET at == {i \in 1..Len(Factories) : Factories[i].name = n}
                IN  Factories[CHOOSE i \in at : \A k \in at : k <= i]
Known(n)     == \E f \in Range(Factories) : f.name = n

(* first: the name itself, then its aliases. *)
NameOnly(v)   == v.names[1] \in env                    \* mutant: an alias is not read
HasValue(v)   == \E i \in DOMAIN v.names : v.names[i] \in env
Missing(f)    == {v \in f.vars : v.required /\ ~HasValue(v)}

Turned(code, n) == /\ problems' = Append(problems, [code |-> code, about |-> n])
                   /\ UNCHANGED built

(* One name of WLOG_DRAINS; a factory's New may refuse what it is given. *)
ResolveName ==
    /\ next < Len(wish) /\ next' = next + 1
    /\ LET n == wish[next'] IN
       \/ ~Known(n) /\ Turned("invalid", n)
       \/ Known(n) /\ Missing(FactoryOf(n)) # {} /\ Turned("disabled", n)
       \/ /\ Known(n) /\ Missing(FactoryOf(n)) = {}
          /\ \/ FactoryOf(n).mayFail /\ Turned("disabled", n)
             \/ built' = Append(built, FactoryOf(n)) /\ UNCHANGED problems
    /\ UNCHANGED <<env, wish, options, queue, reporter, history>>

----------------------------------------------------------------------------
(* The problem reporter *)

(* deliver: the report waits, or it is counted under the lock and handed on after. *)
Deliver(t, r) ==
    /\ hand[t] = Nothing
    /\ IF handler = "nil"
       THEN pending' = Append(pending, r) /\ UNCHANGED <<counts, hand>>
       ELSE /\ counts' = [counts EXCEPT ![r.code] = @ + 1]
            /\ hand' = [hand EXCEPT ![t] = [r EXCEPT !.count = counts'[r.code]]]
            /\ UNCHANGED pending

(* The handler is called outside the lock; the default one writes a line per code and minute. *)
MayPrintAlways(c) == TRUE                              \* mutant: no limit
MayPrint(c)       == c \notin recent
CallHandler(t) ==
    /\ hand[t] # Nothing
    /\ handled' = handled \cup {hand[t]}
    /\ hand' = [hand EXCEPT ![t] = Nothing]
    /\ LET c == hand[t].code IN
       IF handler = "default" /\ MayPrint(c)
       THEN recent' = recent \cup {c} /\ printed' = [printed EXCEPT ![c] = @ + 1]
       ELSE UNCHANGED <<recent, printed>>
    /\ UNCHANGED <<resolution, options, queue, handler, pending, counts, made, minutes>>

(* setHandler: what waited is taken out under the lock and delivered after it. *)
KeepsWaiting == pending                                \* mutant: what waited is not taken out
TakenOut     == <<>>
SetHandler(h) ==
    /\ handler' = h
    /\ queue' = queue \o pending
    /\ pending' = TakenOut
    /\ UNCHANGED <<counts, hand, recent>>

----------------------------------------------------------------------------
(* New *)

Resolved == next = Len(wish)
Busy     == queue # <<>> \/ hand[New] # Nothing
Report(p, id) == [code |-> p.code, id |-> id, count |-> 0]

(* FromEnv adds the drains and reports each drain it turned off. *)
RunFromEnv ==
    /\ Resolved /\ ~Busy /\ options # <<>> /\ Head(options) = "fromenv"
    /\ options' = Tail(options)
    /\ queue' = [i \in DOMAIN problems |-> Report(problems[i], made + i)]
    /\ made' = made + Len(problems)
    /\ UNCHANGED <<resolution, reporter, handled, printed, minutes>>

RunOnProblem ==
    /\ Resolved /\ ~Busy /\ options # <<>> /\ Head(options) = "onproblem"
    /\ options' = Tail(options)
    /\ SetHandler("user")
    /\ UNCHANGED <<resolution, history>>

DeliverNext ==
    /\ queue # <<>>
    /\ Deliver(New, Head(queue))
    /\ queue' = Tail(queue)
    /\ UNCHANGED <<resolution, options, handler, recent, history>>

(* flush: the default handler takes over when the caller set none. *)
Flush ==
    /\ Resolved /\ ~Busy /\ options = <<>>
    /\ handler = "nil" \/ pending # <<>>
    /\ SetHandler(IF handler = "nil" THEN "default" ELSE handler)
    /\ UNCHANGED <<resolution, options, history>>

(* The Logger is built: any goroutine reports. *)
Running == Resolved /\ ~Busy /\ options = <<>> /\ handler # "nil"
Reports(t, code) ==
    /\ Running /\ made < MaxReports
    /\ made' = made + 1
    /\ Deliver(t, [code |-> code, id |-> made', count |-> 0])
    /\ UNCHANGED <<resolution, options, queue, handler, recent, handled, printed, minutes>>

Minute ==
    /\ Running /\ minutes < MaxMinutes
    /\ minutes' = minutes + 1 /\ recent' = {}
    /\ UNCHANGED <<resolution, options, queue, handler, pending, counts, hand, made, handled, printed>>

Next == \/ ResolveName \/ RunFromEnv \/ RunOnProblem \/ DeliverNext \/ Flush \/ Minute
        \/ \E t \in Tellers : CallHandler(t)
        \/ \E t \in Reporters, code \in Codes : Reports(t, code)

Spec == Init /\ [][Next]_vars

----------------------------------------------------------------------------
(* Properties *)

InHand == {hand[t] : t \in Tellers} \ {Nothing}

(* setup.FromEnv: "reports every drain it turned off".  Each name asked for is a drain or *)
(* one report, in order; and a drain whose required variables have a value, under their  *)
(* own name or an alias, is never off for a missing one.                                  *)
OneOf(n) == /\ Known(n)
            /\ \A v \in FactoryOf(n).vars : v.required => Range(v.names) \cap env # {}
NamesAnswered ==
    /\ Len(built) + Len(problems) = next
    /\ \A i \in 1..Len(built) : OneOf(built[i].name)
    /\ \A i \in 1..Len(problems) : OneOf(problems[i].about) => FactoryOf(problems[i].about).mayFail

(* "A report that arrives before a handler exists waits in the queue": each report is     *)
(* waiting, in a goroutine's hand or handled, in exactly one of these; once the Logger is *)
(* built none waits; and the counts the handler was told are 1, 2, 3, ... of each code.   *)
ReportedOnce ==
    LET waiting == Range(queue) \cup Range(pending)
        ids(S)  == {r.id : r \in S}
    IN  /\ ids(waiting) \cup ids(InHand) \cup ids(handled) = 1..made
        /\ Len(queue) + Len(pending) + Cardinality(InHand) + Cardinality(handled) = made
        /\ Running => pending = <<>>
        /\ \A c \in Codes : {r.count : r \in {x \in handled \cup InHand : x.code = c}} = 1..counts[c]

(* The default handler: "at most one line per code per minute", and no code that fires    *)
(* goes unheard.                                                                          *)
LimitedNotLost == handler = "default" =>
    \A c \in Codes : /\ printed[c] <= minutes + 1
                     /\ (\E r \in handled : r.code = c) => printed[c] > 0

----------------------------------------------------------------------------
(* What the comments say, and the code does not keep *)

(* With: "A name here wins over a built-in of the same name." *)
WithWins == \A i \in DOMAIN built :
    (\E f \in Range(Extras) : f.name = built[i].name) => built[i] \in Range(Extras)
=============================================================================
