-------------------------------- MODULE Units --------------------------------
(***************************************************************************)
(* One unit of work around a handler: a served call (rpc/grpc, rpc/connect), *)
(* a command line (command/cobra, urfave, kong), a cloud function (faas/gcf), *)
(* a cron job, and the runs of a work.Ticker.  Each wrapper opens an event  *)
(* with work.Start, and ends it on the way out: by a return, by a panic that *)
(* goes on, or by os.Exit, which runs no deferred function.                 *)
(***************************************************************************)
EXTENDS Naturals

CONSTANTS Wrappers,  \* of the names below
          MaxTicks,  \* firings of a ticker
          None

Served   == {"grpc", "connect"}
Commands == {"cobra", "urfave", "kong"}
Levels   == {"debug", "warn"}          \* the levels a handler names
Outcomes(w) ==
    {"nil", "fault", "panic"}
        \cup (IF w \in Served \cup Commands THEN {"client"} ELSE {})  \* NotFound; a usage fault
        \cup (IF w \in {"urfave", "kong"} THEN {"coder"} ELSE {})     \* an error with its exit code
        \cup (IF w = "kong" THEN {"hook0", "hook1"} ELSE {})          \* kong exits inside Parse

VARIABLES
    wrapper,
    pc,         \* "wait", "handler", "ending", "flush", "leave", "after", "gone"
    outcome,    \* how the handler ended, None before
    code,       \* the exit code the wrapper knows
    level,      \* the level set on the event, None when no one set one
    event,      \* the event that was emitted: its level and exit code, or None
    emitted,    \* how many events this unit emitted
    queued,     \* the drains still hold it
    late,       \* flush gave up after flushTimeout
    left,       \* how control left: "return", "panic", "exit" or None
    exit,       \* the exit code of the process, or None
    tick,       \* the channel of the ticker holds a firing
    skipped     \* what pendingTicks found

(* History: the level the handler named; the firings, the runs, those lost in a  *)
(* full channel, and the skips that an event carries.                            *)
VARIABLES named, fired, runs, lost, told
VARIABLE after      \* the After hook of an urfave command failed by a code of its own

progress == <<wrapper, pc, outcome, code, left, exit, after>>
record   == <<level, named, event, emitted>>
delivery == <<queued, late>>
ticker   == <<tick, skipped, fired, runs, lost, told>>
vars     == <<progress, record, delivery, ticker>>

UnitsAssumption == None # "nil"

Init ==
    /\ wrapper \in Wrappers
    /\ pc = IF wrapper = "ticker" THEN "wait" ELSE "handler"
    /\ outcome = None /\ code = 0 /\ left = None /\ exit = None /\ after = FALSE
    /\ level = None /\ named = None /\ event = None /\ emitted = 0
    /\ queued = FALSE /\ late = FALSE
    /\ tick = FALSE /\ skipped = 0 /\ fired = 0 /\ runs = 0 /\ lost = 0 /\ told = 0

----------------------------------------------------------------------------
(* The ticker of the runtime: a firing that finds one waiting is dropped.        *)
Fire ==
    /\ wrapper = "ticker" /\ fired < MaxTicks /\ pc # "gone"
    /\ fired' = fired + 1 /\ tick' = TRUE
    /\ lost' = lost + IF tick THEN 1 ELSE 0
    /\ UNCHANGED <<progress, record, delivery, skipped, runs, told>>

(* Ticker: a firing starts a run, whose event tells of the skipped one.          *)
Tick ==
    /\ pc = "wait" /\ tick
    /\ pc' = "handler" /\ tick' = FALSE /\ skipped' = 0
    /\ runs' = runs + 1 /\ told' = told + skipped
    /\ outcome' = None /\ level' = None /\ named' = None
    /\ UNCHANGED <<wrapper, code, left, exit, after, event, emitted, delivery, fired, lost>>

(* The handler names a level, and then it ends.                                  *)
Name ==
    /\ pc = "handler" /\ named = None
    /\ \E l \in Levels : level' = l /\ named' = l
    /\ UNCHANGED <<progress, event, emitted, delivery, ticker>>

ExitCode(w, o) == CASE o \in {"nil", "hook0"} -> 0
                    [] o = "client" -> IF w = "kong" THEN 80 ELSE 2
                    [] o = "coder" -> 3
                    [] OTHER -> 1

(* A panic passes through connect, which recovers nothing: no event goes out.    *)
Recovers(w) == w # "connect"

Handle ==
    /\ pc = "handler"
    /\ \E o \in Outcomes(wrapper) :
           /\ outcome' = o
           /\ code' = IF wrapper \in Commands THEN ExitCode(wrapper, o) ELSE 0
           /\ IF o = "panic" /\ ~Recovers(wrapper)
              THEN pc' = "gone" /\ left' = "panic"
              ELSE pc' = "ending" /\ UNCHANGED left
    /\ UNCHANGED <<wrapper, exit, after, record, delivery, ticker>>

----------------------------------------------------------------------------
(* Handle.End after Status or record.  A command sets the level itself when the  *)
(* exit code is that of a usage fault, kong also for its own; without a set      *)
(* level the error decides, and the status class of a served call.               *)
SetByCommand == /\ wrapper \in Commands
                /\ \/ code = 2 /\ outcome # "panic"
                   \/ wrapper = "kong" /\ outcome = "client"

DecidedByStatus == IF outcome = "client" THEN "warn" ELSE "info"  \* mutant: no error

Decided == CASE outcome \in {"nil", "hook0", "hook1"} -> "info"
             [] outcome = "client" /\ wrapper \in Served -> "warn"
             [] OTHER -> "error"

Final == IF SetByCommand THEN "warn" ELSE IF level # None THEN level ELSE Decided

FlushesNone == {"gcf"}                                  \* mutant: commands do not
Flushes == Commands \cup {"gcf"}

EndUnit ==
    /\ pc = "ending"
    /\ event' = [level |-> Final, code |-> code]
    /\ emitted' = emitted + 1 /\ queued' = TRUE
    /\ pc' = IF wrapper \in Flushes THEN "flush" ELSE "leave"
    /\ UNCHANGED <<wrapper, outcome, code, left, exit, after, level, named, late, ticker>>

(* The drains deliver it, on their own or within the budget of the flush.        *)
Deliver ==
    /\ queued /\ pc # "gone" /\ queued' = FALSE
    /\ UNCHANGED <<progress, record, late, ticker>>

Flush ==
    /\ pc = "flush"
    /\ \/ ~queued /\ UNCHANGED late
       \/ queued /\ late' = TRUE
    /\ pc' = "leave"
    /\ UNCHANGED <<wrapper, outcome, code, left, exit, after, record, queued, ticker>>

----------------------------------------------------------------------------
(* pendingTicks: whether a firing came while the run was on. *)
NoTicks      == 0                                       \* mutant
PendingTicks == IF tick THEN 1 ELSE 0

(* os.Exit inside the handler's stack: the hook of kong, and HandleExitCoder.    *)
ExitsInside == \/ outcome \in {"hook0", "hook1"}
               \/ wrapper = "urfave" /\ (outcome = "coder" \/ after)

Leave ==
    /\ pc = "leave"
    /\ IF wrapper = "ticker" /\ outcome # "panic"
       THEN /\ skipped' = PendingTicks
            /\ tick' = FALSE
            /\ pc' = "wait"
            /\ UNCHANGED <<left, exit>>
       ELSE /\ left' = IF outcome = "panic" THEN "panic" ELSE IF ExitsInside THEN "exit" ELSE "return"
            /\ exit' = IF wrapper \in Commands /\ outcome # "panic" THEN code ELSE None
            /\ pc' = "gone"
            /\ UNCHANGED <<skipped, tick>>
    /\ UNCHANGED <<wrapper, outcome, code, after, record, delivery, fired, runs, lost, told>>

(* The After hook runs once the event is out, when the action had failed, and    *)
(* its own exit code is the one the process ends with (urfave).                  *)
AfterFails ==
    /\ pc = "leave" /\ wrapper = "urfave" /\ outcome \in {"fault", "client"} /\ ~after
    /\ after' = TRUE /\ code' = ExitCode(wrapper, "coder")
    /\ UNCHANGED <<wrapper, pc, outcome, left, exit, record, delivery, ticker>>

(* The context of the ticker is done: a skip it found last is told by no event.  *)
Stop ==
    /\ pc = "wait" /\ pc' = "gone" /\ left' = "return"
    /\ UNCHANGED <<wrapper, outcome, code, exit, after, record, delivery, ticker>>

Next == Fire \/ Tick \/ Name \/ Handle \/ EndUnit \/ Deliver \/ Flush \/ Leave
        \/ AfterFails \/ Stop
Spec == Init /\ [][Next]_vars

----------------------------------------------------------------------------
(* Every unit sends out one event before control leaves its wrapper, by a return, *)
(* a panic or an exit; connect lets a panic through without one (work Start, End). *)
EventPerUnit ==
    /\ pc \in {"wait", "gone"} /\ wrapper = "ticker" => emitted = runs
    /\ pc = "gone" /\ wrapper # "ticker" =>
           emitted = IF left = "panic" /\ wrapper = "connect" THEN 0 ELSE 1
    /\ pc = "gone" /\ wrapper \in Commands \cup {"gcf"} => ~queued \/ late

(* The event of a command carries the exit code of the process, and a failure is *)
(* not an info event, unless the handler said so: but for the hook of kong, which *)
(* knows no error, and an After hook that fails later (command record, End).     *)
ExitTells ==
    /\ exit # None => event.code = exit \/ after
    /\ exit \notin {None, 0} /\ named = None /\ outcome # "hook1" => event.level # "info"
    /\ pc = "gone" /\ outcome = "nil" => event.level = IF named = None THEN "info" ELSE named
    /\ pc = "gone" /\ outcome = "panic" /\ emitted = 1 /\ named = None => event.level = "error"

(* A firing of the ticker is a run, or one that an event tells was skipped, or it *)
(* waits; the others met a full channel while a run was on (Ticker).             *)
TicksAccounted ==
    fired = runs + told + skipped + lost + IF tick THEN 1 ELSE 0

(* A panic in a served call emits the event, then goes on.  connect has no recover, *)
(* so the event of the call is lost (rpc/connect unaryServer).                   *)
PanicEmits == left = "panic" => emitted > 0

(* The level a handler names wins.  A usage fault overrides it (command record). *)
NamedLevelWins == wrapper # "ticker" /\ event # None /\ named # None => event.level = named
=============================================================================
