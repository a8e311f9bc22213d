------------------------------ MODULE SqlDriver -------------------------------
(***************************************************************************)
(* store/sql: database/sql on a driver (side "plain") and on the driver    *)
(* that Wrap or WrapDriver returns for it (side "wrapped"), step by step   *)
(* with the same answers.  database/sql looks at the optional interfaces   *)
(* of what it holds and acts on them, so the wrapper has to show those the *)
(* driver has, or copy what database/sql does without them.                *)
(*                                                                         *)
(* An interface bears the name of its method.  A use of a side is a record *)
(* of the methods of the driver it called (does), what came back (answer), *)
(* and the call records it made (calls).                                   *)
(***************************************************************************)
EXTENDS Naturals, Sequences, SequencesExt

CONSTANTS Drivers,      \* the sets of optional interfaces a driver may have
          Odd,          \* the methods that may answer other than "ok", one a behaviour
          Args,         \* what a statement is given: "value", "named", "special"
          MaxUses, MaxRows

Sides == {"plain", "wrapped"}

VARIABLES
    has, odd,               \* the driver's interfaces; <<method, answer>> of the odd one
    arg, cancelled,         \* the argument; whether the context ends during the first call
    used, open,             \* the uses so far; what the program holds open
    read,                   \* the rows read so far
    did, got, alive,        \* per side: driver calls, answers, whether the pool keeps the connection
    calls, ran              \* the call records; the statements the driver ran
vars == <<has, odd, arg, cancelled, used, open, read, did, got, alive, calls, ran>>

(* What a method of the driver answers.                                          *)
Says(m) == IF m = odd[1] THEN odd[2] ELSE "ok"

Use(does, answer) == [does |-> does, answer |-> answer, calls |-> <<>>]
Just(answer) == Use(<<>>, answer)
Driver(m)    == Use(<<m>>, Says(m))
Joined(a, b) == [does |-> a.does \o b.does, answer |-> b.answer, calls |-> a.calls \o b.calls]
(* b after a went well; b in place of a that answered driver.ErrSkip; b after a. *)
Then(a, b)    == IF a.answer = "ok" THEN Joined(a, b) ELSE a
OrElse(a, b)  == IF a.answer = "skip" THEN Joined(a, b) ELSE a
Finally(a, m) == [a EXCEPT !.does = Append(@, m)]

----------------------------------------------------------------------------
(* The wrapper: its interfaces, and what each of its methods does.               *)

(* Conn, Stmt and Rows wrappers carry these always, those of Follows when the    *)
(* driver does, and none of the others.                                          *)
Always  == {"ExecContext", "QueryContext", "PrepareContext", "BeginTx", "Ping", "CheckNamedValue",
            "Stmt.ExecContext", "Stmt.QueryContext", "Stmt.CheckNamedValue", "ScanType"}
(* Wrong: every connection has a session resetter and a validator.               *)
FollowsNone == {"ColumnConverter", "ScanColumn"}
Follows == {"ResetSession", "IsValid", "ColumnConverter", "ScanColumn"}
OfConn == {"ResetSession", "IsValid"}
Shown == Always \cup (has \cap Follows) \cup (OfConn \ Follows)

Optional(m, otherwise) == IF m \in has THEN Driver(m) ELSE otherwise

Stops == IF cancelled THEN Just("cancelled") ELSE Just("ok")
StopsAnd(m) == IF cancelled THEN Use(<<m>>, "cancelled") ELSE Just("ok")
Positional == IF arg = "named" THEN Just("fail") ELSE Just("ok")

(* endExec: one call record of a statement the driver ran.                       *)
EndExec(use) == [use EXCEPT !.calls = <<[failed |-> use.answer # "ok", rows |-> 0]>>]
(* Wrong: the skipped attempt is recorded too.                                   *)
ExecSkipped(m) == IF m \in has THEN EndExec(Driver(m)) ELSE Just("skip")
Exec(m) == LET use == Driver(m) IN
           IF m \notin has THEN Just("skip") ELSE IF use.answer = "skip" THEN use ELSE EndExec(use)
(* A query ends its call at Rows.Close, unless it failed.                        *)
EndQuery(use) == IF use.answer = "ok" THEN use ELSE EndExec(use)
Query(m) == LET use == Driver(m) IN
            IF m \notin has THEN Just("skip") ELSE IF use.answer = "skip" THEN use ELSE EndQuery(use)

(* Wrong: no check of the context after a plain Prepare.                         *)
PrepareOn == Optional("PrepareContext", Driver("Prepare"))
Prepare == Optional("PrepareContext", Then(Driver("Prepare"), StopsAnd("Stmt.Close")))
BeginTx(mode) ==
    Optional("BeginTx", IF mode # "default" THEN Just("fail")
                        ELSE Then(Driver("Begin"), StopsAnd("Tx.Rollback")))
Ping == Optional("Ping", Just("ok"))
CheckNamedValue == Optional("CheckNamedValue", Just("skip"))
(* Wrong: the statement answers for itself, and hides the checker of the conn.   *)
StmtCheckAlone == Optional("Stmt.CheckNamedValue", Just("skip"))
StmtCheckNamedValue == OrElse(Optional("Stmt.CheckNamedValue", Just("skip")), CheckNamedValue)
StmtExec(m, plain) ==
    IF m \in has THEN EndExec(Driver(m))
    ELSE Then(Positional, Then(Stops, EndExec(Driver(plain))))
StmtQuery(m, plain) ==
    IF m \in has THEN EndQuery(Driver(m))
    ELSE Then(Positional, Then(Stops, EndQuery(Driver(plain))))

Wrapped(m) ==
    CASE m = "ExecContext"          -> Exec(m)
      [] m = "QueryContext"         -> Query(m)
      [] m = "PrepareContext"       -> Prepare
      [] m = "Ping"                 -> Ping
      [] m = "CheckNamedValue"      -> CheckNamedValue
      [] m = "Stmt.CheckNamedValue" -> StmtCheckNamedValue
      [] m = "Stmt.ExecContext"     -> StmtExec(m, "Stmt.Exec")
      [] m = "Stmt.QueryContext"    -> StmtQuery(m, "Stmt.Query")
      [] m = "ScanType"             -> Optional(m, Just("nil"))
      [] OTHER                      -> Optional(m, Just("ok"))

----------------------------------------------------------------------------
(* database/sql, on what a side shows.                                           *)

Has(side, m) == m \in IF side = "plain" THEN has ELSE Shown
Call(side, m) == IF side = "plain" THEN Driver(m) ELSE Wrapped(m)

(* driverArgsConnLocked: one checker, then the column converter, then the       *)
(* default conversion, which knows no special type.                              *)
Default == Just(IF arg = "special" THEN "fail" ELSE "ok")
Checker(side, stmt) ==
    IF stmt /\ Has(side, "Stmt.CheckNamedValue") THEN Call(side, "Stmt.CheckNamedValue")
    ELSE IF Has(side, "CheckNamedValue") THEN Call(side, "CheckNamedValue") ELSE Just("skip")
Converter(side, stmt) ==
    IF stmt /\ Has(side, "ColumnConverter") THEN Call(side, "ColumnConverter") ELSE Just("skip")
Converted(side, stmt) == OrElse(Checker(side, stmt), OrElse(Converter(side, stmt), Default))

Prepared(side) ==
    IF Has(side, "PrepareContext") THEN Call(side, "PrepareContext")
    ELSE Then(Call(side, "Prepare"), StopsAnd("Stmt.Close"))
(* kind: the names of the methods that run a statement in one of two ways.       *)
ExecKind  == [direct |-> "ExecContext", old |-> "Exec", stmt |-> "Stmt.ExecContext", plain |-> "Stmt.Exec"]
QueryKind == [direct |-> "QueryContext", old |-> "Query", stmt |-> "Stmt.QueryContext",
              plain |-> "Stmt.Query"]
OnStmt(side, kind) ==
    Then(Converted(side, TRUE),
         IF Has(side, kind.stmt) THEN Call(side, kind.stmt)
         ELSE Then(Positional, Then(Stops, Call(side, kind.plain))))
Direct(side, kind) ==
    IF Has(side, kind.direct) THEN Then(Converted(side, FALSE), Call(side, kind.direct))
    ELSE IF Has(side, kind.old)
    THEN Then(Converted(side, FALSE), Then(Positional, Then(Stops, Call(side, kind.old))))
    ELSE Just("skip")
Runs(side, kind) ==
    OrElse(Direct(side, kind), Then(Prepared(side), Finally(OnStmt(side, kind), "Stmt.Close")))

Begins(side, mode) ==
    IF side = "wrapped" THEN BeginTx(mode)
    ELSE IF "BeginTx" \in has THEN Driver("BeginTx")
    ELSE IF mode # "default" THEN Just("fail")
    ELSE Then(Driver("Begin"), StopsAnd("Tx.Rollback"))
Pings(side) == IF Has(side, "Ping") THEN Call(side, "Ping") ELSE Just("ok")

(* A context that ends a transaction: the connection stays when it can be reset  *)
(* and validated.                                                                *)
Keeps(side) == Has(side, "ResetSession") /\ Has(side, "IsValid")
Validated(side) == IF Has(side, "IsValid") THEN Call(side, "IsValid") ELSE Just("ok")
Reset(side) == IF Has(side, "ResetSession") THEN Call(side, "ResetSession") ELSE Just("ok")
RollsBack(side) ==
    IF Keeps(side) THEN Joined(Driver("Tx.Rollback"), Then(Validated(side), Reset(side)))
    ELSE Joined(Driver("Tx.Rollback"), Use(<<"Conn.Close">>, "dropped"))

Types(side) == IF Has(side, "ScanType") THEN Call(side, "ScanType") ELSE Just("any")
Results(side) == IF Has(side, "NextResultSet") THEN Call(side, "NextResultSet") ELSE Just("none")
(* Next, or the NextRow of a RowsColumnScanner.                                  *)
NextRow(side) == IF Has(side, "ScanColumn") THEN Call(side, "ScanColumn") ELSE Driver("Next")
Closes(side) == IF Has(side, "Connector.Close") THEN Driver("Connector.Close") ELSE Just("ok")

----------------------------------------------------------------------------
Init ==
    /\ has \in Drivers /\ odd \in Odd \cup {<<"none", "ok">>}
    /\ arg \in Args /\ cancelled \in BOOLEAN
    /\ used = 0 /\ open = "conn" /\ read = 0
    /\ did = [s \in Sides |-> <<>>] /\ got = [s \in Sides |-> <<>>]
    /\ alive = [s \in Sides |-> TRUE]
    /\ calls = <<>> /\ ran = <<>>

Executions == {"ExecContext", "QueryContext", "Stmt.ExecContext", "Stmt.QueryContext", "Stmt.Exec", "Stmt.Query"}
Both(Uses(_)) ==
    /\ used < MaxUses /\ used' = used + 1
    /\ did' = [s \in Sides |-> did[s] \o Uses(s).does]
    /\ got' = [s \in Sides |-> Append(got[s], Uses(s).answer)]
    /\ calls' = calls \o Uses("wrapped").calls
    /\ ran' = ran \o SelectSeq(Uses("wrapped").does, LAMBDA m : m \in Executions
                                   /\ (Says(m) # "skip" \/ m \notin {"ExecContext", "QueryContext"}))
    /\ UNCHANGED <<has, odd, arg, cancelled>>

Executes ==
    /\ open = "conn" /\ LET Uses(s) == Runs(s, ExecKind) IN Both(Uses)
    /\ UNCHANGED <<open, read, alive>>
Queries ==
    /\ open = "conn" /\ LET Uses(s) == Runs(s, QueryKind) IN Both(Uses)
    /\ open' = IF Runs("wrapped", QueryKind).answer = "ok" THEN "rows" ELSE "conn"
    /\ read' = 0 /\ UNCHANGED alive
(* A statement the program prepared itself, run and closed.                      *)
Statement ==
    /\ open = "conn"
    /\ LET Uses(s) == Then(Prepared(s), Finally(OnStmt(s, ExecKind), "Stmt.Close")) IN Both(Uses)
    /\ UNCHANGED <<open, read, alive>>
Begin(mode) ==
    /\ open = "conn" /\ LET Uses(s) == Begins(s, mode) IN Both(Uses)
    /\ open' = IF Begins("wrapped", mode).answer = "ok" THEN "tx" ELSE "conn"
    /\ UNCHANGED <<read, alive>>
CancelTx ==
    /\ open = "tx" /\ LET Uses(s) == RollsBack(s) IN Both(Uses)
    /\ alive' = [s \in Sides |-> RollsBack(s).answer = "ok"]
    /\ open' = "done" /\ UNCHANGED read
PingIt ==
    /\ open = "conn" /\ LET Uses(s) == Pings(s) IN Both(Uses)
    /\ UNCHANGED <<open, read, alive>>
(* Rows.Close ends the call with the rows the program read.                      *)
RowsClose(side) ==
    LET close == Driver("Rows.Close") IN
    IF side = "plain" THEN close
    ELSE [close EXCEPT !.calls = <<[failed |-> close.answer # "ok", rows |-> read]>>]
(* A row that cannot be read closes the rows.                                    *)
Reads(side) ==
    IF NextRow(side).answer = "ok" THEN NextRow(side)
    ELSE [Joined(NextRow(side), RowsClose(side)) EXCEPT !.answer = NextRow(side).answer]
ReadRow ==
    /\ open = "rows" /\ read < MaxRows /\ LET Uses(s) == Reads(s) IN Both(Uses)
    /\ IF Reads("wrapped").answer = "ok" THEN read' = read + 1 /\ UNCHANGED open
                                         ELSE open' = "conn" /\ UNCHANGED read
    /\ UNCHANGED alive
ColumnTypes == open = "rows" /\ LET Uses(s) == Types(s) IN Both(Uses) /\ UNCHANGED <<open, read, alive>>
NextResultSet == open = "rows" /\ LET Uses(s) == Results(s) IN Both(Uses) /\ UNCHANGED <<open, read, alive>>
CloseRows ==
    /\ open = "rows" /\ LET Uses(s) == RowsClose(s) IN Both(Uses)
    /\ open' = "conn" /\ UNCHANGED <<read, alive>>
CloseDB ==
    /\ open = "conn" /\ LET Uses(s) == Closes(s) IN Both(Uses)
    /\ open' = "done" /\ UNCHANGED <<read, alive>>

Next ==
    \/ Executes \/ Queries \/ Statement \/ CancelTx \/ PingIt \/ ReadRow \/ ColumnTypes
    \/ NextResultSet \/ CloseRows \/ CloseDB
    \/ \E mode \in {"default", "readonly"} : Begin(mode)
Spec == Init /\ [][Next]_vars

----------------------------------------------------------------------------
TypeOK == has \in Drivers /\ open \in {"conn", "rows", "tx", "done"} /\ alive \in [Sides -> BOOLEAN]

SameAsPlain ==
    /\ did["wrapped"] = did["plain"] /\ got["wrapped"] = got["plain"]
    /\ alive["wrapped"] = alive["plain"]

(* The drivers for which the wrapper shows nothing else: no interface older than *)
(* a context, nothing the wrapper drops, one checker, and no type of its own     *)
(* that only a statement knows.                                                  *)
Contextual ==
    /\ has \cap {"Exec", "Query", "NextResultSet", "Connector.Close"} = {}
    /\ "ScanType" \in has
    /\ ~{"CheckNamedValue", "Stmt.CheckNamedValue"} \subseteq has
    /\ {"ExecContext", "QueryContext"} \subseteq has \/ (arg # "special" /\ "CheckNamedValue" \notin has)
(* docs/SPEC-track-b.md 14: such a driver sees the same calls and the program    *)
(* the same answers as without the wrapper, cancelled contexts, skips and        *)
(* failures included.                                                            *)
Transparent == Contextual => SameAsPlain

(* sql.go: each statement that ran is one call record, ended once: a query's     *)
(* when its rows close.  A skipped attempt, a prepare and a ping are none.       *)
StatementsRecorded == Len(calls) + (IF open = "rows" THEN 1 ELSE 0) = Len(ran)

DriverTells == Transparent /\ StatementsRecorded

(* What the documents say, and the code does not keep.                           *)

(* docs/SPEC-track-b.md 14: the driver behaves exactly as it does without wlog.  *)
BehavesAsWithout == SameAsPlain
=============================================================================
