-------------------------------- MODULE Shape ---------------------------------
(***************************************************************************)
(* store/sqlshape: one pass over a statement that keeps its words and      *)
(* operators and drops its literals and comments, beside the reading of    *)
(* the same text by a server.  What is a literal is for the server to say: *)
(* the pass knows its dialect, and not its settings.                       *)
(*                                                                         *)
(* The statement is a short sequence over the characters that matter.      *)
(* Runs of "?", the byte caps and the repair of UTF-8 are left out.        *)
(***************************************************************************)
EXTENDS Naturals, Integers, Sequences, FiniteSets, FiniteSetsExt

CONSTANTS Dialects,
          Statements    \* [d \in Dialects |-> the texts given under d]

VARIABLES
    dialect, query,
    at, kept,           \* where the pass is, and the positions whose text it copied
    state               \* "scanning", "done", or "stopped" on a doubt
vars == <<dialect, query, at, kept, state>>

Char(i) == IF i \in DOMAIN query THEN query[i] ELSE "end"
Last    == Len(query)

Space  == {" ", "nl"}
Digit  == {"1"}
Letter == {"a", "E"}
IdentStart == Letter
Ident      == Letter \cup Digit \cup {"$"}
Before(i)  == i > 1 /\ Char(i - 1) \in Ident

(* The first position from i on whose character is not in the set.               *)
EndOf(i, set) == Min({j \in i..(Last + 1) : Char(j) \notin set})
LineEnd(i) == Min({j \in i..(Last + 1) : Char(j) \in {"nl", "end"}})
Has(i, j, set) == \E k \in i..j : Char(k) \in set

----------------------------------------------------------------------------
(* endQuote: the position past the closing quote, or 0 when there is none or a   *)
(* backslash makes it doubtful.  A doubled quote is a quote.                     *)

RECURSIVE EndQuote(_, _, _)
EndQuote(i, quote, backslash) ==
    CASE Char(i) = "end" -> 0
      [] Char(i) = "bs" /\ backslash = "stops"   -> 0
      [] Char(i) = "bs" /\ backslash = "escapes" ->
             IF Char(i + 1) = "end" THEN 0 ELSE EndQuote(i + 2, quote, backslash)
      [] Char(i) = quote -> IF Char(i + 1) = quote THEN EndQuote(i + 2, quote, backslash) ELSE i + 1
      [] OTHER -> EndQuote(i + 1, quote, backslash)

(* Wrong: a backslash is a plain character whatever the settings.                *)
ModePlain(plain) == "plain"
Mode(plain) == IF plain THEN "plain" ELSE "stops"
PlainBackslash == dialect \in {"SQLite", "SQLServer"}

(* What the pass does with one token: where it goes on, 0 when it stops, and the *)
(* positions it copies.                                                          *)
Drop(to)     == [to |-> to, keep |-> {}]
Copy(i, to)  == [to |-> to, keep |-> i..(to - 1)]
Stop         == Drop(0)

Closer(c) == IF c = "[" THEN "]" ELSE c
NameQuote(c) ==
    \/ c = "dq" /\ dialect = "Postgres"
    \/ c = "bq"
    \/ c = "[" /\ PlainBackslash
Name(i) == LET end == EndQuote(i + 1, Closer(Char(i)), "plain") IN IF end = 0 THEN Stop ELSE Copy(i, end)
Text(i) == Drop(EndQuote(i + 1, Char(i), Mode(PlainBackslash)))

(* A comment that another database reads as operators may hide a quote.          *)
Line(i) ==
    IF dialect = "Unknown" /\ Has(i, LineEnd(i) - 1, {"sq", "dq"}) THEN Stop ELSE Drop(LineEnd(i))
(* Wrong: MySQL needs no space after the dashes.                                 *)
DashesAlways(i) == Line(i)
Dashes(i) ==
    IF dialect = "MySQL" /\ Char(i + 2) \notin Space \cup {"end"} THEN Copy(i, i + 1) ELSE Line(i)

(* Wrong: the first closer ends the comment.                                     *)
NestsNot == FALSE
Nests == dialect \in {"Postgres", "SQLServer", "Unknown"}
RECURSIVE EndBlock(_, _)
EndBlock(i, depth) ==
    CASE depth = 0 -> i
      [] depth > 0 /\ Char(i) = "end" -> 0
      [] depth > 0 /\ Char(i) = "*" /\ Char(i + 1) = "/" -> EndBlock(i + 2, depth - 1)
      [] depth > 0 /\ Char(i) = "/" /\ Char(i + 1) = "*" /\ Nests ->
             IF dialect = "Unknown" THEN 0 ELSE EndBlock(i + 2, depth + 1)
      [] OTHER -> EndBlock(i + 1, depth)

(* $1, or $tag$ up to the same tag, or a dollar.                                 *)
TagAt(i, from, to) == \A k \in 0..(to - from) : Char(i + k) = Char(from + k)
Dollar(i) ==
    LET j == EndOf(i + 1, Ident \ {"$"})
        k == {n \in (j + 1)..Last : TagAt(n, i, j)}
    IN CASE Char(i + 1) \in Digit -> Drop(EndOf(i + 1, Digit))
         [] Char(i + 1) \notin Digit /\ Char(j) # "$" -> Copy(i, i + 1)
         [] OTHER -> IF k = {} \/ (dialect = "Unknown" /\ Has(j + 1, Min(k) - 1, {"sq", "dq"})) THEN Stop
                     ELSE Drop(Min(k) + (j - i) + 1)

(* scanNumber, and a word that starts with digits.                               *)
EndNumber(i) ==
    LET j == EndOf(i, Digit \cup {"."})
        k == IF Char(j + 1) = "-" THEN j + 2 ELSE j + 1
    IN IF Char(j) = "E" /\ Char(k) \in Digit THEN EndOf(k, Digit) ELSE j
Number(i) ==
    LET j == EndNumber(i) IN IF Char(j) \in IdentStart THEN Copy(i, EndOf(j, Ident)) ELSE Drop(j)

(* E'..' and DATE'..': a prefix of one letter goes with its text.                *)
Word(i) ==
    LET j == EndOf(i, Ident)
        escapes == dialect = "Postgres" /\ j = i + 1 /\ Char(i) = "E"
        end == EndQuote(j + 1, "sq", IF escapes THEN "escapes" ELSE Mode(PlainBackslash))
    IN IF Char(j) = "sq" THEN [to |-> end, keep |-> IF j > i + 1 THEN i..(j - 1) ELSE {}]
       ELSE Copy(i, j)

Token(i) ==
    LET c == Char(i) IN
    CASE c \in Space -> Drop(i + 1)
      [] c = "sq" -> Text(i)
      [] NameQuote(c) -> Name(i)
      [] c = "dq" /\ dialect # "Postgres" -> Text(i)
      [] c = "-" /\ Char(i + 1) = "-" -> Dashes(i)
      [] c = "#" /\ dialect \in {"MySQL", "Unknown"} -> Line(i)
      [] c = "/" /\ Char(i + 1) = "*" -> Drop(EndBlock(i + 2, 1))
      [] c = "$" /\ dialect \in {"Postgres", "Unknown"} /\ ~Before(i) -> Dollar(i)
      [] c \in Digit \/ (c = "." /\ Char(i + 1) \in Digit /\ ~Before(i)) -> Number(i)
      [] c \in IdentStart -> Word(i)
      [] OTHER -> Copy(i, i + 1)

Init ==
    /\ dialect \in Dialects /\ query \in Statements[dialect]
    /\ at = 1 /\ kept = {} /\ state = "scanning"
Scan ==
    /\ state = "scanning" /\ at <= Last
    /\ kept' = kept \cup Token(at).keep
    /\ IF Token(at).to = 0 THEN state' = "stopped" /\ UNCHANGED at
                           ELSE at' = Token(at).to /\ UNCHANGED state
    /\ UNCHANGED <<dialect, query>>
Finish ==
    /\ state = "scanning" /\ at > Last
    /\ state' = "done" /\ UNCHANGED <<dialect, query, at, kept>>
Next == Scan \/ Finish
Spec == Init /\ [][Next]_vars

----------------------------------------------------------------------------
(* The reading of a server, character by character, under its settings: whether  *)
(* a backslash escapes in every text, and whether "..." is a text.               *)

Postgres  == {[is |-> "Postgres", escapes |-> e, texts |-> {"sq"}] : e \in BOOLEAN}
MySQL     == {[is |-> "MySQL", escapes |-> e, texts |-> t] : e \in BOOLEAN, t \in {{"sq"}, {"sq", "dq"}}}
SQLite    == {[is |-> "SQLite", escapes |-> FALSE, texts |-> t] : t \in {{"sq"}, {"sq", "dq"}}}
SQLServer == {[s EXCEPT !.is = "SQLServer"] : s \in SQLite}
Servers == [Postgres |-> Postgres, MySQL |-> MySQL, SQLite |-> SQLite, SQLServer |-> SQLServer,
            Unknown |-> Postgres \cup MySQL \cup SQLite \cup SQLServer]

Names(s) == [Postgres |-> {"dq"}, MySQL |-> {"bq", "dq"}, SQLite |-> {"bq", "dq", "["}, SQLServer |-> {"dq", "["}][s.is]
Foreign(s) == [Postgres |-> {"bq"}, MySQL |-> {"["}, SQLite |-> {}, SQLServer |-> {"bq"}][s.is]
Nested(s) == s.is \in {"Postgres", "SQLServer"}
OpensLine(s, i) ==
    \/ Char(i) = "#" /\ s.is = "MySQL"
    \/ Char(i) = "-" /\ Char(i + 1) = "-" /\ (s.is = "MySQL" => Char(i + 2) \in Space \cup {"end"})
Tag(s, i) == IF s.is = "Postgres" /\ Char(i) = "$" /\ ~Before(i)
             THEN {j \in (i + 1)..Last : Char(j) = "$" /\ ~Has(i + 1, j - 1, {"$"})
                                         /\ \A k \in (i + 1)..(j - 1) : Char(k) \in Ident
                                         /\ (i + 1 < j => Char(i + 1) \notin Digit)}
             ELSE {}

(* The positions of its literals, with Unreadable when it refuses the text.      *)
Unreadable == 0
RECURSIVE Literals(_, _, _)
Literals(s, i, mode) ==
    LET c == Char(i)
        on(to, next) == Literals(s, to, next)
        code == [in |-> "code"]
    IN
    IF i > Last THEN IF mode.in \in {"code", "line"} THEN {} ELSE {Unreadable} ELSE
    CASE mode.in = "code" ->
           (CASE c \in Foreign(s) -> {Unreadable}
              [] c \in s.texts -> on(i + 1, [in |-> "text", q |-> c, escapes |-> s.escapes])
              [] c \in Names(s) \ s.texts -> on(i + 1, [in |-> "name", q |-> Closer(c)])
              [] OpensLine(s, i) -> on(i + 1, [in |-> "line"])
              [] c = "/" /\ Char(i + 1) = "*" -> on(i + 2, [in |-> "block", depth |-> 1])
              [] Tag(s, i) # {} ->
                     LET j == Min(Tag(s, i)) IN on(j + 1, [in |-> "dollar", from |-> i, to |-> j])
              [] c \in IdentStart ->
                     LET j == EndOf(i, Ident) IN
                     IF s.is = "Postgres" /\ j = i + 1 /\ c = "E" /\ Char(j) = "sq"
                     THEN on(j + 1, [in |-> "text", q |-> "sq", escapes |-> TRUE])
                     ELSE on(j, code)
              [] c \in Digit -> LET j == EndNumber(i) IN
                     (IF Char(j) \in Ident THEN {} ELSE i..(j - 1)) \cup on(EndOf(j, Ident), code)
              [] OTHER -> on(i + 1, code))
      [] mode.in = "text" /\ c = mode.q ->
             IF Char(i + 1) = c THEN {i + 1} \cup on(i + 2, mode) ELSE on(i + 1, code)
      [] mode.in = "text" /\ c = "bs" /\ mode.escapes -> {i, i + 1} \cup on(i + 2, mode)
      [] mode.in = "text" /\ c # mode.q /\ ~(c = "bs" /\ mode.escapes) -> {i} \cup on(i + 1, mode)
      [] mode.in = "name" ->
             IF c # mode.q THEN on(i + 1, mode)
             ELSE IF Char(i + 1) = c THEN on(i + 2, mode) ELSE on(i + 1, code)
      [] mode.in = "line" -> on(i + 1, IF c = "nl" THEN code ELSE mode)
      [] mode.in = "block" ->
             IF c = "*" /\ Char(i + 1) = "/"
             THEN on(i + 2, IF mode.depth = 1 THEN code ELSE [mode EXCEPT !.depth = @ - 1])
             ELSE IF c = "/" /\ Char(i + 1) = "*" /\ Nested(s) THEN on(i + 2, [mode EXCEPT !.depth = @ + 1])
             ELSE on(i + 1, mode)
      [] mode.in = "dollar" ->
             IF TagAt(i, mode.from, mode.to) THEN on(i + (mode.to - mode.from) + 1, code)
             ELSE {i} \cup on(i + 1, mode)

----------------------------------------------------------------------------
TypeOK == dialect \in Dialects /\ kept \subseteq 1..Last /\ state \in {"scanning", "done", "stopped"}

(* sqlshape.go 10: the shape never holds a literal, whatever the settings of a   *)
(* server of its dialect.                                                        *)
Holds(s) == Literals(s, 1, [in |-> "code"])
NoLiteral ==
    state # "scanning" =>
        \A s \in Servers[dialect] : Unreadable \in Holds(s) \/ kept \cap Holds(s) = {}
=============================================================================
