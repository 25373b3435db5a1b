------------------------------ MODULE SqlScan -------------------------------
(***************************************************************************)
(* The scanners that decide whether a configured query may be collected:   *)
(* connectors/{mysql,mssql,oracle}/src/connector/sql.rs and the query      *)
(* functions of connectors/postgres/src/connector.rs.  Each jumps over     *)
(* quoted text and comments and looks at the words, separators and         *)
(* parameters in between.  They are checked against a reference lexer that *)
(* reads one character at a time.                                          *)
(*                                                                         *)
(* Simplifications: a keyword is one letter (S select, W with, L limit, R  *)
(* a rejected word, D the reserved name); next to another word character   *)
(* it is part of a longer word.  A is the assignment :=, x any other       *)
(* letter, N a line end, bq a back quote; E, U and Q are the letters of    *)
(* the prefixes E', U&' and q'.  Lengths and row limits are left out; the  *)
(* cursor bound is Cursor's.                                               *)
(***************************************************************************)
EXTENDS Naturals, Sequences, SequencesExt, FiniteSets

CONSTANTS
  Dialects,       \* the dialects of this run
  Texts(_)        \* the query texts tried with a dialect

Letter == {"S", "W", "L", "R", "D", "x", "E", "U", "Q"}
Digit == {"1"}
Blank == {" ", "N"}
WordChar == Letter \cup Digit \cup {"$"}

\* How a quote is closed
Closing(quote) == IF quote = "[" THEN "]" ELSE quote

\* Quoted text or a comment that does not end
Stop == 0

VARIABLES dialect, cursor, text, pos, depth, words, semicolons, verdict
vars == <<dialect, cursor, text, pos, depth, words, semicolons, verdict>>

At(t, p) == IF p \in DOMAIN t THEN t[p] ELSE "end"
Is(t, p, a, b) == At(t, p) = a /\ At(t, p + 1) = b

-----------------------------------------------------------------------------
(* Jumps: the position after quoted text or a comment that begins before p, *)
(* or Stop when it does not end.                                            *)

\* skip_quoted, skip_doubled_quote: a doubled quote is text.
QuotedEnd(t, p, quote) ==
  LET end[k \in 1 .. Len(t) + 2] ==
        IF k > Len(t) THEN Stop
        ELSE IF t[k] # quote THEN end[k + 1]
        ELSE IF At(t, k + 1) = quote THEN end[k + 2] ELSE k + 1
  IN end[p]

\* skip_bracket_identifier
BracketEnd(t, p) == QuotedEnd(t, p, "]")

\* quote_identifier, quote_postgres_identifier: quotes inside the name are doubled.
QuoteIdentifier(name, quote) ==
  <<quote>> \o FlattenSeq([k \in DOMAIN name |-> IF name[k] = Closing(quote) THEN <<name[k], name[k]>> ELSE <<name[k]>>])
            \o <<Closing(quote)>>

\* skip_line_comment
LineEnd(t, p) ==
  LET end[k \in 1 .. Len(t) + 2] ==
        IF k > Len(t) THEN Len(t) + 1 ELSE IF t[k] = "N" THEN k + 1 ELSE end[k + 1]
  IN end[p]

\* skip_block_comment of MySQL and MariaDB
FlatEnd(t, p) ==
  LET end[k \in 1 .. Len(t) + 2] ==
        IF k >= Len(t) THEN Stop ELSE IF Is(t, k, "*", "/") THEN k + 2 ELSE end[k + 1]
  IN end[p]

\* skip_block_comment of the others: comments nest.
NestedEnd(t, p) ==
  LET end[k \in 1 .. Len(t) + 2, n \in 0 .. Len(t)] ==
        IF n = 0 THEN k
        ELSE IF k >= Len(t) THEN Stop
        ELSE IF Is(t, k, "/", "*") THEN end[k + 2, n + 1]
        ELSE IF Is(t, k, "*", "/") THEN end[k + 2, n - 1]
        ELSE end[k + 1, n]
  IN end[p, 1]

\* has_escape_string_prefix: E' and also U&'
EscapePrefix(t, p) == At(t, p - 1) = "E" /\ At(t, p - 2) \notin WordChar
UnicodePrefix(t, p) == Is(t, p - 2, "U", "&") /\ At(t, p - 3) \notin WordChar

\* skip_single_quoted: after such a prefix a backslash takes the next character with it.
EscapedEnd(t, p) ==
  LET end[k \in 1 .. Len(t) + 2] ==
        IF k > Len(t) THEN Stop
        ELSE IF t[k] = "\\" THEN end[k + 2]
        ELSE IF t[k] # "'" THEN end[k + 1]
        ELSE IF At(t, k + 1) = "'" THEN end[k + 2] ELSE k + 1
  IN end[p]

\* skip_q_quote: the delimiter after q' closes the text when a quote follows it.
QQuoteEnd(t, p) ==
  LET closing == CASE At(t, p + 2) = "[" -> "]" [] At(t, p + 2) = "(" -> ")" [] OTHER -> At(t, p + 2)
      end[k \in 1 .. Len(t) + 3] ==
        IF k >= Len(t) THEN Stop ELSE IF Is(t, k, closing, "'") THEN k + 2 ELSE end[k + 1]
  IN IF p + 2 > Len(t) THEN Stop ELSE end[p + 3]

\* dollar_quote_delimiter_end, skip_dollar_quoted: $tag$ ... $tag$
DollarEnd(t, p) ==
  LET open == {k \in p + 1 .. Len(t) : /\ t[k] = "$" /\ \A j \in p + 1 .. k - 1 : t[j] \in Letter \cup Digit
                                       /\ At(t, p + 1) \notin Digit}
      close == IF open = {} THEN p ELSE CHOOSE k \in open : TRUE
      tag == SubSeq(t, p, close)
      ends == {k \in close + 1 .. Len(t) : k + Len(tag) - 1 <= Len(t) /\ SubSeq(t, k, k + Len(tag) - 1) = tag}
  IN IF open = {} THEN p + 1
     ELSE IF ends = {} THEN Len(t) + 1
     ELSE Len(tag) + (CHOOSE k \in ends : \A j \in ends : k <= j)

WordEnd(t, p) == CHOOSE k \in p + 1 .. Len(t) + 1 :
                   /\ At(t, k) \notin WordChar
                   /\ \A j \in p .. k - 1 : t[j] \in WordChar

Jump(to) == [do |-> IF to = Stop THEN "reject" ELSE "skip", to |-> to]
Word(t, p) == [do |-> "word", to |-> WordEnd(t, p)]
Reject == [do |-> "reject", to |-> Stop]
Plain(p) == [do |-> "skip", to |-> p + 1]

-----------------------------------------------------------------------------
(* One round of each scanner's loop.                                       *)

MySqlLex(t, p) ==
  CASE t[p] \in {"'", "\"", "bq"} -> Jump(QuotedEnd(t, p + 1, t[p]))
    [] t[p] = "#" -> Jump(LineEnd(t, p + 1))
    [] Is(t, p, "-", "-") /\ At(t, p + 2) \in Blank \cup {"end"} -> Jump(LineEnd(t, p + 2))
    [] Is(t, p, "/", "*") -> IF At(t, p + 2) \in {"!", "+"} THEN Reject ELSE Jump(FlatEnd(t, p + 2))
    [] t[p] \in {";", "?"} -> Reject
    [] t[p] \in Letter -> Word(t, p)
    [] OTHER -> Plain(p)

\* Mutant: comments are taken not to nest.
MssqlLexFlat(t, p) ==
  CASE t[p] \in {"'", "\""} -> Jump(QuotedEnd(t, p + 1, t[p]))
    [] t[p] = "[" -> Jump(BracketEnd(t, p + 1))
    [] Is(t, p, "-", "-") -> Jump(LineEnd(t, p + 2))
    [] Is(t, p, "/", "*") -> Jump(FlatEnd(t, p + 2))
    [] t[p] \in {";", "@"} -> Reject
    [] t[p] = "(" -> [do |-> "open", to |-> p + 1]
    [] t[p] = ")" -> [do |-> "close", to |-> p + 1]
    [] t[p] \in Letter -> Word(t, p)
    [] OTHER -> Plain(p)

MssqlLex(t, p) ==
  CASE t[p] \in {"'", "\""} -> Jump(QuotedEnd(t, p + 1, t[p]))
    [] t[p] = "[" -> Jump(BracketEnd(t, p + 1))
    [] Is(t, p, "-", "-") -> Jump(LineEnd(t, p + 2))
    [] Is(t, p, "/", "*") -> Jump(NestedEnd(t, p + 2))
    [] t[p] \in {";", "@"} -> Reject
    [] t[p] = "(" -> [do |-> "open", to |-> p + 1]
    [] t[p] = ")" -> [do |-> "close", to |-> p + 1]
    [] t[p] \in Letter -> Word(t, p)
    [] OTHER -> Plain(p)

\* scan_executable_text, which reads letter by letter
OracleLex(t, p) ==
  CASE t[p] \in {"'", "\""} -> Jump(QuotedEnd(t, p + 1, t[p]))
    [] Is(t, p, "Q", "'") -> Jump(QQuoteEnd(t, p))
    [] Is(t, p, "-", "-") -> Jump(LineEnd(t, p + 2))
    [] Is(t, p, "/", "*") -> Jump(NestedEnd(t, p + 2))
    [] t[p] = ";" -> [do |-> "semicolon", to |-> p + 1]
    [] t[p] = ":" -> Reject
    [] OTHER -> Plain(p)

\* contains_postgres_pagination_keyword: text that does not end is left to the server.
PostgresLex(t, p) ==
  LET escaped == EscapePrefix(t, p) \/ UnicodePrefix(t, p)
      toEnd(k) == IF k = Stop THEN Len(t) + 1 ELSE k
  IN CASE t[p] = "'" -> Jump(toEnd(IF escaped THEN EscapedEnd(t, p + 1) ELSE QuotedEnd(t, p + 1, "'")))
       [] t[p] = "\"" -> Jump(toEnd(QuotedEnd(t, p + 1, "\"")))
       [] Is(t, p, "-", "-") -> Jump(LineEnd(t, p + 2))
       [] Is(t, p, "/", "*") -> Jump(toEnd(NestedEnd(t, p + 2)))
       [] t[p] = "$" -> Jump(DollarEnd(t, p))
       [] t[p] \in Letter -> Word(t, p)
       [] OTHER -> Plain(p)

Lex(t, p) ==
  CASE dialect = "mysql" -> MySqlLex(t, p)
    [] dialect = "mssql" -> MssqlLex(t, p)
    [] dialect = "oracle" -> OracleLex(t, p)
    [] dialect = "postgres" -> PostgresLex(t, p)

-----------------------------------------------------------------------------
(* What is done with the words.                                            *)

Spelled(t, from, next) == SubSeq(t, from, next - 1)
Words(spelling) == {w \in words : w.spelled = <<spelling>>}
FirstWord == CHOOSE w \in words : \A v \in words : w.at <= v.at
StartsRead == words # {} /\ FirstWord.spelled \in {<<"S">>, <<"W">>}

\* normalize_query, reject_unsafe_tokens
MySqlAccepts ==
  /\ StartsRead /\ Words("R") = {} /\ ~Contains(text, "A")
  /\ cursor => Words("L") = {}

\* normalize_query, reject_unsafe_query: paging words are refused at the top level only;
\* a WITH query needs a top-level SELECT.
MssqlAccepts ==
  /\ depth = 0 /\ Words("R") = {} /\ StartsRead /\ Words("D") = {}
  /\ \A w \in Words("L") : w.depth > 0
  /\ FirstWord.spelled = <<"W">> => \E w \in Words("S") : w.depth = 0

\* first_keyword: blanks and comments may precede it.
FirstCode(t) ==
  LET from[p \in 1 .. Len(t) + 2] ==
        IF p > Len(t) THEN p
        ELSE IF t[p] \in Blank THEN from[p + 1]
        ELSE IF Is(t, p, "-", "-") THEN from[LineEnd(t, p + 2)]
        ELSE IF Is(t, p, "/", "*") /\ NestedEnd(t, p + 2) # Stop THEN from[NestedEnd(t, p + 2)]
        ELSE p
  IN from[1]

\* Position of the one statement separator, which only blanks may follow.
SeparatorAt(t) == IF semicolons = {} THEN Len(t) + 1 ELSE CHOOSE p \in semicolons : TRUE

\* normalize_query
OracleAccepts ==
  LET p == FirstCode(text) IN
  /\ Cardinality(semicolons) <= 1
  /\ \A k \in SeparatorAt(text) + 1 .. Len(text) : text[k] \in Blank
  /\ p < SeparatorAt(text) /\ text[p] \in {"S", "W"} /\ At(text, p + 1) \notin Letter

\* normalize_read_query and reject_cursor_pagination: the keyword is the first character.
PostgresAccepts ==
  /\ text # <<>> /\ Last(text) # ";"
  /\ text[1] \in {"S", "W"} /\ At(text, 2) \notin Letter
  /\ cursor => Words("L") = {}

Accepts ==
  CASE dialect = "mysql" -> MySqlAccepts
    [] dialect = "mssql" -> MssqlAccepts
    [] dialect = "oracle" -> OracleAccepts
    [] dialect = "postgres" -> PostgresAccepts

-----------------------------------------------------------------------------
Trim(t) ==
  LET solid == {k \in DOMAIN t : t[k] \notin Blank}
  IN IF solid = {} THEN <<>>
     ELSE SubSeq(t, CHOOSE k \in solid : \A j \in solid : k <= j, CHOOSE k \in solid : \A j \in solid : k >= j)

\* trim, strip_suffix and trim_end of normalize_read_query; Oracle's scan sees the separator.
Stripped(d, t) ==
  LET trimmed == Trim(t) IN
  IF d # "oracle" /\ trimmed # <<>> /\ Last(trimmed) = ";" THEN Trim(Front(trimmed)) ELSE trimmed

Init ==
  /\ dialect \in Dialects /\ cursor \in BOOLEAN
  /\ \E t \in Texts(dialect) : text = Stripped(dialect, t)
  /\ pos = 1 /\ depth = 0 /\ words = {} /\ semicolons = {} /\ verdict = "scanning"

Scan ==
  /\ verdict = "scanning" /\ pos <= Len(text)
  /\ LET found == Lex(text, pos) IN
       IF found.do = "reject" \/ (found.do = "close" /\ depth = 0)
       THEN verdict' = "rejected" /\ UNCHANGED <<pos, depth, words, semicolons>>
       ELSE /\ pos' = found.to
            /\ depth' = CASE found.do = "open" -> depth + 1 [] found.do = "close" -> depth - 1
                          [] OTHER -> depth
            /\ words' = IF found.do # "word" THEN words
                        ELSE words \cup {[at |-> pos, depth |-> depth, spelled |-> Spelled(text, pos, found.to)]}
            /\ semicolons' = IF found.do = "semicolon" THEN semicolons \cup {pos} ELSE semicolons
            /\ UNCHANGED verdict
  /\ UNCHANGED <<dialect, cursor, text>>

Decide ==
  /\ verdict = "scanning" /\ pos > Len(text)
  /\ verdict' = IF Accepts THEN "accepted" ELSE "rejected"
  /\ UNCHANGED <<dialect, cursor, text, pos, depth, words, semicolons>>

Next == Scan \/ Decide
Spec == Init /\ [][Next]_vars
-----------------------------------------------------------------------------
(* The reference lexer: the mode in which each character is read.          *)

Quotes == [mysql |-> {"'", "\"", "bq"}, mssql |-> {"'", "\"", "["}, oracle |-> {"'", "\""}, postgres |-> {"'", "\""}]
NameQuote == [mysql |-> "bq", mssql |-> "[", postgres |-> "\""]
Code == [in |-> "code", by |-> "", n |-> 0]
Nests == dialect # "mysql"

LineStarts(t, p) ==
  \/ Is(t, p, "-", "-") /\ (dialect = "mysql" => At(t, p + 2) \in Blank \cup {"end"})
  \/ dialect = "mysql" /\ t[p] = "#"

\* PostgreSQL takes a backslash for an escape after E only; in U&'...' a quote ends the text all
\* the same, and what the backslash stands for is settled afterwards.
Escapes(t, p) == dialect = "postgres" /\ t[p] = "'" /\ EscapePrefix(t, p)

\* The mode after reading t[p] in mode m; "half" reads the second character of a pair.
After(t, p, m) ==
  CASE m.in = "half" -> IF m.by = "close" THEN (IF m.n = 0 THEN Code ELSE [m EXCEPT !.in = "block"])
                        ELSE [m EXCEPT !.in = m.by]
    [] m.in = "code" ->
         CASE Escapes(t, p) -> [in |-> "escaped", by |-> "'", n |-> 0]
           [] t[p] \in Quotes[dialect] /\ ~Escapes(t, p) -> [in |-> "quoted", by |-> Closing(t[p]), n |-> 0]
           [] LineStarts(t, p) -> [in |-> "line", by |-> "", n |-> 0]
           [] Is(t, p, "/", "*") -> [in |-> "half", by |-> "block", n |-> 1]
           [] OTHER -> Code
    [] m.in = "line" -> IF t[p] = "N" THEN Code ELSE m
    [] m.in = "block" ->
         CASE Is(t, p, "*", "/") -> [in |-> "half", by |-> "close", n |-> m.n - 1]
           [] Nests /\ Is(t, p, "/", "*") -> [in |-> "half", by |-> "block", n |-> m.n + 1]
           [] OTHER -> m
    [] m.in \in {"quoted", "pair"} ->
         IF m.in = "quoted" /\ t[p] = m.by
         THEN (IF At(t, p + 1) = m.by THEN [m EXCEPT !.in = "pair"] ELSE Code)
         ELSE [m EXCEPT !.in = "quoted"]
    [] m.in \in {"escaped", "taken"} ->
         IF m.in = "taken" THEN [m EXCEPT !.in = "escaped"]
         ELSE IF t[p] = "\\" \/ Is(t, p, "'", "'") THEN [m EXCEPT !.in = "taken"]
         ELSE IF t[p] = "'" THEN Code ELSE m

ModeIn(t) ==
  LET mode[p \in 0 .. Len(t)] == IF p = 0 THEN Code ELSE After(t, p, mode[p - 1])
  IN [p \in 1 .. Len(t) + 1 |-> mode[p - 1]]
Mode == ModeIn(text)

\* A character is executable when it is read as code and opens nothing.
Executable(p) == Mode[p] = Code /\ Mode[p + 1] = Code
ReferenceWords ==
  {p \in DOMAIN text : /\ text[p] \in Letter /\ Executable(p)
                       /\ ~(At(text, p - 1) \in WordChar /\ Mode[p - 1] = Code)}

\* The mode in which the parenthesis is read that closes the query inside the connector's statement:
\* wrap puts it on a line of its own, the others right behind the query.
AtParenthesis ==
  LET before == IF dialect = "mssql" THEN Append(text, "N") ELSE text IN Last(ModeIn(before))
-----------------------------------------------------------------------------
(* Properties.                                                             *)

TypeOK ==
  /\ dialect \in Dialects /\ cursor \in BOOLEAN /\ pos \in 1 .. Len(text) + 1
  /\ depth \in 0 .. Len(text) /\ verdict \in {"scanning", "rejected", "accepted"}
  /\ \A w \in words : w.at \in DOMAIN text /\ w.spelled # <<>>

\* The words a scanner decides on are exactly the words outside quoted text and comments,
\* doubled quotes, escapes and nested comments included: a LIMIT in a string does not
\* refuse a query and a string does not hide one.  The exception is the code's: in U&'...' the
\* scanner takes a backslash for an escape, and may read on where the server's text has ended.
\* (Oracle's scanner collects none; dollar quotes and digits before a letter are tried by
\* CursorOwnsPaging only.)
BackslashInUnicode ==
  dialect = "postgres" /\ Contains(text, "\\") /\ \E p \in DOMAIN text : text[p] = "'" /\ UnicodePrefix(text, p)

WordsAreExecutable ==
  /\ verdict = "accepted" /\ dialect # "oracle" /\ ~Contains(text, "$") /\ ~Contains(text, "1")
  /\ ~BackslashInUnicode
  => {w.at : w \in words} = ReferenceWords

\* An accepted query is one statement that ends where its text ends: no separator outside
\* quotes and comments, and nothing left open that would swallow the closing parenthesis of
\* the statement it is wrapped in, but for a line comment at the end of a MySQL or Oracle query:
\* those connectors append the parenthesis to that line.  PostgreSQL's scan leaves both to the
\* server.
AcceptedIsClosed ==
  verdict = "accepted" /\ dialect # "postgres" /\ ~Contains(text, "Q") =>
    /\ AtParenthesis = Code \/ (dialect \in {"mysql", "oracle"} /\ AtParenthesis.in = "line")
    /\ \A p \in DOMAIN text :
         text[p] = ";" /\ Executable(p) => dialect = "oracle" /\ \A k \in p + 1 .. Len(text) : text[k] \in Blank

\* With a cursor, a query that pages its own rows is refused, so that the page limit and
\* the order are the connector's (a LIMIT behind a backslash in U&'...' excepted).
CursorOwnsPaging ==
  verdict = "accepted" /\ cursor /\ dialect \in {"mysql", "postgres"} /\ ~BackslashInUnicode =>
    ~\E p \in DOMAIN text : text[p] = "L" /\ Executable(p) /\ At(text, p - 1) \notin WordChar
                            /\ At(text, p + 1) \notin WordChar /\ ~Contains(text, "$")

\* A cursor field name, quoted for the statement, is one name to its end whatever
\* characters it has: no part of it is read as SQL.
NameStaysQuoted ==
  pos = 1 /\ dialect \in DOMAIN NameQuote =>
    LET quoted == QuoteIdentifier(text, NameQuote[dialect])
    IN QuotedEnd(quoted, 2, Closing(NameQuote[dialect])) = Len(quoted) + 1

\* What the scanners promise of a query that is accepted, and of the names in it.
ScannerIsSound ==
  TypeOK /\ WordsAreExecutable /\ AcceptedIsClosed /\ CursorOwnsPaging /\ NameStaysQuoted
=============================================================================
