---------------------------- MODULE MCQueryParts ----------------------------
(***************************************************************************)
(* The pure parts of a rising query, each over its own inputs: the check   *)
(* of its text (module SqlScan), its bound and pages (module CursorPages)  *)
(* and the facts of a page in a segment's footer (RecoveryMetadata).  A    *)
(* behaviour is about one part; the variables of the others keep an        *)
(* initial value.                                                          *)
(***************************************************************************)
EXTENDS CursorPages

CONSTANTS
  Cursors, RowCounts, Fingerprints, Identities,  \* see module RecoveryMetadata
  Dialects, Texts(_)                             \* see module SqlScan

VARIABLES
  part,                                          \* the part of this behaviour
  sealed, answered, footer, found,               \* a footer, and the request it answers
  dialect, cursor, text, pos, depth, words, semicolons, verdict

F == INSTANCE RecoveryMetadata WITH request <- answered
S == INSTANCE SqlScan

footerVars == <<sealed, answered, footer, found>>
textVars == <<dialect, cursor, text, pos, depth, words, semicolons, verdict>>
all == <<part, vars, footerVars, textVars>>

PartsInit ==
  /\ part \in {"pages", "footer", "text"}
  /\ IF part = "pages" THEN Init
     ELSE /\ table = {} /\ state = "scanning" /\ returned = <<>>
          /\ request = [spec |-> CHOOSE s \in Specs : ValidSpec(s), committed |-> None,
                        resumeAfter |-> None]
  /\ IF part = "footer" THEN F!Init
     ELSE /\ sealed = CHOOSE m \in F!Metadata : F!Valid(m) /\ m.rows = 0
          /\ answered = [identity |-> CHOOSE i \in Identities : TRUE, committed |-> None,
                         resumeAfter |-> None]
          /\ footer = F!Encode(sealed) /\ found = sealed
  /\ IF part = "text" THEN S!Init
     ELSE /\ dialect = CHOOSE d \in Dialects : TRUE
          /\ cursor = FALSE /\ text = <<>> /\ pos = 1 /\ depth = 0
          /\ words = {} /\ semicolons = {} /\ verdict = "scanning"

PartsNext ==
  \/ part = "pages" /\ Next /\ UNCHANGED <<part, footerVars, textVars>>
  \/ part = "footer" /\ F!Next /\ UNCHANGED <<part, vars, textVars>>
  \/ part = "text" /\ S!Next /\ UNCHANGED <<part, vars, footerVars>>

PartsSpec == PartsInit /\ [][PartsNext]_all

-----------------------------------------------------------------------------
(* The properties of the modules instantiated.                             *)

\* rising_metadata.rs: the footer of a page decodes to what was encoded, its encoding is
\* canonical, and no page passes for the answer to another request.
FooterIsExact == F!FooterIsExact

\* connector/sql.rs: the words a scanner decides on are the executable ones, and what it
\* accepts is one closed statement that leaves paging to the connector.  Excepted are a
\* backslash in PostgreSQL's U&'...' and a line comment that ends a MySQL or Oracle query.
ScannerIsSound == S!ScannerIsSound

-----------------------------------------------------------------------------
(* Bytes of four bits and integers of two bytes.  Pages: rows at both ends of *)
(* the integers and in the middle, and overlaps of zero, one, half a          *)
(* microsecond and more than a timestamp.  Footers: cursors at the ends and   *)
(* at minus one, whose bytes are all ones.  Texts: every text of up to five   *)
(* characters after a SELECT, over alphabets that combine the ways in which   *)
(* each dialect hides text.                                                   *)

Cell(t, i) == [timestamp |-> t, id |-> i]
SampleRows == {Cell(-128, -128), Cell(-128, 127), Cell(-127, 0), Cell(0, -128), Cell(0, 3),
               Cell(126, 127), Cell(127, 127)}
Definition(field, overlap) == [timestampField |-> "at", idField |-> field, overlap |-> overlap]
SampleSpecs == {Definition("id", n) : n \in {0, 2, 3, 254, 510, 512}} \cup {Definition("at", 0)}

SampleCursors == {Cell(-128, -1), Cell(-1, 127), Cell(1, 1)}

Strings(alphabet, n) == UNION {[1 .. k -> alphabet] : k \in 0 .. n}
Alphabets ==
  [mysql |-> {{"'", "-", "/", "*", "N", "L"}, {"'", "\"", "#", "N", "A", ";"}, {"bq", "/", "*", "!", "?", "R"}},
   mssql |-> {{"'", "/", "*", "L", "(", ")"}, {"[", "]", "-", "N", ";", "@"}, {"W", "S", "(", ")", "D", " "}},
   oracle |-> {{"'", "/", "*", ";", "N", "-"}, {"\"", ";", ":", " ", "S", "x"}, {"Q", "'", "[", "]", ";"}},
   postgres |-> {{"'", "E", "\\", "L", "-", "N"}, {"U", "&", "'", "\\", "L"}, {"$", "x", "L", "1", " "}, {"/", "*", "\"", "L", ";"}}]
Sample(d) ==
  UNION {{<<"S", " ">> \o s : s \in Strings(a, 5)} \cup Strings(a, 3) : a \in Alphabets[d]}
=============================================================================
