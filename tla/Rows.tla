-------------------------------- MODULE Rows --------------------------------
(***************************************************************************)
(* Rows as a database connector sees them, and what a database answers to  *)
(* the statement a connector wraps around a configured query.  The         *)
(* database is not part of the repository: its answer is modelled from the *)
(* statement text the connectors build.                                    *)
(*                                                                         *)
(* Simplifications: a row is its two cursor values; Null sorts first, as   *)
(* the ORDER BY of every dialect makes it.                                 *)
(***************************************************************************)
EXTENDS Integers, Sequences, SequencesExt, FiniteSets, FiniteSetsExt

Null == -1
Row == [ts : Nat \cup {Null}, id : Nat \cup {Null}]
NoCursor == [cursor |-> FALSE]

\* A bound of a cursor: no value, or rows after (from, when inclusive) a position.
From(ts, id, inclusive) == [cursor |-> TRUE, any |-> FALSE, ts |-> ts, id |-> id, inclusive |-> inclusive]
Unbounded == [cursor |-> TRUE, any |-> TRUE]

HasNull(r) == Null \in {r.ts, r.id}
Before(r, s) == r.ts < s.ts \/ (r.ts = s.ts /\ r.id < s.id)

\* WHERE ts IS NULL OR id IS NULL OR (ts, id) > (?, ?)
Selected(r, bound) ==
  \/ bound.any \/ HasNull(r) \/ Before(bound, r)
  \/ bound.inclusive /\ ~Before(r, bound)

\* The rows of the statement, without its row limit.
Answer(table, bound) ==
  IF ~bound.cursor THEN table
  ELSE SortSeq(SelectSeq(table, LAMBDA r : Selected(r, bound)), Before)

\* The rows a statement with a limit of max_rows + 1 returns.
Fetched(table, bound, max) ==
  SubSeq(Answer(table, bound), 1, Min({max + 1, Len(Answer(table, bound))}))

\* What a cursor page must be before its last position may be committed.
Ascending(rows) ==
  /\ \A k \in DOMAIN rows : ~HasNull(rows[k])
  /\ \A k \in 1 .. Len(rows) - 1 : Before(rows[k], rows[k + 1])
=============================================================================
