----------------------------- MODULE CursorPages ----------------------------
(***************************************************************************)
(* A scan in pages with the bounds of Cursor, at the ends of the integers: *)
(* the request of connector-sdk/src/cursor.rs, answered by a database that *)
(* orders rows by timestamp and identifier (the ORDER BY and WHERE clause  *)
(* every connector wraps around the query).                                *)
(*                                                                         *)
(* Simplifications: the table does not change during the scan.             *)
(***************************************************************************)
EXTENDS Cursor, FiniteSets

CONSTANTS
  Rows,      \* cursors the table may hold
  MaxTable,  \* bound: rows of the table
  Specs,     \* cursor definitions
  PageRows   \* max_rows

VARIABLES
  table,     \* the rows
  request,   \* TimestampIdCursorRequest of the next page
  state,     \* "scanning", "done" or "refused"
  returned   \* the rows of the pages so far, in order
vars == <<table, request, state, returned>>

Init ==
  /\ table \in {t \in SUBSET Rows : Cardinality(t) <= MaxTable}
  /\ request \in [spec: Specs, committed: Rows \cup {None}, resumeAfter: {None}]
  /\ state = "scanning" /\ returned = <<>>

\* Rows in the order of the query.
Sorted(rows) == SetToSortSeq(rows, Before)

\* The scan is refused before or between pages.
Refuse ==
  /\ state = "scanning" /\ ~EffectiveBound(request).ok
  /\ state' = "refused"
  /\ UNCHANGED <<table, request, returned>>

\* A page: the first rows above the bound; the last of them is where the next one resumes.
Page ==
  /\ state = "scanning" /\ EffectiveBound(request).ok
  /\ LET rows == {c \in table : Within(EffectiveBound(request).bound, c)}
         page == SubSeq(Sorted(rows), 1, Min({PageRows, Cardinality(rows)}))
     IN /\ returned' = returned \o page
        /\ IF Cardinality(rows) > PageRows
           THEN request' = [request EXCEPT !.resumeAfter = Last(page)] /\ UNCHANGED state
           ELSE state' = "done" /\ UNCHANGED request
  /\ UNCHANGED table

Next == Refuse \/ Page
Spec == Init /\ [][Next]_vars
-----------------------------------------------------------------------------
TypeOK ==
  /\ table \subseteq Rows /\ state \in {"scanning", "done", "refused"}
  /\ \A k \in DOMAIN returned : IsCursor(returned[k])
  /\ EffectiveBound(request).ok /\ EffectiveBound(request).bound # None =>
       IsCursor(EffectiveBound(request).bound.value)

\* The timestamp, as a mathematical integer, from which rows are wanted again.
Rewound == request.committed.timestamp - Micros(request.spec)

\* What the documentation of effective_bound promises: everything after the committed
\* cursor, and with an overlap everything from that much earlier on, whatever the
\* identifier and however near the ends of the integers the cursor is.
Wanted(c) ==
  \/ request.committed = None
  \/ Before(request.committed, c)
  \/ request.spec.overlap > 0 /\ c.timestamp >= Rewound

\* A finished scan has returned each wanted row exactly once, in order, and no other.
ScanExact ==
  /\ state = "done" => returned = Sorted({c \in table : Wanted(c)})
  /\ \A k \in DOMAIN returned : Wanted(returned[k])

\* A scan is refused only for its definition or because the overlap reaches below the
\* smallest timestamp, and then before its first page: a page never ends where the next
\* one may not resume.
RefusedAtOnce ==
  /\ state = "refused" => /\ returned = <<>>
                          /\ ~ValidSpec(request.spec) \/ Rewound < MinInt64
  /\ state = "done" => ValidSpec(request.spec)

\* What effective_bound promises of a scan in pages, at the ends of the integers too.
PagesAreExact == TypeOK /\ ScanExact /\ RefusedAtOnce
=============================================================================
