----------------------------- MODULE GatedCursor ----------------------------
(***************************************************************************)
(* What a rising input promises, whatever it does inside: rows of a source *)
(* reach the sink at least once, and the durable cursor passes a row only  *)
(* after the sink has it.                                                  *)
(***************************************************************************)
EXTENDS Naturals

CONSTANT Row      \* positions of rows, positive naturals

VARIABLES
  source,   \* the rows the source holds
  indexed,  \* the rows the sink has accepted at least once
  cursor    \* the durable cursor, 0 before the first commit
gvars == <<source, indexed, cursor>>

Init == source = {} /\ indexed = {} /\ cursor = 0

\* Rows appear in cursor order: a new row lies beyond the cursor and every row present.
Insert ==
  /\ \E r \in Row : /\ r > cursor /\ \A q \in source : r > q
                    /\ source' = source \cup {r}
  /\ UNCHANGED <<indexed, cursor>>

Delete ==
  /\ \E r \in source : source' = source \ {r}
  /\ UNCHANGED <<indexed, cursor>>

\* The sink accepts rows, for the first time or again.
Deliver ==
  /\ \E rows \in SUBSET Row : indexed' = indexed \cup rows
  /\ UNCHANGED <<source, cursor>>

\* The cursor advances over rows the sink has.
Advance ==
  /\ cursor' \in Row /\ cursor' > cursor
  /\ \A r \in source : r <= cursor' => r \in indexed
  /\ UNCHANGED <<source, indexed>>

Next == Insert \/ Delete \/ Deliver \/ Advance

Spec == Init /\ [][Next]_gvars

=============================================================================
