---------------------------- MODULE MCCollection ----------------------------
(* A batch input and rising pages with and without a resumption, over answers *)
(* that are in order, repeat a cursor, hold a row that JSON cannot hold or    *)
(* more bytes than allowed; one collection with a fault, or two without.      *)
EXTENDS Collection
CONSTANTS i1, one, two

Bytes(row) == IF row = 3 THEN 2 ELSE 1
Request(rising, committed, bound, resumeAfter) ==
  [input |-> i1, lineage |-> one, rising |-> rising, maxRows |-> 2, maxBytes |-> 3,
   representable |-> TRUE, committed |-> committed, bound |-> bound, resumeAfter |-> resumeAfter]
Batch == Request(FALSE, None, None, None)
AllRequests == {Batch, Request(TRUE, 2, 0, None), Request(TRUE, 2, 1, 1),
                [Request(TRUE, 2, 0, None) EXCEPT !.lineage = two],
                [Batch EXCEPT !.representable = FALSE]}
AllAnswers == {<<>>, <<1, 2, 3>>, <<2, 2>>, <<2, 4>>, <<3, 3>>}
Good == [duplicates |-> FALSE, timestamp |-> "TimestampMicrosecondUtc", id |-> "Int64", fixed |-> TRUE]
AllSchemas == {Good, [Good EXCEPT !.fixed = FALSE], [Good EXCEPT !.duplicates = TRUE],
               [Good EXCEPT !.id = "Int32"]}
=============================================================================
