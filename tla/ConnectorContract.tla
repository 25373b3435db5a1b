------------------------- MODULE ConnectorContract --------------------------
(***************************************************************************)
(* What Connector::execute promises its host (dbx-rs-connector-sdk,        *)
(* contract.rs): the batches it sends are the answer in order and without  *)
(* gaps, and it reports success only for a whole page whose counters and   *)
(* truncation flag are true.  An error may come at any time.               *)
(***************************************************************************)
EXTENDS Rows

CONSTANTS MaxRows       \* limits.max_rows
VARIABLES answer,       \* the rows of the query, however many
          cursor,       \* the page is read with a cursor
          sent,         \* the batches handed to the host
          outcome       \* how the call ended, if it has

page == Min({MaxRows, Len(answer)})
rows == FlattenSeq(sent)

Init == sent = <<>> /\ outcome = [is |-> "running"]

Send ==
  /\ outcome.is = "running"
  /\ \E k \in 1 .. page - Len(rows) :
       sent' = Append(sent, SubSeq(answer, Len(rows) + 1, Len(rows) + k))
  /\ UNCHANGED <<answer, cursor, outcome>>

\* With a cursor the first row past the page counts too: it is read to tell truncation.
Finish ==
  /\ outcome.is = "running" /\ Len(rows) = page
  /\ cursor => Ascending(SubSeq(answer, 1, Min({MaxRows + 1, Len(answer)})))
  /\ outcome' = [is |-> "finished", rows_read |-> page,
                 batches_emitted |-> Len(sent), truncated |-> Len(answer) > MaxRows]
  /\ UNCHANGED <<answer, cursor, sent>>

Fail == outcome.is = "running" /\ outcome' = [is |-> "failed"] /\ UNCHANGED <<answer, cursor, sent>>

Next == Send \/ Finish \/ Fail
Spec == Init /\ [][Next]_<<answer, cursor, sent, outcome>>
=============================================================================
