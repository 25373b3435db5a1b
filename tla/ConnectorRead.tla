--------------------------- MODULE ConnectorRead ----------------------------
(***************************************************************************)
(* What the operations of all database connectors share: the request, the  *)
(* rows fetched and not yet sent, the batches sent, how the call ended,    *)
(* and the properties of it.  Each connector's module extends this one     *)
(* with its own steps.                                                     *)
(*                                                                         *)
(* Simplifications: requests are valid and queries normalized (SqlScan);   *)
(* values other than the cursor's may fail to convert at any batch; a      *)
(* batch of n rows takes Overhead + n or Overhead + 2n bytes.              *)
(***************************************************************************)
EXTENDS Rows

CONSTANTS Tables, Bounds,            \* what is read, and from where
          Addresses,                 \* how many addresses the host has
          MaxRows, MaxBatchRows,     \* limits of the request
          MaxBatchBytes, MaxTotalBytes, Overhead,
          RowWidths,                 \* widths of the row's fields; 0 is unbounded
          FixedBatchBytes, TypedBatchRows

ASSUME LimitsAssumption ==
  /\ MaxRows \in Nat \ {0} /\ MaxBatchRows \in Nat \ {0} /\ TypedBatchRows \in Nat \ {0}
  /\ MaxBatchBytes <= MaxTotalBytes

VARIABLES op, table, bound,          \* the request, and the database
          phase,                     \* where the operation is
          left,                      \* addresses not yet given up
          session,                   \* the connection and its transaction
          pos, previous, pending,    \* rows fetched, last cursor, rows not yet sent
          sent, bytes, truncated,
          receiver,                  \* the host still reads batches
          outcome

request == <<op, table, bound>>
stream == <<pos, previous, pending, sent, bytes, truncated>>

rows_read == Len(FlattenSeq(sent)) + Len(pending)
fetched == Fetched(table, bound, MaxRows)

\* An error has a class and says whether the caller may retry.
Error(class, retryable) == [is |-> "failed", class |-> class, retryable |-> retryable]
Result == [is |-> "finished", rows_read |-> rows_read, batches_emitted |-> Len(sent), truncated |-> truncated]

\* The class of a failed statement, by the first two characters of its SQL state.
SqlStates == {"28", "08", "other"}
StateClass(state) ==
  CASE state = "28" -> "authentication" [] state = "08" -> "protocol" [] OTHER -> "query"

\* Rows a batch may hold: any field of unbounded width makes it one row.
FixedWidth == ~\E k \in DOMAIN RowWidths : RowWidths[k] = 0
RowBytes == Max({1, FoldSeq(+, 0, RowWidths)})

Sizes(n) == {Overhead + n, Overhead + 2 * n}

-----------------------------------------------------------------------------
(* Steps the connectors have in common.                                    *)

\* The connection is dropped with its owner, whatever ended the operation.
End(result) == phase' = "done" /\ session' = "closed" /\ outcome' = result
Fails(errors) == /\ \E e \in errors : End(e)
                 /\ UNCHANGED <<request, left, stream, receiver>>
Moves(from, to) == /\ phase = from /\ phase' = to
                   /\ UNCHANGED <<request, left, session, stream, receiver, outcome>>
Becomes(from, to, state) == /\ phase = from /\ phase' = to /\ session' = state
                            /\ UNCHANGED <<request, left, stream, receiver, outcome>>

\* One round of the loop over the rows: the cursor is looked at before the row limit.
TakeRow(ordered(_), capacity, Failed(_)) ==
  /\ phase = "rows" /\ pos < Len(fetched) /\ ~truncated
  /\ LET row == fetched[pos + 1] IN
       IF bound.cursor /\ ~ordered(row)
       THEN Failed(Error("conversion", FALSE)) /\ UNCHANGED <<stream, left, receiver>>
       ELSE /\ pos' = pos + 1 /\ previous' = IF bound.cursor THEN <<row>> ELSE <<>>
            /\ IF rows_read = MaxRows
               THEN truncated' = TRUE /\ phase' = "rest" /\ UNCHANGED pending
               ELSE /\ pending' = Append(pending, row) /\ UNCHANGED truncated
                    /\ phase' = IF Len(pending') = capacity THEN "emit" ELSE "rows"
            /\ UNCHANGED <<session, sent, bytes, left, receiver, outcome>>
  /\ UNCHANGED request

\* A full batch, or the last one, is encoded and handed to the host.
SendBatch(fits(_), next, Failed(_)) ==
  /\ phase \in {"emit", "rest"} /\ pending # <<>>
  /\ \E size \in Sizes(Len(pending)) :
       IF ~fits(size) THEN Failed(Error("query", FALSE)) /\ UNCHANGED <<stream, left, receiver>>
       ELSE IF receiver = "closed" THEN Failed(Error("internal", FALSE)) /\ UNCHANGED <<stream, left, receiver>>
       ELSE /\ sent' = Append(sent, pending) /\ pending' = <<>> /\ bytes' = bytes + size
            /\ phase' = IF phase = "emit" THEN next ELSE "rest"
            /\ UNCHANGED <<session, pos, previous, truncated, left, receiver, outcome>>
  /\ UNCHANGED request

ReceiverCloses ==
  /\ receiver = "open" /\ op = "execute" /\ phase # "done" /\ receiver' = "closed"
  /\ UNCHANGED <<request, phase, left, session, stream, outcome>>

-----------------------------------------------------------------------------

RequestInit ==
  /\ op \in {"probe", "prepare", "execute"} /\ table \in Tables /\ bound \in Bounds
  /\ pos = 0 /\ previous = <<>> /\ pending = <<>> /\ sent = <<>> /\ bytes = 0 /\ truncated = FALSE
  /\ receiver = "open" /\ outcome = [is |-> "running"]

StreamTypeOK ==
  /\ pos \in 0 .. Len(Answer(table, bound)) /\ Len(previous) <= 1 /\ Len(pending) <= MaxBatchRows
  /\ receiver \in {"open", "closed"} /\ outcome.is \in {"running", "failed", "finished"}

-----------------------------------------------------------------------------
(* Properties of every connector.                                          *)

\* The batches are the answer of the query, in order and without gaps, and a reported
\* result is a whole page with a true truncation flag (ConnectorContract).
Contract == INSTANCE ConnectorContract WITH
  answer <- Answer(table, bound), cursor <- bound.cursor,
  outcome <- IF op # "execute" THEN [is |-> "running"]
             ELSE IF outcome.is = "failed" THEN [is |-> "failed"] ELSE outcome
ImplementsContract == Contract!Spec

\* A row whose cursor has a null is never passed: no page that ends after its place in the
\* order succeeds, even when the row lies below the bound, so no position past it is committed.
NullNeverPassed ==
  outcome.is = "finished" /\ op = "execute" /\ bound.cursor =>
    \A r \in ToSet(table), s \in ToSet(FlattenSeq(sent)) : HasNull(r) => Before(s, r)

\* No batch has more rows than the request allows and none is empty; all of them together
\* keep to its bytes and rows.
LimitsKept ==
  /\ \A k \in DOMAIN sent : Len(sent[k]) \in 1 .. MaxBatchRows
  /\ bytes <= MaxTotalBytes /\ Len(FlattenSeq(sent)) <= MaxRows
=============================================================================
