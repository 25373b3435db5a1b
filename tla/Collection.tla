----------------------------- MODULE Collection -----------------------------
(***************************************************************************)
(* One collection of an input, from the query to a sealed segment:         *)
(* run_input of crates/dbx-rs-daemon/src/worker.rs over collect_json_rows  *)
(* of crates/dbx-rs-native-connectors/src/lib.rs.  Four activities run     *)
(* concurrently: the connector, which is not trusted, sends batches of     *)
(* rows; the host checks them and turns them into lines; the worker writes *)
(* the lines to a segment; and cancellation or a deadline may end it all.  *)
(*                                                                         *)
(* Simplifications: a row is its cursor position, or Null; a schema is     *)
(* what the host checks of it; the byte length of a line depends on the    *)
(* row only; identifiers that are hashes are their preimages.              *)
(***************************************************************************)
EXTENDS Naturals, Sequences, SequencesExt, FiniteSets

CONSTANTS
  Requests,       \* collection requests
  Answers,        \* what the database may answer: sequences of rows
  Schemas,        \* what prepare may report
  LineBytes(_),   \* length of a row's line with its newline
  Unprintable,    \* rows whose values JSON cannot hold
  Null,           \* a row whose cursor columns are null
  None,           \* no position
  IpcCapacity, RowCapacity,  \* the channels
  MaxFixedRows,   \* MAX_FIXED_BATCH_VALUE_BYTES over the row width, at most MAX_BATCH_ROWS
  MaxSpent        \* bound: collections, deviations of the connector and failed file operations

Row == {Null} \cup UNION {Range(a) : a \in Answers}
Position == Nat \cup {None}
Failure == {"own", "receiver", "cancelled"}
Outcome == {"ok", "empty", "spool", "host", "connector", "cancelled", "timeout", "accounting", "metadata"}

ASSUME CollectionAssumption ==
  /\ \A r \in Requests : /\ r.rising \in BOOLEAN /\ r.maxRows \in Nat /\ r.maxBytes \in Nat
                         /\ {r.committed, r.bound, r.resumeAfter} \subseteq Position
  /\ Answers \subseteq Seq(Row) /\ Row \subseteq Nat \cup {Null}
  /\ \A row \in Row : LineBytes(row) \in Nat
  /\ IpcCapacity \in Nat /\ RowCapacity \in Nat /\ MaxFixedRows \in Nat
  /\ Null \notin Nat /\ None \notin Nat /\ None # Null /\ None \notin Failure \cup Outcome
  /\ None \notin [cause: Outcome] \cup
                [cause: {None}, rows: Nat, truncated: BOOLEAN, candidate: Position, resume: Position]

VARIABLES
  request,    \* the request of this attempt
  answer,     \* the rows the query has, those not sent yet
  conn,       \* the connector: its state, what it has sent and reports
  ipc,        \* the batch channel
  mat,        \* materialize_batches
  lines,      \* the row channel
  host,       \* collect_json_rows: its state and result
  spool,      \* spool_rows and finalize_spooled_collection
  cancelled,  \* the daemon's token
  segment,    \* the events written, and whether they are published
  history,    \* ghost: identity of every event of a published segment, with its row
  spent       \* collections and faults so far
vars == <<request, answer, conn, ipc, mat, lines, host, spool, cancelled, segment, history, spent>>

Rising == request.rising
Fault == spent.attempts + spent.faults < MaxSpent /\ spent' = [spent EXCEPT !.faults = @ + 1]

Running == conn.state \in {"prepare", "execute"}
NotStarted == [state |-> "off", sent |-> <<>>, batches |-> 0, error |-> None, result |-> None, schema |-> None]
NoMaterializer == [state |-> "off", envelope |-> <<>>, rows |-> 0, bytes |-> 0, batches |-> 0,
                   last |-> None, candidate |-> None]
Init ==
  /\ request = None /\ answer = <<>> /\ conn = NotStarted /\ ipc = <<>> /\ mat = NoMaterializer
  /\ lines = <<>> /\ host = [state |-> "idle", result |-> None]
  /\ spool = [state |-> "off", rows |-> 0] /\ cancelled = FALSE
  /\ segment = [state |-> "none", events |-> <<>>, facts |-> None, outcome |-> None]
  /\ history = {} /\ spent = [faults |-> 0, attempts |-> 0]

-----------------------------------------------------------------------------
(* What the host checks.                                                   *)

\* validate_collection_request: the limits are positive and the bound can be represented.
ValidRequest(r) == r.maxRows > 0 /\ r.maxBytes > 0 /\ r.representable

\* reject_duplicate_fields, CursorTracker::new
SchemaAdmits(schema) ==
  /\ ~schema.duplicates
  /\ Rising => schema.timestamp = "TimestampMicrosecondUtc" /\ schema.id = "Int64"

\* execution_limits, max_batch_rows: rows of variable width travel alone.
MaxBatchRows(schema) ==
  IF schema.fixed /\ MaxFixedRows < request.maxRows THEN MaxFixedRows
  ELSE IF schema.fixed THEN request.maxRows ELSE 1

\* validate_envelope, decode_one_batch, and the row limit of materialize_envelope.  A
\* batch is sound when it can be decoded, matches its schema and is within the byte limits.
EnvelopeAdmitted(e) ==
  /\ e.sequence = mat.batches /\ e.schema = conn.schema /\ e.sound
  /\ e.count <= MaxBatchRows(conn.schema) /\ e.count = Len(e.rows)
  /\ mat.rows + Len(e.rows) <= request.maxRows

\* Mutant: the order of rows is left to the connector.
RowAdmittedUnordered(row) ==
  /\ Rising => row # Null /\ (request.bound # None => row > request.bound)
  /\ row \notin Unprintable
  /\ mat.bytes + LineBytes(row) <= request.maxBytes

\* CursorTracker::validate_row, materialize_row and the byte limit
RowAdmitted(row) ==
  /\ Rising => /\ row # Null
               /\ request.bound # None => row > request.bound
               /\ mat.last # None => row > mat.last
  /\ row \notin Unprintable
  /\ mat.bytes + LineBytes(row) <= request.maxBytes

Greater(a, b) == IF a = None \/ (b # None /\ b > a) THEN b ELSE a

\* record_emitted
RecordEmitted(row) ==
  [mat EXCEPT !.last = IF Rising THEN row ELSE None,
              !.candidate = IF Rising THEN Greater(@, Greater(request.committed, row)) ELSE None]

\* validate_execution_result, validate_scan_progress
ResultAdmitted ==
  /\ conn.result.rows = mat.rows /\ conn.result.batches = mat.batches
  /\ Rising => /\ conn.result.truncated => mat.last # None
               /\ (request.resumeAfter # None /\ mat.last # None) => mat.last > request.resumeAfter

-----------------------------------------------------------------------------
(* The worker begins.                                                      *)

\* run_input_inner up to the join: the segment is opened and the secret resolved; the
\* request is refused, or the connector is asked to prepare.
Begin ==
  /\ segment.state \in {"none", "ready", "aborted"} /\ spent.attempts + spent.faults < MaxSpent /\ ~cancelled
  /\ spent' = [spent EXCEPT !.attempts = @ + 1]
  /\ request' \in Requests /\ answer' \in Answers
  /\ segment' = [state |-> "open", events |-> <<>>, facts |-> None, outcome |-> None]
  /\ spool' = [state |-> "writing", rows |-> 0]
  /\ ipc' = <<>> /\ lines' = <<>> /\ mat' = NoMaterializer
  /\ IF ValidRequest(request')
     THEN /\ host' = [state |-> "operating", result |-> None]
          /\ conn' = [NotStarted EXCEPT !.state = "prepare"]
     ELSE /\ host' = [state |-> "returned", result |-> [cause |-> "host"]]
          /\ conn' = NotStarted
  /\ UNCHANGED <<cancelled, history>>

-----------------------------------------------------------------------------
(* The connector: its own errors, a hang and a wrong answer are possible    *)
(* at any time.                                                             *)

Operating == host.state \in {"operating", "grace"}

\* An operation error before execution: nothing was started that has to be waited for.
OperationFails(cause) == host' = [host EXCEPT !.result = [cause |-> cause]]

Prepared ==
  /\ conn.state = "prepare" /\ Operating
  /\ \E schema \in Schemas :
       IF SchemaAdmits(schema)
       THEN /\ conn' = [conn EXCEPT !.state = "execute", !.schema = schema]
            /\ mat' = [mat EXCEPT !.state = "receiving"]
            /\ UNCHANGED host
       ELSE /\ conn' = [conn EXCEPT !.state = "failed", !.error = "own"]
            /\ OperationFails("host")
            /\ UNCHANGED mat
  /\ UNCHANGED <<request, answer, ipc, lines, spool, cancelled, segment, history, spent>>

PrepareFails ==
  /\ conn.state = "prepare" /\ Operating
  /\ conn' = [conn EXCEPT !.state = "failed", !.error = "own"]
  /\ OperationFails("connector")
  /\ UNCHANGED <<request, answer, ipc, mat, lines, spool, cancelled, segment, history, spent>>

\* The batch of the next rows, or, spending a fault, a batch that is wrong in one way.
Envelope(rows) == [sequence |-> conn.batches, schema |-> conn.schema, count |-> Len(rows),
                   rows |-> rows, sound |-> TRUE]
Deviations(e) ==
  {[e EXCEPT !.sequence = @ + 1], [e EXCEPT !.sound = FALSE], [e EXCEPT !.count = @ + 1],
   [e EXCEPT !.schema = None], Envelope(<<Null>>), Envelope(e.rows \o e.rows)}

ConnectorSends ==
  /\ conn.state = "execute" /\ mat.state \in {"receiving", "rows"} /\ Len(ipc) < IpcCapacity
  /\ \E n \in 1 .. Len(answer) :
       /\ Len(conn.sent) + n <= request.maxRows /\ n <= MaxBatchRows(conn.schema)
       /\ LET honest == Envelope(SubSeq(answer, 1, n)) IN
            \E e \in {honest} \cup Deviations(honest) :
              /\ IF e = honest THEN UNCHANGED spent ELSE Fault
              /\ ipc' = Append(ipc, e)
              /\ conn' = [conn EXCEPT !.sent = @ \o e.rows, !.batches = @ + 1]
       /\ answer' = SubSeq(answer, n + 1, Len(answer))
  /\ UNCHANGED <<request, mat, lines, host, spool, cancelled, segment, history>>

\* The query is done: every row was sent, or as many as were asked for.
ConnectorFinishes ==
  /\ conn.state = "execute"
  /\ LET honest == [rows |-> Len(conn.sent), batches |-> conn.batches, truncated |-> answer # <<>>] IN
       \/ /\ answer = <<>> \/ Len(conn.sent) = request.maxRows
          /\ conn' = [conn EXCEPT !.state = "succeeded", !.result = honest]
          /\ UNCHANGED spent
       \/ /\ \E r \in {[honest EXCEPT !.rows = @ + 1], [honest EXCEPT !.truncated = ~@]} :
               conn' = [conn EXCEPT !.state = "succeeded", !.result = r]
          /\ Fault
  /\ UNCHANGED <<request, answer, ipc, mat, lines, host, spool, cancelled, segment, history>>

\* It fails by itself, because the host no longer receives, or because it was cancelled:
\* by the host's materializer or with the whole operation.
ConnectorFails ==
  /\ conn.state = "execute"
  /\ \E e \in Failure :
       /\ e = "receiver" => mat.state = "failed"
       /\ e = "cancelled" => mat.state = "failed" \/ host.state = "grace"
       /\ conn' = [conn EXCEPT !.state = "failed", !.error = e]
  /\ UNCHANGED <<request, answer, ipc, mat, lines, host, spool, cancelled, segment, history, spent>>

-----------------------------------------------------------------------------
(* materialize_batches.                                                    *)

MaterializerFails ==
  /\ mat' = [mat EXCEPT !.state = "failed"]
  /\ UNCHANGED <<lines, ipc>>

ReceiveEnvelope ==
  /\ mat.state = "receiving" /\ ipc # <<>>
  /\ IF EnvelopeAdmitted(Head(ipc))
     THEN /\ mat' = [mat EXCEPT !.state = "rows", !.envelope = Head(ipc).rows]
          /\ ipc' = Tail(ipc) /\ UNCHANGED lines
     ELSE MaterializerFails
  /\ UNCHANGED <<request, answer, conn, host, spool, cancelled, segment, history, spent>>

\* A row is checked, converted and sent, when the channel has room; a closed receiver
\* is an error.
SendRow ==
  /\ mat.state = "rows" /\ mat.envelope # <<>>
  /\ LET row == Head(mat.envelope) IN
       \/ /\ RowAdmitted(row) /\ spool.state = "writing" /\ Len(lines) < RowCapacity
          /\ mat' = [RecordEmitted(row) EXCEPT !.envelope = Tail(@), !.rows = @ + 1,
                                               !.bytes = @ + LineBytes(row)]
          /\ lines' = Append(lines, row) /\ UNCHANGED ipc
       \/ /\ ~RowAdmitted(row) \/ spool.state = "failed"
          /\ MaterializerFails
  /\ UNCHANGED <<request, answer, conn, host, spool, cancelled, segment, history, spent>>

EnvelopeDone ==
  /\ mat.state = "rows" /\ mat.envelope = <<>>
  /\ mat' = [mat EXCEPT !.state = "receiving", !.batches = @ + 1]
  /\ UNCHANGED <<request, answer, conn, ipc, lines, host, spool, cancelled, segment, history, spent>>

\* The connector has dropped its sender and every batch was taken.
BatchesEnd ==
  /\ mat.state = "receiving" /\ ipc = <<>> /\ ~Running
  /\ mat' = [mat EXCEPT !.state = "succeeded"]
  /\ UNCHANGED <<request, answer, conn, ipc, lines, host, spool, cancelled, segment, history, spent>>

\* The operation's token is cancelled while it waits.
MaterializerCancelled ==
  /\ mat.state \in {"receiving", "rows"} /\ host.state = "grace"
  /\ MaterializerFails
  /\ UNCHANGED <<request, answer, conn, host, spool, cancelled, segment, history, spent>>

-----------------------------------------------------------------------------
(* collect_json_rows.                                                      *)

\* The error of the operation, if any: the materializer's before the connector's.
OperationCause ==
  IF mat.state = "failed" THEN "host"
  ELSE IF conn.state = "failed" THEN "connector"
  ELSE IF ~ResultAdmitted THEN "host" ELSE None

\* collect_json_rows_inner returns when both sides have.
OperationEnds ==
  /\ Operating /\ host.result = None
  /\ mat.state \in {"succeeded", "failed"} /\ conn.state \in {"succeeded", "failed"}
  /\ host' = [host EXCEPT !.result =
       IF OperationCause # None THEN [cause |-> OperationCause]
       ELSE [cause |-> None, rows |-> mat.rows, truncated |-> conn.result.truncated,
             candidate |-> mat.candidate, resume |-> mat.last]]
  /\ UNCHANGED <<request, answer, conn, ipc, mat, lines, spool, cancelled, segment, history, spent>>

\* Dropping the operation drops the connector, the materializer and the row sender.
Dropped ==
  /\ conn' = IF Running THEN [conn EXCEPT !.state = "failed", !.error = "cancelled"] ELSE conn
  /\ mat' = IF mat.state \in {"receiving", "rows"} THEN [mat EXCEPT !.state = "failed"] ELSE mat

HostReturns ==
  /\ host.state = "operating" /\ host.result # None
  /\ host' = [host EXCEPT !.state = "returned"] /\ Dropped
  /\ UNCHANGED <<request, answer, ipc, lines, spool, cancelled, segment, history, spent>>

\* Mutant: the deadline is only the connector's business.
DeadlineIgnored == FALSE

\* The deadline passes: the operation is cancelled and gets a grace period.
Deadline ==
  /\ host.state = "operating" /\ host.result = None
  /\ host' = [host EXCEPT !.state = "grace"]
  /\ UNCHANGED <<request, answer, conn, ipc, mat, lines, spool, cancelled, segment, history, spent>>

Cancelled ==
  /\ host.state = "operating" /\ host.result = None /\ cancelled
  /\ host' = [host EXCEPT !.state = "grace"]
  /\ UNCHANGED <<request, answer, conn, ipc, mat, lines, spool, cancelled, segment, history, spent>>

\* The operation ended in the grace period or is dropped at its end; its result is not used.
GraceEnds ==
  /\ host.state = "grace"
  /\ host' = [state |-> "returned", result |-> [cause |-> IF cancelled THEN "cancelled" ELSE "timeout"]]
  /\ Dropped
  /\ UNCHANGED <<request, answer, ipc, lines, spool, cancelled, segment, history, spent>>

-----------------------------------------------------------------------------
(* spool_rows and finalize_spooled_collection.                             *)

\* Mutant: every event gets its place in this batch.
EventIdByOrdinal(row, ordinal) == <<"batch", request.input, spent.attempts, ordinal>>

\* deterministic_rising_event_id, deterministic_event_id, each with a domain of its own; the
\* batch is the attempt, the lineage and the cursor's identity are one
EventId(row, ordinal) ==
  IF Rising THEN <<"rising", request.input, request.lineage, row>>
  ELSE <<"batch", request.input, spent.attempts, ordinal>>

RowSenderOpen == host.state # "returned" /\ mat.state \notin {"succeeded", "failed"}

SpoolRow ==
  /\ spool.state = "writing" /\ lines # <<>>
  /\ \/ /\ segment' = [segment EXCEPT !.events =
                         Append(@, [row |-> Head(lines), id |-> EventId(Head(lines), spool.rows + 1)])]
        /\ spool' = [spool EXCEPT !.rows = @ + 1] /\ lines' = Tail(lines)
        /\ UNCHANGED spent
     \/ /\ spool' = [spool EXCEPT !.state = "failed"] /\ lines' = <<>> /\ Fault
        /\ UNCHANGED segment
  /\ UNCHANGED <<request, answer, conn, ipc, mat, host, cancelled, history>>

SpoolEnds ==
  /\ spool.state = "writing" /\ lines = <<>> /\ ~RowSenderOpen
  /\ spool' = [spool EXCEPT !.state = "done"]
  /\ UNCHANGED <<request, answer, conn, ipc, mat, lines, host, cancelled, segment, history, spent>>

Abort(outcome) ==
  /\ segment' = [segment EXCEPT !.state = "aborted", !.outcome = outcome]
  /\ UNCHANGED <<spent, history>>

\* RisingRecoveryMetadata::new refuses a truncated page without rows.
EmptyPageValid(r) == ~r.truncated /\ r.candidate = None /\ r.resume = None

Seal(r) ==
  \/ /\ segment' = [segment EXCEPT !.state = "ready", !.outcome = "ok",
                                   !.facts = [rows |-> r.rows, truncated |-> r.truncated,
                                              candidate |-> r.candidate, resume |-> r.resume]]
     /\ history' = history \cup {[event |-> segment.events[k], rising |-> Rising,
                                  source |-> <<request.input, request.lineage>>,
                                  of |-> <<spent.attempts, k>>] : k \in DOMAIN segment.events}
     /\ UNCHANGED spent
  \/ /\ segment' = [segment EXCEPT !.state = "aborted", !.outcome = "spool"]
     /\ Fault /\ UNCHANGED history

\* finalize_spooled_collection: the spool's error first, then the collection's.
Finalize ==
  /\ segment.state = "open" /\ host.state = "returned" /\ spool.state \in {"done", "failed"}
  /\ LET r == host.result IN
     IF spool.state = "failed" THEN Abort("spool")
     ELSE IF r.cause # None THEN Abort(r.cause)
     ELSE IF r.rows # spool.rows THEN Abort("accounting")
     ELSE IF Rising /\ r.rows = 0 THEN Abort(IF EmptyPageValid(r) THEN "empty" ELSE "metadata")
     ELSE Seal(r)
  /\ spool' = [spool EXCEPT !.state = "off"] /\ host' = [host EXCEPT !.state = "idle"]
  /\ UNCHANGED <<request, answer, conn, ipc, mat, lines, cancelled>>

Cancel ==
  /\ ~cancelled /\ cancelled' = TRUE /\ segment.state = "open"
  /\ UNCHANGED <<request, answer, conn, ipc, mat, lines, host, spool, segment, history, spent>>

-----------------------------------------------------------------------------
Connector == Prepared \/ PrepareFails \/ ConnectorSends \/ ConnectorFinishes \/ ConnectorFails
Host ==
  \/ ReceiveEnvelope \/ SendRow \/ EnvelopeDone \/ BatchesEnd \/ MaterializerCancelled
  \/ OperationEnds \/ HostReturns \/ GraceEnds
Worker == SpoolRow \/ SpoolEnds \/ Finalize
Next == Begin \/ Connector \/ Host \/ Deadline \/ Cancelled \/ Worker \/ Cancel

\* The host's tasks and the worker are polled again and again and timers fire; nothing is
\* assumed of the connector.
Fairness == WF_vars(Host) /\ WF_vars(Worker) /\ WF_vars(Deadline) /\ WF_vars(Cancelled)
Spec == Init /\ [][Next]_vars /\ Fairness
-----------------------------------------------------------------------------
(* Properties.                                                             *)

TypeOK ==
  /\ Len(ipc) <= IpcCapacity /\ Len(lines) <= RowCapacity
  /\ conn.state \in {"off", "prepare", "execute", "succeeded", "failed"}
  /\ mat.state \in {"off", "receiving", "rows", "succeeded", "failed"}
  /\ (conn.state = "failed") = (conn.error # None)
  /\ host.state \in {"idle", "operating", "grace", "returned"} /\ (host.state = "returned" => host.result # None)
  /\ spool.state \in {"off", "writing", "done", "failed"} /\ cancelled \in BOOLEAN
  /\ segment.state \in {"none", "open", "ready", "aborted"} /\ spool.rows = Len(segment.events)

RowsOf(events) == [k \in DOMAIN events |-> events[k].row]

\* A published segment holds every row the connector sent, once and in order, and the
\* connector had reported exactly those: no error, deadline, cancellation or closed
\* channel in between lets a part of the rows pass for all of them.
SealedIsWhole ==
  segment.state = "ready" =>
    /\ RowsOf(segment.events) = conn.sent
    /\ conn.state = "succeeded" /\ conn.result.rows = Len(segment.events)
    /\ Len(segment.events) <= request.maxRows

\* Whatever the connector sends, the rows of a published rising page rise strictly from
\* above its bound, and the facts stored with it say where the scan resumes and which
\* cursor it may commit: never before the one already committed.
SealedPosition ==
  segment.state = "ready" /\ Rising =>
    LET rows == RowsOf(segment.events) IN
    /\ rows # <<>>
    /\ \A k \in DOMAIN rows : /\ request.bound # None => rows[k] > request.bound
                              /\ k > 1 => rows[k] > rows[k - 1]
    /\ segment.facts.resume = Last(rows)
    /\ segment.facts.candidate = Greater(request.committed, Last(rows))

\* The error reported for a connector is the connector's own, never the consequence of
\* the host having closed the channel or cancelled it; the worker never finds its own
\* count of rows, or the facts it is about to store, inconsistent.
CauseIsFirst ==
  /\ segment.outcome = "connector" => conn.error = "own"
  /\ segment.outcome \notin {"accounting", "metadata"}

\* What finalize_spooled_collection publishes or reports is right, whatever came before.
SealedIsSound == TypeOK /\ SealedIsWhole /\ SealedPosition /\ CauseIsFirst

\* A rising row keeps its event identity however often it is collected under its lineage;
\* rows of other lineages, and other rows, never share one.
EventIdentity ==
  \A a, b \in history :
    /\ a.event.id = b.event.id =>
         IF a.rising THEN b.rising /\ a.source = b.source /\ a.event.row = b.event.row ELSE a.of = b.of
    /\ a.rising /\ b.rising /\ a.source = b.source /\ a.event.row = b.event.row => a.event.id = b.event.id

\* Every collection ends, whatever the connector does or does not do.
CollectionEnds == segment.state = "open" ~> segment.state # "open"
=============================================================================
