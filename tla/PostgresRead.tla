---------------------------- MODULE PostgresRead ----------------------------
(***************************************************************************)
(* One operation of the PostgreSQL connector:                              *)
(* connectors/postgres/src/connector.rs and connector/typed.rs.  A probe,  *)
(* a prepare or an execute resolves the host, connects to one of its       *)
(* addresses, authenticates and, but for a probe, works in one read-only   *)
(* transaction.  The execute streams the rows of the wrapped statement and *)
(* sends them in batches.                                                  *)
(*                                                                         *)
(* Simplifications: those of ConnectorRead.  A deadline may pass in any    *)
(* await.                                                                  *)
(***************************************************************************)
EXTENDS ConnectorRead

vars == <<op, table, bound, phase, left, session, pos, previous, pending, sent, bytes, truncated, receiver, outcome>>

-----------------------------------------------------------------------------
(* What a failure is reported as.                                          *)

error_class_for_sql_state(state) == StateClass(state)

classify_query_error ==
  {Error(error_class_for_sql_state(s), s = "08") : s \in SqlStates} \cup {Error("query", TRUE)}

classify_handshake_error(verify) ==
  {Error(error_class_for_sql_state(s), error_class_for_sql_state(s) # "authentication" /\ s = "08") : s \in SqlStates}
    \cup {IF verify THEN Error("tls", FALSE) ELSE Error("protocol", TRUE)}

-----------------------------------------------------------------------------
Init ==
  RequestInit /\ phase = "resolve" /\ left = Addresses /\ session = "none"

Resolve == Moves("resolve", "tcp")
ResolveFails == phase = "resolve" /\ Fails({Error("dns", TRUE)})
ResolveDeadline == phase = "resolve" /\ Fails({Error("timeout", TRUE)})

\* connect_tcp: the next address, while time is left
ConnectRefused ==
  /\ phase = "tcp" /\ left > 0 /\ left' = left - 1
  /\ UNCHANGED <<request, phase, session, stream, receiver, outcome>>
Connect == left > 0 /\ Moves("tcp", "handshake")
NoAddress == phase = "tcp" /\ left = 0 /\ Fails({Error("tcp", TRUE)})
\* No time is left; a failure of set_nodelay is reported the same way.
ConnectDeadline == phase = "tcp" /\ left > 0 /\ Fails({Error("tcp", TRUE)})

\* establish_client
Handshake == Becomes("handshake", IF op = "probe" THEN "probing" ELSE "begin", "idle")
HandshakeFails ==
  /\ phase = "handshake"
  /\ Fails(classify_handshake_error(TRUE) \cup classify_handshake_error(FALSE) \cup {Error("internal", FALSE)})
HandshakeDeadline == phase = "handshake" /\ Fails({Error("timeout", TRUE)})

\* authenticate_and_probe
Probed ==
  /\ phase = "probing" /\ End([is |-> "finished"])
  /\ UNCHANGED <<request, left, stream, receiver>>
ProbeFails == phase = "probing" /\ Fails(classify_query_error \cup {Error("conversion", FALSE)})
ProbeDeadline == phase = "probing" /\ Fails({Error("timeout", TRUE)})

\* begin_read_only: BEGIN TRANSACTION READ ONLY, SET LOCAL statement_timeout
BeginReadOnly == Becomes("begin", "prepare", "read only")

\* prepare_typed_statement: parameters, columns, cursor fields and an unchanged schema;
\* execute_query then compares it with the expected schema.
PrepareStatement ==
  Moves("prepare", IF op = "prepare" THEN "commit" ELSE "rows")
PrepareFails == phase = "prepare" /\ Fails({Error("configuration", FALSE), Error("conversion", FALSE)})

\* Any statement sent to the server may fail.
QueryFails == phase \in {"begin", "prepare", "rows", "commit"} /\ Fails(classify_query_error)

\* effective_batch_capacity, field_width
schema_cap == IF FixedWidth THEN Max({1, Min({FixedBatchBytes \div RowBytes, TypedBatchRows})}) ELSE 1
batch_capacity == Min({MaxBatchRows, MaxRows, schema_cap})

\* Mutant: only rows of the page are looked at.
observe_cursor_order_in_page(row) ==
  rows_read < MaxRows => ~HasNull(row) /\ (previous # <<>> => Before(previous[1], row))

\* Mutant: a null sorts like any other value.
observe_cursor_order_with_null(row) == previous # <<>> => Before(previous[1], row)

\* projected_cursor and observe_cursor_order
observe_cursor_order(row) == ~HasNull(row) /\ (previous # <<>> => Before(previous[1], row))

\* One round of execute_query's loop.
NextRow == TakeRow(observe_cursor_order, batch_capacity, End)
RowsEnd == pos = Len(fetched) /\ Moves("rows", "rest")

\* encode_batch, and the total of emit_batch
Fits(size) == size <= MaxBatchBytes /\ bytes + size <= MaxTotalBytes

\* emit_batch, for a full batch and for the last one
Emit == SendBatch(Fits, "rows", End)
ConversionFails == phase \in {"emit", "rest"} /\ pending # <<>> /\ Fails({Error("conversion", FALSE)})
StreamEnds == pending = <<>> /\ Moves("rest", "commit")

Commit ==
  /\ phase = "commit"
  /\ End(IF op = "prepare" THEN [is |-> "finished"] ELSE Result)
  /\ UNCHANGED <<request, left, stream, receiver>>

\* The deadline of the operation, and its cancellation, in every await.
OperationDeadline ==
  phase \in {"begin", "prepare", "rows", "emit", "rest", "commit"} /\ Fails({Error("timeout", TRUE)})
Cancel == phase # "done" /\ Fails({Error("cancelled", FALSE)})

Work ==
  \/ Resolve \/ ResolveFails \/ ConnectRefused \/ Connect \/ NoAddress \/ Handshake \/ HandshakeFails
  \/ Probed \/ ProbeFails \/ BeginReadOnly \/ PrepareStatement \/ PrepareFails \/ QueryFails
  \/ NextRow \/ RowsEnd \/ Emit \/ ConversionFails \/ StreamEnds \/ Commit
Deadline == ResolveDeadline \/ ConnectDeadline \/ HandshakeDeadline \/ ProbeDeadline \/ OperationDeadline
Next == Work \/ Deadline \/ Cancel \/ ReceiverCloses
\* Only time is sure to pass: the server, the network and the host may never answer.
Spec == Init /\ [][Next]_vars /\ WF_vars(Deadline) /\ WF_vars(NoAddress)

-----------------------------------------------------------------------------
(* Properties.                                                             *)

TypeOK ==
  /\ phase \in {"resolve", "tcp", "handshake", "probing", "begin", "prepare", "rows", "emit", "rest", "commit", "done"}
  /\ session \in {"none", "idle", "read only", "closed"} /\ left \in 0 .. Addresses
  /\ StreamTypeOK

\* Rows are sent only from inside the read-only transaction.
ReadOnlyOnly == sent # <<>> /\ phase # "done" => session = "read only"
=============================================================================
