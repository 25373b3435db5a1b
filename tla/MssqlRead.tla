----------------------------- MODULE MssqlRead ------------------------------
(***************************************************************************)
(* One operation of the SQL Server connector:                              *)
(* connectors/mssql/src/connector.rs and connector/typed.rs.  When the     *)
(* deadline passes or the caller cancels, the server is asked to stop and  *)
(* the running operation gets a last grace to wind down, in which it may   *)
(* still send batches or even finish.                                      *)
(*                                                                         *)
(* Simplifications: those of ConnectorRead.  A server is its engine        *)
(* edition and whether it selected the database.  The statement has no     *)
(* transaction: TOP (0) statements discover its columns, and TOP (n + 1)   *)
(* reads it.                                                               *)
(***************************************************************************)
EXTENDS ConnectorRead

CONSTANTS Servers,
          ServerDates                \* timestamps a cursor parameter can carry
VARIABLES server,                    \* who answered
          last_tcp_error,            \* an address could not be reached
          stopping                   \* why the operation was told to stop, if it was

vars == <<op, table, bound, phase, left, session, pos, previous, pending, sent, bytes, truncated, receiver, outcome,
          server, last_tcp_error, stopping>>
connection == <<server, last_tcp_error, stopping>>
NoServer == [edition |-> 0, database |-> FALSE]
NotStopped == [is |-> "running"]

-----------------------------------------------------------------------------
(* What a failure is reported as.                                          *)

classify_query_error ==
  {Error(class, retry) : class \in {"query", "protocol"}, retry \in BOOLEAN}
    \cup {Error("authentication", FALSE), Error("timeout", TRUE), Error("cancelled", FALSE), Error("tls", TRUE),
          Error("tcp", TRUE), Error("conversion", FALSE)}
classify_connect_error ==
  {Error("protocol", retry) : retry \in BOOLEAN} \cup {Error("tls", retry) : retry \in BOOLEAN}
    \cup {Error("authentication", FALSE), Error("timeout", TRUE), Error("tcp", TRUE)}

\* prepare, execute: the future is over; once stopped, its own result is dropped.
Ends(result) == End(IF stopping = NotStopped THEN result ELSE stopping)

OpFails(errors) == /\ \E e \in errors : Ends(e)
                   /\ UNCHANGED <<request, left, stream, receiver, connection>>
OpMoves(from, to) == Moves(from, to) /\ UNCHANGED connection

-----------------------------------------------------------------------------
Init ==
  /\ RequestInit /\ phase = "resolve" /\ left = 0 /\ session = "none"
  /\ server = NoServer /\ last_tcp_error = FALSE /\ stopping = NotStopped

Resolve ==
  /\ phase = "resolve" /\ phase' = "connect" /\ left' \in 1 .. Addresses
  /\ UNCHANGED <<request, session, stream, receiver, outcome, connection>>
ResolveFails == phase = "resolve" /\ OpFails({Error("dns", TRUE), Error("timeout", TRUE)})

\* open_session: Client::connect at the next address, with the time that is left
ConnectAddress ==
  /\ phase = "connect" /\ left > 0 /\ phase' = "identify" /\ server' \in Servers /\ session' = "idle"
  /\ UNCHANGED <<request, left, stream, receiver, outcome, last_tcp_error, stopping>>
NextAddress ==
  /\ phase = "connect" /\ left > 0 /\ left' = left - 1 /\ last_tcp_error' = TRUE
  /\ UNCHANGED <<request, phase, session, stream, receiver, outcome, server, stopping>>
ConnectFails ==
  phase = "connect" /\ left > 0 /\ OpFails({e \in classify_connect_error : e.class # "tcp"})
NoAddress == phase = "connect" /\ left = 0 /\ OpFails({Error("tcp", TRUE)})
ConnectDeadline ==
  phase = "connect" /\ left > 0 /\ OpFails({Error(IF last_tcp_error THEN "tcp" ELSE "timeout", TRUE)})

Accepted(s) == s.edition \in 2 .. 4 /\ s.database

\* identify_server: one row with a standalone edition and the configured database.  It has no
\* deadline of its own: only the driver's command timeout, and the cancellation.
IdentifyServer ==
  /\ phase = "identify" /\ Accepted(server)
  /\ IF op = "probe" THEN Ends([is |-> "finished"]) ELSE phase' = "discover" /\ UNCHANGED <<session, outcome>>
  /\ UNCHANGED <<request, left, stream, receiver, connection>>
ServerRejected == phase = "identify" /\ ~Accepted(server) /\ OpFails({Error("configuration", FALSE)})
IdentifyFails == phase = "identify" /\ OpFails(classify_query_error \cup {Error("protocol", FALSE)})
OpenCancelled ==
  phase \in {"resolve", "connect", "identify"} /\ OpFails({Error("cancelled", FALSE)})

-----------------------------------------------------------------------------
(* The statement.                                                          *)

Finishes(result) == /\ Ends(result) /\ UNCHANGED <<request, left, stream, receiver, connection>>

\* discover_query: the columns of the query and of its projection, neither with a row
Discover ==
  IF op = "prepare" THEN phase = "discover" /\ Finishes([is |-> "finished"]) ELSE OpMoves("discover", "query")
DiscoverFails ==
  /\ phase = "discover"
  /\ OpFails(classify_query_error \cup {Error("protocol", FALSE), Error("conversion", FALSE), Error("configuration", FALSE)})
\* hydrate_temporal_metadata: the described columns must be the columns discovered
DescribeFails == phase = "discover" /\ OpFails({Error("conversion", FALSE)})
SchemaChanged == op = "execute" /\ phase = "discover" /\ OpFails({Error("conversion", FALSE)})

cursor_timestamp_parameter(b) == b.cursor /\ ~b.any => b.ts \in ServerDates
\* query_parameters, query_stream, validate_projected_columns
ExecuteStatement == cursor_timestamp_parameter(bound) /\ OpMoves("query", "rows")
BoundOutOfRange ==
  phase = "query" /\ ~cursor_timestamp_parameter(bound) /\ OpFails({Error("configuration", FALSE)})
QueryFails ==
  phase \in {"query", "rows"} /\ OpFails(classify_query_error \cup {Error("conversion", FALSE)})

batch_capacity ==
  Min({MaxBatchRows, MaxRows, IF FixedWidth THEN Max({1, Min({FixedBatchBytes \div RowBytes, TypedBatchRows})}) ELSE 1})
projected_cursor(row) == ~HasNull(row)

observe_cursor_order(row) == projected_cursor(row) /\ (previous # <<>> => Before(previous[1], row))

NextRow == TakeRow(observe_cursor_order, batch_capacity, Ends) /\ UNCHANGED connection
RowsEnd == pos = Len(fetched) /\ OpMoves("rows", "rest")
\* A server that ignores TOP is found out at the row after the first one past the page.
TopIgnored ==
  /\ phase = "rows" /\ pos = MaxRows /\ pos + 1 < Len(Answer(table, bound))
  /\ bound.cursor => observe_cursor_order(fetched[pos + 1])
  /\ OpFails({Error("protocol", FALSE)})

Fits(size) == size <= MaxBatchBytes /\ bytes + size <= MaxTotalBytes
EmitBatch == SendBatch(Fits, "rows", Ends) /\ UNCHANGED connection
ConversionFails == phase \in {"emit", "rest"} /\ pending # <<>> /\ OpFails({Error("conversion", FALSE)})

StreamEnds == phase = "rest" /\ pending = <<>> /\ Finishes(Result)

\* The cancellation or the deadline, whichever select sees first: CancelHandle::cancel, then the grace.
Stop ==
  /\ phase \in {"discover", "query", "rows", "emit", "rest"} /\ stopping = NotStopped
  /\ stopping' \in {Error("cancelled", FALSE), Error("timeout", TRUE)}
  /\ UNCHANGED <<request, phase, left, session, stream, receiver, outcome, server, last_tcp_error>>
GraceEnds == phase # "done" /\ stopping # NotStopped /\ Finishes(stopping)

Open ==
  \/ Resolve \/ ResolveFails \/ ConnectAddress \/ NextAddress \/ ConnectFails \/ NoAddress \/ ConnectDeadline
  \/ IdentifyServer \/ ServerRejected \/ IdentifyFails \/ OpenCancelled
Statement ==
  \/ Discover \/ DiscoverFails \/ DescribeFails \/ SchemaChanged \/ ExecuteStatement \/ BoundOutOfRange \/ QueryFails
  \/ NextRow \/ RowsEnd \/ TopIgnored \/ EmitBatch \/ ConversionFails \/ StreamEnds
Next == Open \/ Statement \/ Stop \/ GraceEnds \/ (ReceiverCloses /\ UNCHANGED connection)
Spec == Init /\ [][Next]_vars

-----------------------------------------------------------------------------
(* Properties.                                                             *)

TypeOK ==
  /\ phase \in {"resolve", "connect", "identify", "discover", "query", "rows", "emit", "rest", "done"}
  /\ session \in {"none", "idle", "closed"} /\ left \in 0 .. Addresses
  /\ server \in Servers \cup {NoServer} /\ StreamTypeOK

\* An operation that was told to stop reports why it was stopped, even when it finishes or
\* fails in another way during the grace: the caller never commits a page it gave up.
StoppedIsReported == phase = "done" /\ stopping # NotStopped => outcome = stopping

\* Rows come only from a standalone server with the configured database selected.
SessionIsChecked == sent # <<>> => Accepted(server)
=============================================================================
