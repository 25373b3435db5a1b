----------------------------- MODULE MySqlRead ------------------------------
(***************************************************************************)
(* One operation of the MySQL and MariaDB connectors:                      *)
(* connectors/mysql/src/connector.rs and connector/typed.rs.  Every        *)
(* address of the host is tried until one answers, and each session is     *)
(* configured and asked for its identity before it is used.                *)
(*                                                                         *)
(* Simplifications: those of ConnectorRead.  A server is the product names *)
(* found in its version texts and whether it kept the three session        *)
(* settings.                                                               *)
(***************************************************************************)
EXTENDS ConnectorRead

CONSTANTS Product, Servers, OtherProducts,
          ServerDates                \* timestamps a cursor parameter can carry
VARIABLES server,                    \* who answered at the current address
          last_tcp_error,            \* an address could not be reached
          refusals                   \* how often the credentials were refused

vars == <<op, table, bound, phase, left, session, pos, previous, pending, sent, bytes, truncated, receiver, outcome,
          server, last_tcp_error, refusals>>
connection == <<server, last_tcp_error, refusals>>
NoServer == [names |-> {}, utf8mb4 |-> FALSE, utc |-> FALSE, plain_quotes |-> FALSE]

-----------------------------------------------------------------------------
(* What a failure is reported as.                                          *)

error_class_for_sql_state(state) == StateClass(state)

\* Lost locks (1205, 1213) may be retried whatever their state.
classify_query_error ==
  {Error(error_class_for_sql_state(s), s = "08" \/ lock) : s \in SqlStates, lock \in BOOLEAN}
    \cup {Error("tls", TRUE), Error("tcp", TRUE), Error("protocol", TRUE)}

classify_connect_error ==
  {Error("authentication", FALSE), Error("query", FALSE), Error("tls", FALSE), Error("tcp", TRUE), Error("protocol", TRUE)}

Refused(errors) == {e \in errors : e.class = "authentication"}
Unreachable(errors) == {e \in errors : e.class = "tcp"}

-----------------------------------------------------------------------------
Init ==
  /\ RequestInit /\ phase = "resolve" /\ left = 0 /\ session = "none"
  /\ server = NoServer /\ last_tcp_error = FALSE /\ refusals = 0

\* resolve: the addresses are put in order and none is tried twice.
Resolve ==
  /\ phase = "resolve" /\ phase' = "connect" /\ left' \in 1 .. Addresses
  /\ UNCHANGED <<request, session, stream, receiver, outcome, connection>>
ResolveFails == phase = "resolve" /\ Fails({Error("dns", TRUE)}) /\ UNCHANGED connection
ResolveDeadline == phase = "resolve" /\ Fails({Error("timeout", TRUE)}) /\ UNCHANGED connection

\* connect_endpoint: the driver has connected and authenticated.
ConnectEndpoint ==
  /\ phase = "connect" /\ left > 0 /\ phase' = "configure" /\ server' \in Servers /\ session' = "idle"
  /\ UNCHANGED <<request, left, stream, receiver, outcome, last_tcp_error, refusals>>

\* open_session: an address that cannot be reached, or is lost while the session is configured.
NextAddress ==
  /\ phase \in {"connect", "configure"} /\ left > 0 /\ left' = left - 1
  /\ phase' = "connect" /\ session' = "none" /\ last_tcp_error' = TRUE
  /\ UNCHANGED <<request, stream, receiver, outcome, server, refusals>>
ConnectFails ==
  /\ phase = "connect" /\ left > 0
  /\ \/ Fails(Refused(classify_connect_error)) /\ refusals' = refusals + 1
     \/ /\ Fails(classify_connect_error \ (Unreachable(classify_connect_error) \cup Refused(classify_connect_error)))
        /\ UNCHANGED refusals
  /\ UNCHANGED <<server, last_tcp_error>>
NoAddress == phase = "connect" /\ left = 0 /\ Fails({Error("tcp", TRUE)}) /\ UNCHANGED connection

\* One deadline for all addresses; it hides no error already met.
ConnectDeadline ==
  /\ phase \in {"connect", "configure"} /\ left > 0
  /\ Fails({Error(IF last_tcp_error THEN "tcp" ELSE "timeout", TRUE)}) /\ UNCHANGED connection
\* The deadline of a probe is around all of open_session.
ProbeDeadline ==
  /\ op = "probe" /\ phase \in {"resolve", "connect", "configure"}
  /\ Fails({Error("timeout", TRUE)}) /\ UNCHANGED connection

\* Forks and other products that speak the protocol are not taken for either.
detect_product(names) ==
  IF names \cap OtherProducts # {} THEN "none"
  ELSE IF "mariadb" \in names THEN "mariadb" ELSE IF "mysql" \in names THEN "mysql" ELSE "none"
Accepted(s) == detect_product(s.names) = Product /\ s.utf8mb4 /\ s.utc /\ s.plain_quotes

\* Mutant: the settings are set and not read back.
ConfigureSessionUnchecked ==
  /\ phase = "configure" /\ detect_product(server.names) = Product
  /\ IF op = "probe" THEN End([is |-> "finished"]) ELSE phase' = "begin" /\ UNCHANGED <<session, outcome>>
  /\ UNCHANGED <<request, left, stream, receiver, connection>>

\* configure_session: the settings are set, then the identity and the settings are read back.
ConfigureSession ==
  /\ phase = "configure" /\ Accepted(server)
  /\ IF op = "probe" THEN End([is |-> "finished"]) ELSE phase' = "begin" /\ UNCHANGED <<session, outcome>>
  /\ UNCHANGED <<request, left, stream, receiver, connection>>
SessionRejected ==
  /\ phase = "configure" /\ ~Accepted(server)
  /\ Fails({Error(IF detect_product(server.names) = Product THEN "protocol" ELSE "configuration", FALSE)})
  /\ UNCHANGED connection
\* strict_server_text, or a statement of it failed
ConfigureFails ==
  /\ phase = "configure"
  /\ Fails({Error("protocol", FALSE)} \cup (classify_query_error \ Unreachable(classify_query_error)))
  /\ UNCHANGED connection

-----------------------------------------------------------------------------
(* The statement, in one read-only transaction.                            *)

StartTransaction == Becomes("begin", "prepare", "read only") /\ UNCHANGED connection
\* prepare_typed_statement and the expected schema
PrepareStatement ==
  Moves("prepare", IF op = "prepare" THEN "commit" ELSE "query") /\ UNCHANGED connection
PrepareFails ==
  phase = "prepare" /\ Fails({Error("configuration", FALSE), Error("conversion", FALSE)}) /\ UNCHANGED connection

cursor_timestamp_parameter(b) == b.cursor /\ ~b.any => b.ts \in ServerDates
\* query_parameters, exec_iter
ExecuteStatement == cursor_timestamp_parameter(bound) /\ Moves("query", "rows") /\ UNCHANGED connection
BoundOutOfRange ==
  phase = "query" /\ ~cursor_timestamp_parameter(bound) /\ Fails({Error("configuration", FALSE)}) /\ UNCHANGED connection
QueryFails ==
  phase \in {"begin", "prepare", "query", "rows", "commit"} /\ Fails(classify_query_error) /\ UNCHANGED connection

batch_capacity ==
  Min({MaxBatchRows, MaxRows, IF FixedWidth THEN Max({1, Min({FixedBatchBytes \div RowBytes, TypedBatchRows})}) ELSE 1})
projected_cursor(row) == ~HasNull(row)

observe_cursor_order(row) == projected_cursor(row) /\ (previous # <<>> => Before(previous[1], row))
NextRow == TakeRow(observe_cursor_order, batch_capacity, End) /\ UNCHANGED connection
RowsEnd == pos = Len(fetched) /\ Moves("rows", "rest") /\ UNCHANGED connection

Fits(size) == size <= MaxBatchBytes /\ bytes + size <= MaxTotalBytes

EmitBatch == SendBatch(Fits, "rows", End) /\ UNCHANGED connection
ConversionFails ==
  phase \in {"emit", "rest"} /\ pending # <<>> /\ Fails({Error("conversion", FALSE)}) /\ UNCHANGED connection
StreamEnds == pending = <<>> /\ Moves("rest", "commit") /\ UNCHANGED connection
Commit ==
  /\ phase = "commit" /\ End(IF op = "prepare" THEN [is |-> "finished"] ELSE Result)
  /\ UNCHANGED <<request, left, stream, receiver, connection>>

OperationDeadline ==
  /\ phase \in {"begin", "prepare", "query", "rows", "emit", "rest", "commit"}
  /\ Fails({Error("timeout", TRUE)}) /\ UNCHANGED connection
Cancel == phase # "done" /\ Fails({Error("cancelled", FALSE)}) /\ UNCHANGED connection

Work ==
  \/ Resolve \/ ResolveFails \/ ConnectEndpoint \/ NextAddress \/ ConnectFails \/ NoAddress
  \/ ConfigureSession \/ SessionRejected \/ ConfigureFails
  \/ StartTransaction \/ PrepareStatement \/ PrepareFails \/ ExecuteStatement \/ BoundOutOfRange \/ QueryFails
  \/ NextRow \/ RowsEnd \/ EmitBatch \/ ConversionFails \/ StreamEnds \/ Commit
Deadline == ResolveDeadline \/ ConnectDeadline \/ ProbeDeadline \/ OperationDeadline
Next == Work \/ Deadline \/ Cancel \/ (ReceiverCloses /\ UNCHANGED connection)
\* Only time is sure to pass.
Spec == Init /\ [][Next]_vars /\ WF_vars(Deadline) /\ WF_vars(NoAddress)

-----------------------------------------------------------------------------
(* Properties.                                                             *)

TypeOK ==
  /\ phase \in {"resolve", "connect", "configure", "begin", "prepare", "query", "rows", "emit", "rest", "commit", "done"}
  /\ session \in {"none", "idle", "read only", "closed"} /\ left \in 0 .. Addresses
  /\ server \in Servers \cup {NoServer} /\ StreamTypeOK

\* Rows come only from a server of the configured product that kept the session settings,
\* whichever address answered in the end: in another time zone or with other quoting rules
\* the same statement has other rows.
SessionIsChecked == sent # <<>> => Accepted(server)

\* Credentials a server has refused are not offered to the host's other addresses:
\* the refusal ends the operation and is what it reports.
CredentialsOnce ==
  refusals <= 1 /\ (refusals = 1 => outcome = Error("authentication", FALSE))
=============================================================================
