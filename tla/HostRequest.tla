----------------------------- MODULE HostRequest -----------------------------
(***************************************************************************)
(* The requests the native host makes of a connector for one collection    *)
(* (src/crates/dbx-rs-native-connectors/src/lib.rs): the validation of the *)
(* collection request, the limits it derives for the execution from the    *)
(* prepared schema, and the dispatch to the connector that serves the      *)
(* configured connector id.                                                *)
(*                                                                         *)
(* Simplifications: durations are whole seconds, of which `elapsed' have   *)
(* passed when a request is built; a schema is the sequence of its field   *)
(* types; IPC and NDJSON sizes are in KiB, the widths of fields in bytes.  *)
(***************************************************************************)
EXTENDS ConnectorRequests, FiniteSetsExt, SequencesExt

MAX_COLLECTION_TIMEOUT == 24 * 60 * 60
MAX_BATCH_ROWS == 256
MAX_FIXED_BATCH_VALUE_BYTES == 256 * 1024
MAX_BATCH_BYTES == 1 * MiB
MAX_TOTAL_IPC_BYTES == 2 * 1024 * MiB
IPC_FRAME_OVERHEAD_BYTES == 64 * KiB
UnknownWidth == 0

field_width(type) ==
    CASE type \in {"Boolean", "Int8"} -> 1
      [] type = "Int16" -> 2
      [] type \in {"Int32", "UInt32", "Float32", "Date32"} -> 4
      [] type \in {"Int64", "Float64", "Time64", "Timestamp", "TimestampUtc"} -> 8
      [] type = "Decimal128" -> 16
      [] type \in {"Utf8", "Binary", "Uuid", "Json"} -> UnknownWidth

\* Mutant: a schema of fixed width is not held to the connectors' row limit.
max_batch_rows_unclamped(rows, schema) ==
    LET widths == [i \in DOMAIN schema |-> field_width(schema[i])]
        row == FoldSeq(+, 0, widths)
    IN IF UnknownWidth \in Range(widths) THEN 1
       ELSE Min({rows, Max({1, MAX_FIXED_BATCH_VALUE_BYTES \div Max({row, 1})})})

max_batch_rows(rows, schema) ==
    LET widths == [i \in DOMAIN schema |-> field_width(schema[i])]
        row == FoldSeq(+, 0, widths)
        cap == IF UnknownWidth \in Range(widths) THEN 1
               ELSE Min({MAX_BATCH_ROWS,
                         Max({1, MAX_FIXED_BATCH_VALUE_BYTES \div Max({row, 1})})})
    IN Min({rows, cap})

execution_limits(request, schema, timeout) ==
    LET rows == max_batch_rows(request.max_rows, schema)
        batches == (request.max_rows + rows - 1) \div rows
        total == Min({request.max_bytes + batches * IPC_FRAME_OVERHEAD_BYTES,
                      MAX_TOTAL_IPC_BYTES})
    IN [max_rows |-> request.max_rows,
        max_batch_rows |-> rows,
        max_batch_bytes |-> Min({request.max_bytes + IPC_FRAME_OVERHEAD_BYTES,
                                 MAX_BATCH_BYTES, total}),
        max_total_ipc_bytes |-> total,
        timeout |-> timeout]

validate_collection_request(request) ==
    Issue("NATIVE-CFG-0001", Blank(request.request_id))
    \o Issue("NATIVE-CFG-0002", request.max_rows = 0)
    \o Issue("NATIVE-CFG-0003", request.max_bytes = 0)
    \o Issue("NATIVE-CFG-0004", request.timeout = 0)
    \o Issue("NATIVE-CFG-0006", request.timeout > MAX_COLLECTION_TIMEOUT)
    \o Issue("NATIVE-CURSOR-0001",
             \E cursor \in Range(request.cursor) :
                \/ \E i \in 1..2 : cursor[i].n = 0
                \/ cursor[1] = cursor[2])

remaining_timeout(request, elapsed) ==
    IF request.timeout > elapsed THEN request.timeout - elapsed ELSE 0

---------------------------------------------------------------------------
(* What the connector that serves the request reports.                     *)

OperationIssues(request, secret) ==
    LET c == request.connection
    IN CASE c.connector_id = "postgres" -> PgValidateOperation(c, secret)
         [] c.connector_id = "mssql" -> MsValidateOperation(c, secret)
         [] c.connector_id = "oracle" -> OraValidateOperation(c, secret)
         [] OTHER -> MyValidateOperation(c.connector_id, c, secret)

PrepareIssues(request, elapsed) ==
    LET r == [request_id |-> request.request_id, cursor |-> request.cursor,
              timeout |-> remaining_timeout(request, elapsed)]
    IN CASE request.connection.connector_id = "postgres" -> PgValidatePrepare(r)
         [] request.connection.connector_id = "mssql" -> MsValidatePrepare(r)
         [] request.connection.connector_id = "oracle" -> OraValidatePrepare(r)
         [] OTHER -> MyValidatePrepare(r)

ExecuteIssues(request, schema, elapsed) ==
    LET r == [request_id |-> request.request_id, cursor |-> request.cursor,
              limits |-> execution_limits(request, schema, remaining_timeout(request, elapsed))]
    IN CASE request.connection.connector_id = "postgres" -> PgValidateExecute(r)
         [] request.connection.connector_id = "mssql" -> MsValidateExecute(r)
         [] request.connection.connector_id = "oracle" -> OraValidateExecute(r)
         [] OTHER -> MyValidateExecute(r)

QueryIssues(request) ==
    LET q == request.query
    IN CASE request.connection.connector_id = "postgres" ->
              PgNormalize(q, request.max_rows, request.cursor)
         [] request.connection.connector_id = "mssql" ->
              MsNormalize(q, request.max_rows, request.cursor)
         [] request.connection.connector_id = "oracle" -> OraNormalize(q, request.max_rows)
         [] OTHER -> MyNormalize(q, request.max_rows, request.cursor)

\* The report the command line's validation asks for, without a connection.
ValidateIssues(request) ==
    LET r == [connection |-> request.connection, query |-> request.query,
              max_rows |-> <<request.max_rows>>, cursor |-> request.cursor]
    IN CASE request.connection.connector_id = "postgres" -> PgValidate(r)
         [] request.connection.connector_id = "mssql" -> MsValidate(r)
         [] request.connection.connector_id = "oracle" -> OraValidate(r)
         [] OTHER -> MyValidate(request.connection.connector_id, r)

==============================================================================
