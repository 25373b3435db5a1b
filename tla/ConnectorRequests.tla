-------------------------- MODULE ConnectorRequests --------------------------
(***************************************************************************)
(* What the native host and the four native connectors require of a        *)
(* request before they open a connection (src/connectors/*/src/connector.rs *)
(* and connector/typed.rs, src/crates/dbx-rs-native-connectors/src/lib.rs). *)
(* Every validator is the sequence of the codes it reports, in the order    *)
(* the code tests them; the first one becomes the error of the operation.   *)
(*                                                                         *)
(* Simplifications: a text is its class and its length; "dns" is a text    *)
(* rustls takes for a server name, "wide" one whose characters take three  *)
(* bytes and one UTF-16 unit, "blank" white space only; a PEM bundle is    *)
(* usable, unusable (it parses, but holds a certificate the root store     *)
(* refuses) or junk; the sizes of results, queries and bundles are in KiB. *)
(***************************************************************************)
EXTENDS Naturals, Sequences

KiB == 1
MiB == 1024 * KiB

MAX_OPERATION_TIMEOUT == 24 * 60 * 60
MAX_COLLECTION_ROWS == 100000
MAX_REQUEST_ID_BYTES == 256
MAX_HOST_BYTES == 253
MAX_TEXT_BYTES == 1024
MAX_TDS_TEXT_UNITS == 128
MAX_SECRET_BYTES == 1024
MAX_TLS_CA_BYTES == 1 * MiB
MAX_QUERY_BYTES == 1 * MiB
MAX_CURSOR_FIELD_BYTES == [mysql |-> 63, mssql |-> 128]
MAX_TYPED_BATCH_ROWS == 256
MAX_TYPED_BATCH_IPC_BYTES == 1 * MiB
MAX_TYPED_TOTAL_IPC_BYTES == 2 * 1024 * MiB

Issue(code, bad) == IF bad THEN <<code>> ELSE <<>>
FirstIssue(issues) == IF issues = <<>> THEN "ok" ELSE Head(issues)

NoText == [is |-> "none", n |-> 0]
NoPem == [is |-> "none", n |-> 0]
Blank(t) == t.is \in {"blank", "empty"}
Control(t) == t.is = "control"
Units(t) == IF t.is = "wide" THEN t.n \div 3 ELSE t.n
IsServerName(t) == t.is = "dns" /\ t.n <= 253

---------------------------------------------------------------------------
(* PostgreSQL *)

PgTimeoutIssue(t, zero, hard) ==
    Issue(zero, t = 0) \o Issue(hard, t > MAX_OPERATION_TIMEOUT)

PgValidCaPem(pem) == pem.is \in {"usable", "unusable"}

\* A CA bundle parses here and is refused at every connection when the root
\* store cannot use one of its certificates.
PgBuildTls(c) == Issue("PG-TLS-0002", c.tls_ca_pem.is = "unusable")

PgTls(c) ==
    CASE c.tls_mode = "disable" ->
           Issue("PG-CFG-0009", c.tls_server_name # NoText \/ c.tls_ca_pem # NoPem)
      [] c.tls_mode = "verify-full" ->
           Issue("PG-CFG-0010", Blank(c.tls_server_name))
           \o Issue("PG-CFG-0011", c.tls_ca_pem # NoPem /\ ~PgValidCaPem(c.tls_ca_pem))
      [] OTHER -> <<"PG-CFG-0008">>

PgValidateConnection(c) ==
    Issue("PG-CFG-0001", c.connector_id # "postgres")
    \o Issue("PG-CFG-0002", Blank(c.host))
    \o Issue("PG-CFG-0003", c.port = 0)
    \o Issue("PG-CFG-0004", Blank(c.database))
    \o Issue("PG-CFG-0005", Blank(c.username))
    \o PgTimeoutIssue(c.connect_timeout, "PG-CFG-0006", "PG-CFG-0012")
    \o PgTimeoutIssue(c.probe_timeout, "PG-CFG-0007", "PG-CFG-0013")
    \o PgTls(c)

PgValidateOperation(c, secret) ==
    PgValidateConnection(c) \o Issue("PG-AUTH-0001", secret.n = 0)

PgNormalize(q, rows, cursor) ==
    Issue("PG-CFG-0014", rows \notin 1..MAX_COLLECTION_ROWS)
    \o Issue("PG-CFG-0017", q.is = "write")
    \o Issue("PG-CFG-0047", cursor # <<>> /\ q.is = "paged")

PgValidate(r) ==
    PgValidateConnection(r.connection)
    \o (IF r.query = NoText THEN <<>>
        ELSE IF r.max_rows = <<>> THEN <<"PG-CFG-0019">>
        ELSE PgNormalize(r.query, Head(r.max_rows), r.cursor))

PgValidatePrepare(r) ==
    Issue("PG-CFG-0020", Blank(r.request_id))
    \o PgTimeoutIssue(r.timeout, "PG-CFG-0021", "PG-CFG-0044")

PgValidateExecute(r) ==
    Issue("PG-CFG-0022", Blank(r.request_id))
    \o PgTimeoutIssue(r.limits.timeout, "PG-CFG-0023", "PG-CFG-0045")
    \o Issue("PG-CFG-0024", r.limits.max_batch_rows = 0)
    \o Issue("PG-CFG-0025", r.limits.max_batch_bytes = 0)
    \o Issue("PG-CFG-0026", r.limits.max_total_ipc_bytes = 0)
    \o Issue("PG-CFG-0040", r.limits.max_batch_rows > MAX_TYPED_BATCH_ROWS)
    \o Issue("PG-CFG-0041", r.limits.max_batch_bytes > MAX_TYPED_BATCH_IPC_BYTES)
    \o Issue("PG-CFG-0042", r.limits.max_total_ipc_bytes > MAX_TYPED_TOTAL_IPC_BYTES)
    \o Issue("PG-CFG-0043", r.limits.max_batch_bytes > r.limits.max_total_ipc_bytes)

---------------------------------------------------------------------------
(* MySQL and MariaDB *)

MyTimeoutIssue(t, zero, hard) ==
    Issue(zero, t = 0) \o Issue(hard, t > MAX_OPERATION_TIMEOUT)

MyValidServerName(t) == t.n > 0 /\ t.n <= MAX_HOST_BYTES /\ IsServerName(t)
MyValidCaPem(pem) == pem.is \in {"usable", "unusable"}
MyValidText(t, max) == ~Blank(t) /\ t.n <= max /\ ~Control(t)
MyValidRequestId(t) == ~Blank(t) /\ t.n <= MAX_REQUEST_ID_BYTES /\ ~Control(t)

MyValidateTls(c) ==
    CASE c.tls_mode = "disable" ->
           Issue("MY-CFG-0009", c.tls_server_name # NoText \/ c.tls_ca_pem # NoPem)
      [] c.tls_mode = "verify-full" ->
           LET name == IF c.tls_server_name = NoText THEN c.host ELSE c.tls_server_name
               pem == c.tls_ca_pem
           IN Issue("MY-CFG-0010", Blank(name) \/ ~MyValidServerName(name))
              \o (IF pem = NoPem THEN <<>>
                  ELSE IF pem.n > MAX_TLS_CA_BYTES THEN <<"MY-CFG-0055">>
                  ELSE Issue("MY-CFG-0011", ~MyValidCaPem(pem)))
      [] OTHER -> <<"MY-CFG-0008">>

MyValidateConnection(product, c) ==
    Issue("MY-CFG-0001", c.connector_id # product)
    \o (IF Blank(c.host) THEN <<"MY-CFG-0002">>
        ELSE Issue("MY-CFG-0044", c.host.n > MAX_HOST_BYTES \/ ~MyValidServerName(c.host)))
    \o Issue("MY-CFG-0003", c.port = 0)
    \o Issue("MY-CFG-0004", ~MyValidText(c.database, MAX_TEXT_BYTES))
    \o Issue("MY-CFG-0005", ~MyValidText(c.username, MAX_TEXT_BYTES))
    \o MyTimeoutIssue(c.connect_timeout, "MY-CFG-0006", "MY-CFG-0012")
    \o MyTimeoutIssue(c.probe_timeout, "MY-CFG-0007", "MY-CFG-0013")
    \o MyValidateTls(c)

MyValidateOperation(product, c, secret) ==
    MyValidateConnection(product, c)
    \o Issue("MY-AUTH-0001", secret.n = 0)
    \o Issue("MY-CFG-0052", secret.n > MAX_SECRET_BYTES)
    \o Issue("MY-CFG-0051", secret.is = "binary")

MyNormalize(q, rows, cursor) ==
    Issue("MY-CFG-0014", rows \notin 1..MAX_COLLECTION_ROWS)
    \o Issue("MY-CFG-0041", q.n > MAX_QUERY_BYTES)
    \o Issue("MY-CFG-0017", q.is = "write")
    \o (IF cursor = <<>> THEN <<>>
        ELSE Issue("MY-CFG-0050", q.is = "paged")
             \o Issue("MY-CFG-0046", \E i \in 1..2 : Head(cursor)[i].n > MAX_CURSOR_FIELD_BYTES.mysql))

MyValidate(product, r) ==
    MyValidateConnection(product, r.connection)
    \o (IF r.query = NoText THEN Issue("MY-CFG-0030", r.cursor # <<>>)
        ELSE IF r.max_rows = <<>> THEN <<"MY-CFG-0029">>
        ELSE MyNormalize(r.query, Head(r.max_rows), r.cursor))

MyValidatePrepare(r) ==
    Issue("MY-CFG-0057", ~MyValidRequestId(r.request_id))
    \o MyTimeoutIssue(r.timeout, "MY-CFG-0058", "MY-CFG-0045")

MyValidateExecute(r) ==
    Issue("MY-CFG-0059", ~MyValidRequestId(r.request_id))
    \o MyTimeoutIssue(r.limits.timeout, "MY-CFG-0060", "MY-CFG-0045")
    \o Issue("MY-CFG-0024", r.limits.max_batch_rows = 0)
    \o Issue("MY-CFG-0025", r.limits.max_batch_bytes = 0)
    \o Issue("MY-CFG-0026", r.limits.max_total_ipc_bytes = 0)
    \o Issue("MY-CFG-0061", r.limits.max_batch_rows > MAX_TYPED_BATCH_ROWS)
    \o Issue("MY-CFG-0062", r.limits.max_batch_bytes > MAX_TYPED_BATCH_IPC_BYTES)
    \o Issue("MY-CFG-0042", r.limits.max_total_ipc_bytes > MAX_TYPED_TOTAL_IPC_BYTES)
    \o Issue("MY-CFG-0043", r.limits.max_batch_bytes > r.limits.max_total_ipc_bytes)

---------------------------------------------------------------------------
(* SQL Server *)

MsTimeoutIssue(t, zero, hard) ==
    Issue(zero, t = 0) \o Issue(hard, t > MAX_OPERATION_TIMEOUT)

MsValidServerName(t) == t.n > 0 /\ t.n <= MAX_HOST_BYTES /\ IsServerName(t)
MsParseCaPem(pem) == pem.is \in {"usable", "unusable"}
MsValidTdsText(t) == ~Blank(t) /\ Units(t) <= MAX_TDS_TEXT_UNITS /\ ~Control(t)
MsValidRequestId(t) == ~Blank(t) /\ t.n <= MAX_REQUEST_ID_BYTES /\ ~Control(t)

MsValidateTls(c) ==
    CASE c.tls_mode = "disable" ->
           Issue("MS-CFG-0009", c.tls_server_name # NoText \/ c.tls_ca_pem # NoPem)
      [] c.tls_mode = "verify-full" ->
           LET name == IF c.tls_server_name = NoText THEN c.host ELSE c.tls_server_name
               pem == c.tls_ca_pem
           IN Issue("MS-CFG-0010", ~MsValidServerName(name))
              \o (IF pem = NoPem THEN <<>>
                  ELSE IF pem.n > MAX_TLS_CA_BYTES THEN <<"MS-CFG-0055">>
                  ELSE Issue("MS-CFG-0011", ~MsParseCaPem(pem)))
      [] OTHER -> <<"MS-CFG-0008">>

MsValidateConnection(c) ==
    Issue("MS-CFG-0001", c.connector_id # "mssql")
    \o (IF Blank(c.host) THEN <<"MS-CFG-0002">>
        ELSE Issue("MS-CFG-0044", c.host.n > MAX_HOST_BYTES \/ ~MsValidServerName(c.host)))
    \o Issue("MS-CFG-0003", c.port = 0)
    \o Issue("MS-CFG-0004", ~MsValidTdsText(c.database))
    \o Issue("MS-CFG-0005", ~MsValidTdsText(c.username))
    \o MsTimeoutIssue(c.connect_timeout, "MS-CFG-0006", "MS-CFG-0012")
    \o MsTimeoutIssue(c.probe_timeout, "MS-CFG-0007", "MS-CFG-0013")
    \o MsValidateTls(c)

MsValidateOperation(c, secret) ==
    MsValidateConnection(c)
    \o Issue("MS-AUTH-0001", secret.n = 0)
    \o Issue("MS-CFG-0052", secret.n > MAX_SECRET_BYTES)
    \o Issue("MS-CFG-0051", secret.is = "binary")
    \o Issue("MS-CFG-0052", Units(secret) > MAX_TDS_TEXT_UNITS)

MsNormalize(q, rows, cursor) ==
    Issue("MS-CFG-0014", rows \notin 1..MAX_COLLECTION_ROWS)
    \o Issue("MS-CFG-0041", q.n > MAX_QUERY_BYTES)
    \o Issue("MS-CFG-0017", q.is = "write")
    \o (IF cursor = <<>> THEN <<>>
        ELSE Issue("MS-CFG-0050", q.is = "paged")
             \o Issue("MS-CFG-0046", \E i \in 1..2 : Head(cursor)[i].n > MAX_CURSOR_FIELD_BYTES.mssql))

MsValidate(r) ==
    MsValidateConnection(r.connection)
    \o (IF r.query = NoText THEN Issue("MS-CFG-0030", r.cursor # <<>>)
        ELSE IF r.max_rows = <<>> THEN <<"MS-CFG-0029">>
        ELSE MsNormalize(r.query, Head(r.max_rows), r.cursor))

MsValidatePrepare(r) ==
    Issue("MS-CFG-0058", ~MsValidRequestId(r.request_id))
    \o MsTimeoutIssue(r.timeout, "MS-CFG-0059", "MS-CFG-0045")

MsValidateExecute(r) ==
    Issue("MS-CFG-0060", ~MsValidRequestId(r.request_id))
    \o MsTimeoutIssue(r.limits.timeout, "MS-CFG-0061", "MS-CFG-0045")
    \o Issue("MS-CFG-0024", r.limits.max_batch_rows = 0)
    \o Issue("MS-CFG-0025", r.limits.max_batch_bytes = 0)
    \o Issue("MS-CFG-0026", r.limits.max_total_ipc_bytes = 0)
    \o Issue("MS-CFG-0062", r.limits.max_batch_rows > MAX_TYPED_BATCH_ROWS)
    \o Issue("MS-CFG-0063", r.limits.max_batch_bytes > MAX_TYPED_BATCH_IPC_BYTES)
    \o Issue("MS-CFG-0042", r.limits.max_total_ipc_bytes > MAX_TYPED_TOTAL_IPC_BYTES)
    \o Issue("MS-CFG-0043", r.limits.max_batch_bytes > r.limits.max_total_ipc_bytes)

---------------------------------------------------------------------------
(* Oracle *)

OraTimeoutIssue(t, zero, hard) ==
    Issue(zero, t = 0) \o Issue(hard, t > MAX_OPERATION_TIMEOUT)

\* Oracle builds the whole client configuration, so a bundle with a
\* certificate the root store refuses is already invalid here.
OraValidCaPem(pem) == pem.is = "usable"
OraValidServerName(t) == IsServerName(t)
OraValidDescriptor(t, max) == t.n <= max /\ t.is \notin {"blank", "spaced", "control", "parens"}
OraValidRequestId(t) == ~Blank(t) /\ t.n <= MAX_REQUEST_ID_BYTES /\ ~Control(t)

OraValidateEndpoint(c) ==
    Issue("ORA-CFG-0001", c.connector_id # "oracle")
    \o (IF Blank(c.host) THEN <<"ORA-CFG-0002">>
        ELSE Issue("ORA-CFG-0044", ~OraValidServerName(c.host)))
    \o Issue("ORA-CFG-0003", c.port = 0)
    \o (IF Blank(c.database) THEN <<"ORA-CFG-0004">>
        ELSE Issue("ORA-CFG-0045", ~OraValidDescriptor(c.database, MAX_TEXT_BYTES)))
    \o (IF Blank(c.username) THEN <<"ORA-CFG-0005">>
        ELSE Issue("ORA-CFG-0046", c.username.n > MAX_TEXT_BYTES \/ Control(c.username)))

OraValidateTls(c) ==
    CASE c.tls_mode = "disable" ->
           Issue("ORA-CFG-0009", c.tls_server_name # NoText \/ c.tls_ca_pem # NoPem)
      [] c.tls_mode = "verify-full" ->
           LET name == IF c.tls_server_name = NoText THEN c.host ELSE c.tls_server_name
               pem == c.tls_ca_pem
           IN Issue("ORA-CFG-0010", Blank(name) \/ ~OraValidServerName(name))
              \o (IF pem = NoPem THEN <<>>
                  ELSE IF pem.n > MAX_TLS_CA_BYTES THEN <<"ORA-CFG-0047">>
                  ELSE Issue("ORA-CFG-0011", ~OraValidCaPem(pem)))
      [] OTHER -> <<"ORA-CFG-0008">>

OraValidateConnection(c) ==
    OraValidateEndpoint(c)
    \o OraTimeoutIssue(c.connect_timeout, "ORA-CFG-0006", "ORA-CFG-0012")
    \o OraTimeoutIssue(c.probe_timeout, "ORA-CFG-0007", "ORA-CFG-0013")
    \o OraValidateTls(c)

OraValidateOperation(c, secret) ==
    OraValidateConnection(c)
    \o Issue("ORA-AUTH-0001", secret.n = 0)
    \o Issue("ORA-CFG-0043", secret.n > MAX_SECRET_BYTES)

OraNormalize(q, rows) ==
    Issue("ORA-CFG-0014", rows \notin 1..MAX_COLLECTION_ROWS)
    \o Issue("ORA-CFG-0042", q.n > MAX_QUERY_BYTES)
    \o Issue("ORA-CFG-0017", q.is = "write")

OraValidate(r) ==
    OraValidateConnection(r.connection)
    \o Issue("ORA-CFG-0030", r.cursor # <<>>)
    \o (IF r.query = NoText THEN <<>>
        ELSE IF r.max_rows = <<>> THEN <<"ORA-CFG-0041">>
        ELSE OraNormalize(r.query, Head(r.max_rows)))

OraValidatePrepare(r) ==
    Issue("ORA-CFG-0020", ~OraValidRequestId(r.request_id))
    \o OraTimeoutIssue(r.timeout, "ORA-CFG-0021", "ORA-CFG-0029")
    \o Issue("ORA-CFG-0030", r.cursor # <<>>)

OraValidateExecute(r) ==
    Issue("ORA-CFG-0022", ~OraValidRequestId(r.request_id))
    \o OraTimeoutIssue(r.limits.timeout, "ORA-CFG-0023", "ORA-CFG-0031")
    \o Issue("ORA-CFG-0024", r.limits.max_batch_rows = 0)
    \o Issue("ORA-CFG-0032", r.limits.max_batch_rows > MAX_TYPED_BATCH_ROWS)
    \o Issue("ORA-CFG-0025", r.limits.max_batch_bytes = 0)
    \o Issue("ORA-CFG-0033", r.limits.max_batch_bytes > MAX_TYPED_BATCH_IPC_BYTES)
    \o Issue("ORA-CFG-0026", r.limits.max_total_ipc_bytes = 0)
    \o Issue("ORA-CFG-0034", r.limits.max_total_ipc_bytes > MAX_TYPED_TOTAL_IPC_BYTES)
    \o Issue("ORA-CFG-0027", r.limits.max_batch_bytes > r.limits.max_total_ipc_bytes)
    \o Issue("ORA-CFG-0030", r.cursor # <<>>)

==============================================================================
