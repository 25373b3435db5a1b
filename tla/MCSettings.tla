----------------------------- MODULE MCSettings -----------------------------
(***************************************************************************)
(* The two users of the configuration files, each on its own: the daemon   *)
(* (module ConfigLoad) and the control service behind the command line     *)
(* (module Control), which are different processes and share no state but  *)
(* the files.  A behaviour is about one of them, and for the daemon about  *)
(* one kind of edits; the other variables keep an initial value.           *)
(***************************************************************************)
EXTENDS ConfigLoad

CONSTANTS
    Inputs, Queries, Overrides, RowSizes, RowsSent, ROW_CHANNEL_CAPACITY, Changes,
    CaFiles, StoredSecrets,  \* Pems and Secrets of module Control
    LimitFiles, LimitEdits,  \* files with stanzas at the limits, and edits around them
    FewEdits                 \* bound: the edits of the files of a daemon that runs

VARIABLES
    part,  \* "load", "limits", "reload" or "control"
    input, files, changes, approved, pc, op, stopped, collect, channel, received, receiver, log,
    answer

C == INSTANCE Control WITH Pems <- CaFiles, Secrets <- StoredSecrets

control == <<input, files, changes, approved, pc, op, stopped, collect, channel, received,
             receiver, log, answer>>
all == <<part, vars, control>>

SettingsInit ==
    /\ part \in {"load", "limits", "reload", "control"}
    /\ Init
    /\ \A f \in Files : (part = "limits") = (local[f].ini = LimitFiles[f])
    /\ C!Init
    /\ part # "control" => /\ input = CHOOSE i \in Inputs : TRUE
                           /\ files = CHOOSE f \in C!Files : TRUE

Loading(A) == A /\ UNCHANGED <<part, control>>
Controlling(A) == part = "control" /\ A /\ UNCHANGED <<part, vars>>

\* With every edit there is, the files are only loaded; with a few of them
\* the daemon runs, is reloaded and restarted.
SettingsNext ==
    \/ part # "control" /\ Loading(LoadGeneric)
    \/ part # "control" /\ Loading(LoadInputs)
    \/ part = "load" /\ Loading(Edited(Edits))
    \/ part = "limits" /\ Loading(Edited(LimitEdits))
    \/ part = "reload" /\ Loading(Edited(FewEdits))
    \/ part = "reload" /\ Loading(\E s \in DOMAIN InputsNow : ensure_input(s))
    \/ part = "reload" /\ Loading(Stop)
    \/ Controlling(C!Next)

\* The fairness of both; part never changes.
SettingsSpec ==
    /\ SettingsInit /\ [][SettingsNext]_all
    /\ WF_all((part = "reload" /\ Loading(Reload)) \/ Controlling(C!Progress))

---------------------------------------------------------------------------
(* Properties *)

(* What the control service tells of an operation, in its answer and in    *)
(* the log (AnswersAreHonest of module Control).                           *)
AnswersAreHonest == C!AnswersAreHonest

(* Every control operation is answered, even when the server, the          *)
(* connector and the host never say a word again, and once the             *)
(* administrator stops, unless the backlog holds back every reload, the    *)
(* daemon runs with the files on disk or the last load gave the reason,    *)
(* still valid, why it does not.                                           *)
SettingsProgress ==
    /\ C!OperationEnds
    /\ <>[](error \notin BacklogHolds) => <>[](part = "reload" => Converged)

-----------------------------------------------------------------------------
(***************************************************************************)
(* Loading: the packaged configuration, three stanzas (a batch input and   *)
(* two rising ones) and the edits at the limits of the settings; the       *)
(* largest segments, with a stanza of each connector that asks for the     *)
(* most rows and bytes they take, and the edits around those limits (one   *)
(* row and one byte more, and the rows at which the derived IPC size meets *)
(* the connectors' limit); a running daemon, with edits of each kind a     *)
(* reload tells apart.  Control:                                           *)
(* three inputs (PostgreSQL with a CA file and a query file, SQL Server    *)
(* without TLS, MariaDB with a rising cursor), files and secrets of every  *)
(* kind, and rows that fill the row or byte limit or pass it by one.       *)
(***************************************************************************)

Num(n) == [is |-> "num", n |-> n]
Word(w) == [is |-> w, n |-> 1]
Of(class, n) == [is |-> class, n |-> n]
PathOf(root, parts) == [is |-> "path", n |-> 1, root |-> root, parts |-> parts]

MCDefaultGeneric ==
    [paths |-> [k \in Range(PathKeys) |->
         CASE k = "managed_inputs_file" -> PathOf("$DBX_RS_APP_HOME", <<"local", "inputs.conf">>)
           [] k = "instance_lock_file" ->
                PathOf("$SPLUNK_HOME", <<"var", "run", "dbx-rs", "daemon.lock">>)
           [] OTHER -> PathOf("$SPLUNK_HOME", <<"var", "lib", k>>)],
     logging |-> [max_file_bytes |-> Num(10000000), backup_count |-> Num(2)],
     daemon |-> [poll_interval_ms |-> Num(1000), shutdown_grace_secs |-> Num(30),
                 configuration_reload_secs |-> Num(5), max_workers |-> Word("auto")],
     spool |-> [segment_max_bytes |-> Num(9000), input_max_bytes |-> Num(90000),
                total_max_bytes |-> Num(900000)],
     hec |-> [enabled |-> Word("true"), manage_input |-> Word("true"), url |-> Of("https-local", 46),
              input_name |-> Of("label", 6), listen_port |-> Num(8088),
              accept_from |-> Of("network", 13), verify_tls |-> Word("true"),
              timeout_secs |-> Num(15), batch_max_events |-> Num(250),
              batch_max_bytes |-> Num(1000000), max_event_bytes |-> Num(900000),
              index |-> Of("label", 4), sourcetype |-> Of("label", 4), source |-> Of("label", 4),
              use_ack |-> Word("true")]]

Common ==
    [disabled |-> Word("false"), interval_secs |-> Num(60), host |-> Of("dns", 20),
     port |-> Num(5432), database |-> Of("label", 8), username |-> Of("label", 8),
     secret_ref |-> Word("local-label"), tls_mode |-> Word("verify-full"),
     connect_timeout_secs |-> Num(10), probe_timeout_secs |-> Num(10),
     query_timeout_secs |-> Num(60), max_rows |-> Num(1000), max_bytes |-> Num(4000)]

Id(n) == Of("uuid", n)

MCLocalInputs ==
    [a |-> [connector |-> Word("postgres"), query |-> Of("select", 1)] @@ Common,
     b |-> [connector |-> Word("mysql"), mode |-> Word("rising"), input_id |-> Id(1),
            cursor_timestamp_field |-> Of("label", 63), cursor_id_field |-> Of("label", 2),
            query_file |-> PathOf("$DBX_RS_APP_HOME", <<"queries", "mysql", "q.sql">>)] @@ Common,
     c |-> [connector |-> Word("mssql"), disabled |-> Word("true"), mode |-> Word("rising"),
            input_id |-> Id(2), cursor_timestamp_field |-> Of("label", 9),
            cursor_id_field |-> Of("label", 2), query |-> Of("select", 4)] @@ Common]

\* Stanzas at the limits: with the most rows, 948572 KiB is what is left of a
\* segment of 1 GiB.
Largest(connector) ==
    [connector |-> Word(connector), query |-> Of("select", 1), max_rows |-> Num(100000),
     max_bytes |-> Num(948572)] @@ Common
MCLimitFiles ==
    [generic |-> [spool |-> [segment_max_bytes |-> Num(1048576), input_max_bytes |-> Num(1048576),
                             total_max_bytes |-> Num(1048576)]],
     inputs |-> [p |-> Largest("postgres"), m |-> Largest("mysql"), s |-> Largest("mssql"),
                 o |-> Largest("oracle")]]
MCLocalFiles == {[generic |-> <<>>, inputs |-> MCLocalInputs], MCLimitFiles}

SetTo(file, s, k, values) == {[file |-> file, s |-> s, k |-> k, v |-> v] : v \in values}
Generic(s, k, values) == SetTo("generic", s, k, values)
Stanza(s, k, values) == SetTo("inputs", s, k, values)

Escapes == {PathOf("$SPLUNK_HOME//", <<"outside", "x">>), PathOf("$SPLUNK_HOME", <<"var", "..", "x">>),
            PathOf("relative", <<"x">>)}

GenericEdits ==
    UNION {Generic("spool", "segment_max_bytes", {Num(5003), Num(5004), Num(200000)}),
           Generic("spool", "input_max_bytes", {Num(5004)}),
           Generic("spool", "total_max_bytes", {Num(80000), Absent}),
           Generic("hec", "enabled", {Word("false"), Word("maybe")}),
           Generic("hec", "url", {Of("https-remote", 50), Of("http", 40)}),
           Generic("hec", "verify_tls", {Word("false")}),
           Generic("hec", "max_event_bytes", {Num(1000000), Num(1000001)}),
           Generic("hec", "index", {Of("empty", 0)}),
           Generic("extra", "unknown", {Num(1)}),
           Generic("daemon", "max_workers", {Num(0)}),
           Generic("logging", "backup_count", {Num(256)}),
           Generic("paths", "state_dir", Escapes \cup {PathOf("/", <<"splunk", "var", "s">>),
                                                      PathOf("$SPLUNK_HOME", <<"etc", "s">>)}),
           Generic("paths", "instance_lock_file", {PathOf("$SPLUNK_HOME", <<"var", "run", "dbx-rs">>)}),
           Generic("paths", "managed_inputs_file", {PathOf("$DBX_RS_APP_HOME//", <<"splunk", "etc">>)})}

InputEdits ==
    UNION {Stanza("a", "connector", {Word("mssql"), Word("oracle"), Word("mariadb")}),
           Stanza("a", "disabled", {Word("true")}),
           Stanza("b", "disabled", {Word("true")}),
           Stanza("a", "mode", {Word("rising")}),
           Stanza("a", "host", {Of("dns", 300), Of("spaced", 10)}),
           Stanza("a", "database", {Of("label", 512), Of("wide", 384)}),
           Stanza("a", "port", {Num(65536)}),
           Stanza("a", "tls_mode", {Word("disable")}),
           Stanza("a", "tls_server_name", {Of("blank", 1), Of("dns", 9)}),
           Stanza("a", "tls_ca_file", {PathOf("$DBX_RS_APP_HOME", <<"certs", "psql", "ca.pem">>),
                                       PathOf("$DBX_RS_APP_HOME", <<"certs", "mssql", "ca.pem">>)}),
           Stanza("a", "query", {Of("select", 1025), Of("write", 1), Of("select", 1024), Absent}),
           Stanza("b", "query_file", {PathOf("$DBX_RS_APP_HOME", <<"queries", "mysql">>)} \cup Escapes),
           Stanza("a", "max_rows", {Num(0), Num(4000), Num(100000)}),
           Stanza("a", "max_bytes", {Num(1), Num(7996), Num(7997)}),
           Stanza("a", "query_timeout_secs", {Num(86400), Num(86401)}),
           Stanza("b", "input_id", {Id(0), Id(2), Absent}),
           Stanza("b", "cursor_id_field", {Of("label", 63), Of("label", 64)}),
           Stanza("b", "cursor_overlap_secs", {Num(31536000), Num(31536001)}),
           Stanza("b", "password", {Of("label", 4)}),
           {[file |-> "inputs", s |-> "d", k |-> k, v |-> v] : k \in {"disabled"}, v \in {Word("true")}}}

MCEdits == GenericEdits \cup InputEdits
\* With 16644 rows, a batch for each, the frames bring the largest page just
\* below 2 GiB; with 16645 they do not.
MCLimitEdits ==
    UNION {Stanza(s, "max_rows", {Num(1), Num(16644), Num(16645), Num(100001)})
           \cup Stanza(s, "max_bytes", {Num(948571), Num(948573), Num(1031927), Num(1031928),
                                        Num(1048571), Num(1048576), Num(1048577)}) : s \in {"p", "m", "s", "o"}}
    \cup Generic("spool", "segment_max_bytes", {Num(1048575), Num(1048577)})

\* Edits a reload takes, edits it refuses for each of its reasons, and edits
\* the load refuses.
MCFewEdits ==
    UNION {Generic("spool", "segment_max_bytes", {Num(5003), Num(10000)}),
           Generic("hec", "enabled", {Word("false")}),
           Generic("hec", "max_event_bytes", {Num(1000000)}),
           Stanza("a", "max_rows", {Num(0), Num(4000)}),
           Stanza("a", "disabled", {Word("true")}),
           Stanza("b", "host", {Of("dns", 21)}),
           Stanza("b", "input_id", {Id(2), Id(3)}),
           Stanza("c", "disabled", {Word("false")})}
MCPems == {NoPem, Of("usable", 1024), Of("junk", 1)}
MCSecrets == {Of("label", 12), Of("label", 1025), Of("binary", 12)}
MCSchemas == {<<"Int64", "Utf8">>, <<"Boolean">>, <<"Int64", "Decimal128", "TimestampUtc">>}

---------------------------------------------------------------------------
(* Control *)

Connection(id, mode) ==
    [connector_id |-> id, host |-> Of("dns", 12), port |-> 5432, database |-> Of("label", 8),
     username |-> Of("label", 8), tls_mode |-> mode, tls_server_name |-> NoText,
     tls_ca_pem |-> NoPem, connect_timeout |-> 10, probe_timeout |-> 10]

Cursor == <<<<Of("label", 10), Of("label", 2)>>>>

MCInputs ==
    {[connection |-> Connection("postgres", "verify-full"), has_ca |-> TRUE, query_source |-> "file",
      query |-> NoText, cursor |-> <<>>, max_rows |-> 2, max_bytes |-> 2000000, timeout |-> 60],
     [connection |-> Connection("mssql", "disable"), has_ca |-> FALSE, query_source |-> "inline",
      query |-> Of("select", 1), cursor |-> <<>>, max_rows |-> 1000, max_bytes |-> 600000, timeout |-> 5],
     [connection |-> Connection("mariadb", "disable"), has_ca |-> TRUE, query_source |-> "inline",
      query |-> Of("paged", 1), cursor |-> Cursor, max_rows |-> 1000, max_bytes |-> 600000,
      timeout |-> 5]}

MCQueries == {Of("missing", 0), Of("select", 1)}
MCCaFiles == {Of("missing", 0), Of("usable", 1), Of("unusable", 1)}
MCStoredSecrets == {Of("missing", 0), Of("label", 12), Of("label", 1025)}

Asked(rows, bytes) == [max_rows |-> rows, max_bytes |-> bytes, timeout |-> 0]
MCOverrides == {Asked(0, 0), Asked(1, 0), Asked(101, 0), Asked(0, 1000000)}
MCRowSizes == {499999, 500000}
=============================================================================
