-------------------------------- MODULE Config --------------------------------
(***************************************************************************)
(* The parser of the two configuration files                               *)
(* (src/crates/dbx-rs-config/src/lib.rs).  An ini file maps sections to     *)
(* settings; every check reports its code when it fails, in the order the   *)
(* code runs them, and the first one is the error of the load.              *)
(*                                                                         *)
(* Simplifications: a setting is a number ("num"), one of the words the     *)
(* code compares with, or a text given by its class (see ConnectorRequests; *)
(* "label" is a text of label characters only) and its length; a path is    *)
(* its leading variable and its components, a "$X//" root standing for a    *)
(* variable followed by an absolute rest, which Path::join lets win.  Spool *)
(* and input sizes are in KiB, HEC and log sizes in bytes.  The names of    *)
(* stanzas are labels.                                                      *)
(***************************************************************************)
EXTENDS HostRequest

HARD_LOG_FILE_BYTES == 10000000
HARD_HEC_EVENT_BYTES == 10000000
HARD_HEC_BATCH_BYTES == 10000000
HARD_INPUT_ROWS == 100000
HARD_INPUT_BYTES == 1024 * MiB
HARD_SPOOL_SEGMENT_BYTES == 1024 * MiB
HARD_SPOOL_INPUT_BYTES == 100 * 1024 * MiB
HARD_SPOOL_TOTAL_BYTES == 1024 * 1024 * MiB
HARD_INTERVAL_SECONDS == 365 * 24 * 60 * 60
HARD_OPERATION_SECONDS == 24 * 60 * 60
SPOOL_EVENT_OVERHEAD_BYTES == 1 * KiB
SPOOL_FORMAT_OVERHEAD_BYTES == 4 * KiB
MAX_LABEL_BYTES == 128
MAX_POSTGRES_IDENTIFIER_BYTES == 63

SplunkHome == <<"splunk">>
AppHome == SplunkHome \o <<"etc", "app">>
VarRoot == SplunkHome \o <<"var">>
RuntimeRoot == VarRoot \o <<"run", "dbx-rs">>

---------------------------------------------------------------------------
(* Settings *)

has_setting(ini, s, k) == s \in DOMAIN ini /\ k \in DOMAIN ini[s]

\* A value is trimmed as it is read.
optional(ini, s, k) ==
    IF ~has_setting(ini, s, k) THEN NoText
    ELSE IF ini[s][k].is = "blank" THEN [is |-> "empty", n |-> 0]
    ELSE ini[s][k]

Unset(v) == v.is \in {"none", "empty"}

required(ini, s, k) == Issue("CFG-0024", Unset(optional(ini, s, k)))

\* A required value with a further check: only a value that is present is tested.
Checked(ini, s, k, code, bad(_)) ==
    LET v == optional(ini, s, k)
    IN IF Unset(v) THEN <<"CFG-0024">> ELSE Issue(code, bad(v))

required_nonempty(ini, s, k) ==
    Checked(ini, s, k, "CFG-0025", LAMBDA v : v.n > 512 \/ Control(v))

Connectors == {"mariadb", "mssql", "mysql", "oracle", "postgres"}

\* The words the code compares with are labels too.
valid_label_value(v) ==
    v.is \notin {"none", "empty", "num", "path", "spaced", "wide", "control", "parens"}
    /\ v.n \in 1..MAX_LABEL_BYTES
required_label(ini, s, k) == Checked(ini, s, k, "CFG-0026", LAMBDA v : ~valid_label_value(v))
optional_label(ini, s, k) ==
    Issue("CFG-0026", has_setting(ini, s, k) /\ ~valid_label_value(optional(ini, s, k)))

required_bool(ini, s, k) ==
    Checked(ini, s, k, "CFG-0027", LAMBDA v : v.is \notin {"true", "false"})
required_u64(ini, s, k) == Checked(ini, s, k, "CFG-0028", LAMBDA v : v.is # "num")
required_u16(ini, s, k) ==
    Checked(ini, s, k, "CFG-0029", LAMBDA v : v.is # "num" \/ v.n > 65535)
required_u8(ini, s, k) ==
    Checked(ini, s, k, "CFG-0030", LAMBDA v : v.is # "num" \/ v.n > 255)
required_usize(ini, s, k) == Checked(ini, s, k, "CFG-0031", LAMBDA v : v.is # "num")

\* A number that must parse and then lie in a range.
Ranged(ini, s, k, code, low, high) ==
    required_u64(ini, s, k) \o Issue(code, optional(ini, s, k).n \notin low..high)

required_nonzero_duration(ini, s, k) == Ranged(ini, s, k, "CFG-0038", 1, HARD_OPERATION_SECONDS)

---------------------------------------------------------------------------
(* Paths *)

Expanded(v) ==
    CASE v.root = "$SPLUNK_HOME" -> SplunkHome \o v.parts
      [] v.root = "$DBX_RS_APP_HOME" -> AppHome \o v.parts
      [] OTHER -> v.parts

expand_path(v) ==
    LET allowed == IF v.root \in {"$DBX_RS_APP_HOME", "$DBX_RS_APP_HOME//"}
                   THEN AppHome ELSE SplunkHome
    IN IF v.is # "path" THEN <<"CFG-0033">>
       ELSE Issue("CFG-0032", ".." \in Range(Expanded(v)))
            \o Issue("CFG-0033", v.root = "relative")
            \o Issue("CFG-0042", ~IsPrefix(allowed, Expanded(v)))

required_path(ini, s, k) ==
    required(ini, s, k)
    \o (IF Unset(optional(ini, s, k)) THEN <<>> ELSE expand_path(optional(ini, s, k)))

required_var_path(ini, s, k) ==
    LET issues == required_path(ini, s, k)
    IN IF issues # <<>> THEN issues
       ELSE Issue("CFG-0043", ~IsPrefix(VarRoot, Expanded(optional(ini, s, k))))

required_runtime_path(ini, s, k) ==
    LET issues == required_path(ini, s, k)
    IN IF issues # <<>> THEN issues
       ELSE Issue("CFG-0044", ~IsStrictPrefix(RuntimeRoot, Expanded(optional(ini, s, k))))

optional_asset_path(ini, s, k, root, code) ==
    LET v == optional(ini, s, k)
    IN IF Unset(v) THEN <<>>
       ELSE IF expand_path(v) # <<>> THEN expand_path(v)
       ELSE Issue(code, ~IsStrictPrefix(root, Expanded(v)))

---------------------------------------------------------------------------
(* dbxrs_generic.conf *)

PathKeys == <<"log_file", "splunkd_pid_file", "instance_lock_file", "master_key_file",
              "secret_dir", "deployment_identity_file", "deployment_receipt_dir",
              "hec_token_file", "hec_server_pem_file", "hec_ca_file", "spool_key_file",
              "state_dir", "spool_dir", "managed_inputs_file">>

GenericKeys ==
    [paths |-> Range(PathKeys),
     logging |-> {"max_file_bytes", "backup_count"},
     daemon |-> {"poll_interval_ms", "shutdown_grace_secs", "configuration_reload_secs",
                 "max_workers"},
     spool |-> {"segment_max_bytes", "input_max_bytes", "total_max_bytes"},
     hec |-> {"enabled", "manage_input", "url", "input_name", "listen_port", "accept_from",
              "verify_tls", "timeout_secs", "batch_max_events", "batch_max_bytes",
              "max_event_bytes", "index", "sourcetype", "source", "use_ack"}]

\* The sections are visited in the order of a hash map.
validate_generic_keys(ini) ==
    {"CFG-0003" : s \in DOMAIN ini \ DOMAIN GenericKeys} \cup
    {"CFG-0004" : s \in {x \in DOMAIN ini \cap DOMAIN GenericKeys :
                            ~(DOMAIN ini[x] \subseteq GenericKeys[x])}}

PathIssue(ini, k) ==
    CASE k = "instance_lock_file" -> required_runtime_path(ini, "paths", k)
      [] k = "managed_inputs_file" -> required_path(ini, "paths", k)
      [] OTHER -> required_var_path(ini, "paths", k)

PathIssues(ini) ==
    LET bad == {i \in DOMAIN PathKeys : PathIssue(ini, PathKeys[i]) # <<>>}
    IN IF bad = {} THEN <<>> ELSE PathIssue(ini, PathKeys[Min(bad)])

parse_worker_limit(v) == Issue("CFG-0023", v.is # "auto" /\ (v.is # "num" \/ v.n = 0))

\* A stanza's own workers are bounded by the machine's.
effective_workers(v, available) == IF v.is = "auto" THEN available ELSE Min({v.n, available})

LocalUrl(url) == url.is = "https-local"
Https(url) == url.is \in {"https-local", "https-remote"}

parse_hec(ini) ==
    LET url == optional(ini, "hec", "url")
        v(k) == optional(ini, "hec", k)
    IN required_bool(ini, "hec", "enabled")
       \o Checked(ini, "hec", "url", "CFG-0008", LAMBDA u : v("enabled").is = "true" /\ ~Https(u))
       \o required_label(ini, "hec", "input_name")
       \o required_u16(ini, "hec", "listen_port")
       \o Checked(ini, "hec", "accept_from", "CFG-0041", LAMBDA a : a.n > 512 \/ a.is # "network")
       \o required_usize(ini, "hec", "batch_max_events")
       \o Issue("CFG-0009", v("batch_max_events").n \notin 1..10000)
       \o Ranged(ini, "hec", "batch_max_bytes", "CFG-0010", 1, HARD_HEC_BATCH_BYTES)
       \o Ranged(ini, "hec", "max_event_bytes", "CFG-0011", 1, HARD_HEC_EVENT_BYTES)
       \o Issue("CFG-0011", v("max_event_bytes").n > v("batch_max_bytes").n)
       \o Ranged(ini, "hec", "timeout_secs", "CFG-0034", 1, HARD_OPERATION_SECONDS)
       \o required_bool(ini, "hec", "verify_tls")
       \o Issue("CFG-0035", v("verify_tls").is = "false" /\ ~LocalUrl(url))
       \o required_bool(ini, "hec", "manage_input")
       \o required_label(ini, "hec", "index")
       \o required_label(ini, "hec", "sourcetype")
       \o required_label(ini, "hec", "source")
       \o required_bool(ini, "hec", "use_ack")

parse_generic(ini) ==
    LET v(k) == optional(ini, "spool", k)
    IN PathIssues(ini)
       \o Ranged(ini, "logging", "max_file_bytes", "CFG-0005", 4096, HARD_LOG_FILE_BYTES)
       \o required_u8(ini, "logging", "backup_count")
       \o Issue("CFG-0006", optional(ini, "logging", "backup_count").n > 20)
       \o Ranged(ini, "daemon", "poll_interval_ms", "CFG-0007", 100, 60000)
       \o required(ini, "daemon", "max_workers")
       \o parse_worker_limit(optional(ini, "daemon", "max_workers"))
       \o Ranged(ini, "daemon", "shutdown_grace_secs", "CFG-0036", 1, 300)
       \o Ranged(ini, "daemon", "configuration_reload_secs", "CFG-0037", 1, 3600)
       \o Ranged(ini, "spool", "segment_max_bytes", "CFG-0050", 4 * KiB, HARD_SPOOL_SEGMENT_BYTES)
       \o Ranged(ini, "spool", "input_max_bytes", "CFG-0051",
                 v("segment_max_bytes").n, HARD_SPOOL_INPUT_BYTES)
       \o Ranged(ini, "spool", "total_max_bytes", "CFG-0052",
                 v("input_max_bytes").n, HARD_SPOOL_TOTAL_BYTES)
       \o parse_hec(ini)

---------------------------------------------------------------------------
(* dbxrs_inputs.conf *)

RisingKeys == {"input_id", "cursor_timestamp_field", "cursor_id_field", "cursor_overlap_secs"}
SecretKeys == {"password", "secret", "token", "connection_string"}
InputKeys ==
    RisingKeys \cup
    {"disabled", "mode", "connector", "interval_secs", "host", "port", "database", "username",
     "secret_ref", "tls_mode", "tls_server_name", "tls_ca_file", "query", "query_file",
     "connect_timeout_secs", "probe_timeout_secs", "max_rows", "max_bytes",
     "query_timeout_secs", "index", "sourcetype", "source"}

validate_cursor_field(v, code) ==
    Issue(code, Unset(v) \/ v.n > MAX_POSTGRES_IDENTIFIER_BYTES \/ Control(v))

\* Only the canonical lower-case form of a UUID other than nil is an identity.
parse_rising_input_id(v) == v.is = "uuid" /\ v.n # 0

parse_rising_input(ini, s) ==
    LET v(k) == optional(ini, s, k)
    IN Issue("CFG-0056", ~parse_rising_input_id(v("input_id")))
       \o validate_cursor_field(v("cursor_timestamp_field"), "CFG-0057")
       \o validate_cursor_field(v("cursor_id_field"), "CFG-0058")
       \o Issue("CFG-0058", v("cursor_timestamp_field") = v("cursor_id_field"))
       \o Issue("CFG-0059", /\ has_setting(ini, s, "cursor_overlap_secs")
                            /\ \/ v("cursor_overlap_secs").is # "num"
                               \/ v("cursor_overlap_secs").n > HARD_INTERVAL_SECONDS)

Mode(ini, s) == IF has_setting(ini, s, "mode") THEN optional(ini, s, "mode").is ELSE "batch"

parse_collection_mode(ini, s) ==
    CASE Mode(ini, s) = "batch" ->
           Issue("CFG-0055", \E k \in RisingKeys : has_setting(ini, s, k))
      [] Mode(ini, s) = "rising" -> parse_rising_input(ini, s)
      [] OTHER -> <<"CFG-0054">>

query_namespace(connector) == IF connector = "postgres" THEN "psql" ELSE connector
AssetRoot(kind, connector) == AppHome \o <<kind, query_namespace(connector)>>

parse_query_source(ini, s, connector) ==
    LET inline == optional(ini, s, "query")
        file == optional(ini, s, "query_file")
    IN optional_asset_path(ini, s, "query_file", AssetRoot("queries", connector), "CFG-0048")
       \o Issue("CFG-0046", ~Unset(inline) /\ ~Unset(file))
       \o Issue("CFG-0045", Unset(inline) /\ Unset(file))
       \o Issue("CFG-0047", ~Unset(inline) /\ (inline.n > MAX_QUERY_BYTES \/ inline.is = "nul"))

\* The largest segment a page of the input can fill.
SegmentBytes(rows, bytes) ==
    rows * SPOOL_EVENT_OVERHEAD_BYTES + bytes + SPOOL_FORMAT_OVERHEAD_BYTES

parse_input(ini, s, generic) ==
    LET v(k) == optional(ini, s, k)
        connector == v("connector").is
    IN parse_collection_mode(ini, s)
       \o required_label(ini, s, "connector")
       \o Issue("CFG-0014", connector \notin Connectors)
       \o Issue("CFG-0061", connector = "oracle" /\ Mode(ini, s) = "rising")
       \o Ranged(ini, s, "max_rows", "CFG-0015", 1, HARD_INPUT_ROWS)
       \o Ranged(ini, s, "max_bytes", "CFG-0016", 1, HARD_INPUT_BYTES)
       \o Issue("CFG-0053", SegmentBytes(v("max_rows").n, v("max_bytes").n)
                            > optional(generic, "spool", "segment_max_bytes").n)
       \o Ranged(ini, s, "interval_secs", "CFG-0019", 1, HARD_INTERVAL_SECONDS)
       \o Checked(ini, s, "secret_ref", "CFG-0020", LAMBDA r : r.is # "local-label")
       \o Checked(ini, s, "tls_mode", "CFG-0021", LAMBDA m : m.is \notin {"disable", "verify-full"})
       \o required_u16(ini, s, "port")
       \o Issue("CFG-0022", v("port").n = 0)
       \o required_nonzero_duration(ini, s, "connect_timeout_secs")
       \o required_nonzero_duration(ini, s, "probe_timeout_secs")
       \o required_nonzero_duration(ini, s, "query_timeout_secs")
       \o required_bool(ini, s, "disabled")
       \o required_nonempty(ini, s, "host")
       \o required_nonempty(ini, s, "database")
       \o required_nonempty(ini, s, "username")
       \o optional_asset_path(ini, s, "tls_ca_file", AssetRoot("certs", connector), "CFG-0049")
       \o parse_query_source(ini, s, connector)
       \o optional_label(ini, s, "index")
       \o optional_label(ini, s, "sourcetype")
       \o optional_label(ini, s, "source")

\* What one stanza reports when its turn comes.
StanzaIssues(ini, s, generic) ==
    Issue("CFG-0013", DOMAIN ini[s] \cap SecretKeys # {})
    \o Issue("CFG-0012", ~(DOMAIN ini[s] \subseteq InputKeys))
    \o parse_input(ini, s, generic)

IsRising(ini, s) == Mode(ini, s) = "rising"

SharedIdentity(ini, s, t) ==
    /\ s # t /\ IsRising(ini, s) /\ IsRising(ini, t)
    /\ optional(ini, s, "input_id") = optional(ini, t, "input_id")

\* The stanzas are visited in the order of a hash map: any stanza that is
\* refused may be the one that is reported.
parse_inputs(ini, generic) ==
    LET parsed == {s \in DOMAIN ini : StanzaIssues(ini, s, generic) = <<>>}
    IN {FirstIssue(StanzaIssues(ini, s, generic)) : s \in DOMAIN ini} \cup
       {"CFG-0060" : s \in {x \in parsed : \E y \in parsed : SharedIdentity(ini, x, y)}}

==============================================================================
