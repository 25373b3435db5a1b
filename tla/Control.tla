-------------------------------- MODULE Control --------------------------------
(***************************************************************************)
(* The control service behind the command line                             *)
(* (src/crates/dbx-rs-control/src/service.rs): validation, probe and query *)
(* test of one input of a loaded configuration.  A probe or a query test   *)
(* runs under a hard timeout: when it passes, the operation is cancelled,  *)
(* given a grace and dropped.  A query test joins the collection of the    *)
(* native host with the receiver of its rows over a bounded channel.       *)
(*                                                                         *)
(* Simplifications: the host, the connector and the database are external: *)
(* they send rows of any size in any number, report any count, fail, or    *)
(* stay silent; the files an operation reads are read in one step; timers  *)
(* pass at any moment, in their order; sizes of rows are in bytes.         *)
(***************************************************************************)
EXTENDS HostRequest

CONSTANTS
    Inputs,          \* inputs of the configuration: records, see Input below
    Queries,         \* contents of a query file or of the standard input
    Pems,            \* contents of a CA file
    Secrets,         \* what the secret store holds
    Overrides,       \* limits asked for: records of 0 (not given) or a number
    RowSizes,        \* lengths of the rows a host sends
    RowsSent,        \* bound: rows a host sends
    ROW_CHANNEL_CAPACITY,  \* rows the channel holds
    Changes          \* bound: changes of the files and of the secret

MAX_QUERY_TEST_ROWS == 100
MAX_QUERY_TEST_BYTES == 1000000
MAX_QUERY_TEST_TIMEOUT_SECS == 30

VARIABLES
    input,      \* the input the operations name
    files,      \* the query file, the CA file and the secret of the input
    changes,    \* changes made so far
    approved,   \* the last validation of the files as they are found no issue
    pc,         \* idle, validate, load, run, grace, finish
    op,         \* the operation: its kind, its query and its limits
    stopped,    \* the cancellation token of the operation
    collect,    \* the host's collection: run, or how it ended
    channel,    \* rows sent and not received
    received,   \* rows received
    receiver,   \* the receiver: run, ok or its error
    log,        \* the telemetry of the operation
    answer      \* what the operation returned

run == <<stopped, collect, channel, received, receiver>>
vars == <<input, files, changes, approved, pc, op, run, log, answer>>

Files == [query : Queries, ca : Pems, secret : Secrets]
Missing == [is |-> "missing", n |-> 0]
NoAnswer == [code |-> "none", rows |-> <<>>, rows_read |-> 0, bytes_read |-> 0]
Refusal(code) == [NoAnswer EXCEPT !.code = code]
Idle == [is |-> "run", rows |-> 0, bytes |-> 0]

RowBytes(rows) == FoldSeq(LAMBDA row, sum : row + 1 + sum, 0, rows)

Init ==
    /\ input \in Inputs
    /\ files \in Files
    /\ changes = 0
    /\ approved = FALSE
    /\ pc = "idle"
    /\ op = [kind |-> "none", query |-> NoText, limits |-> <<>>]
    /\ stopped = FALSE /\ collect = Idle /\ channel = <<>> /\ received = <<>> /\ receiver = "run"
    /\ log = <<>>
    /\ answer = NoAnswer

---------------------------------------------------------------------------
(* What an operation reads *)

\* The query of the configuration is written in the stanza or in a file.
load_configured_query ==
    CASE input.query_source = "inline" -> "ok"
      [] files.query = Missing -> "FS-0002"
      [] files.query.n > MAX_QUERY_BYTES -> "FS-0004"
      [] files.query.is = "binary" -> "CONTROL-0005"
      [] OTHER -> "ok"

ConfiguredQuery == IF input.query_source = "inline" THEN input.query ELSE files.query

load_ad_hoc_query(source) ==
    CASE source.from = "stdin" -> IF source.text.n > MAX_QUERY_BYTES THEN "CONTROL-0003" ELSE "ok"
      [] source.from = "outside" -> "CONTROL-0004"
      [] files.query = Missing -> "CONTROL-0011"
      [] files.query.n > MAX_QUERY_BYTES -> "FS-0004"
      [] files.query.is = "binary" -> "CONTROL-0005"
      [] OTHER -> "ok"

AdHocText(source) == IF source.from = "stdin" THEN source.text ELSE files.query

CaIssue ==
    CASE ~input.has_ca -> "ok"
      [] files.ca = Missing -> "FS-0002"
      [] files.ca.n > MAX_TLS_CA_BYTES -> "FS-0004"
      [] OTHER -> "ok"

connection_config ==
    [input.connection EXCEPT !.tls_ca_pem = IF input.has_ca THEN files.ca ELSE NoPem]

resolve_secret == IF files.secret = Missing THEN "FS-0002" ELSE "ok"

---------------------------------------------------------------------------
(* Limits of a query test *)

query_test_caps ==
    [max_rows |-> Min({input.max_rows, MAX_QUERY_TEST_ROWS}),
     max_bytes |-> Min({input.max_bytes, MAX_QUERY_TEST_BYTES}),
     timeout |-> Min({input.timeout, MAX_QUERY_TEST_TIMEOUT_SECS})]

resolve_limit(value, cap) ==
    IF value = 0 THEN <<cap>> ELSE IF value \in 1..cap THEN <<value>> ELSE <<>>

\* Mutant: an override replaces the limit of the configuration.
resolve_limits_of_caller(overrides) ==
    <<[k \in DOMAIN query_test_caps |->
        IF overrides[k] = 0 THEN query_test_caps[k] ELSE overrides[k]]>>

resolve_limits(overrides) ==
    LET limit(k) == resolve_limit(overrides[k], query_test_caps[k])
    IN IF \E k \in DOMAIN query_test_caps : limit(k) = <<>> THEN <<>>
       ELSE <<[k \in DOMAIN query_test_caps |-> Head(limit(k))]>>

---------------------------------------------------------------------------
(* Telemetry: a start that cannot be written refuses the operation, a      *)
(* success that cannot be written fails it, a failure is written if it can *)
(* be.  A line may be in the log and the synchronization after it fail: to *)
(* the service that is an entry that was not written.                      *)

WriteOutcomes ==
    {[logged |-> TRUE, ok |-> TRUE], [logged |-> TRUE, ok |-> FALSE], [logged |-> FALSE, ok |-> FALSE]}

Entry(w, event, code) == IF w.logged THEN <<[event |-> event, code |-> code]>> ELSE <<>>

succeeded(response) ==
    \E w \in WriteOutcomes :
        /\ log' = log \o Entry(w, "succeeded", "ok")
        /\ answer' = IF w.ok THEN [response EXCEPT !.code = "ok"] ELSE Refusal("TRACE-0001")

failed(code) ==
    /\ answer' = Refusal(code)
    /\ log' \in {log, Append(log, [event |-> "failed", code |-> code])}

---------------------------------------------------------------------------
(* The administrator *)

Change(k, v) ==
    /\ changes < Changes
    /\ files[k] # v
    /\ changes' = changes + 1
    /\ files' = [files EXCEPT ![k] = v]
    /\ approved' = FALSE
    /\ UNCHANGED <<input, pc, op, run, log, answer>>

---------------------------------------------------------------------------
(* The start of an operation *)

\* The two halves of an operation are dropped with it.
Dropped == collect' = Idle /\ channel' = <<>> /\ received' = <<>> /\ receiver' = "run"
Fresh == stopped' = FALSE /\ Dropped

UnknownInput ==
    /\ pc = "idle"
    /\ answer' = Refusal("CONTROL-0001")
    /\ log' = <<>>
    /\ op' = [kind |-> "unknown", query |-> NoText, limits |-> <<>>]
    /\ Fresh
    /\ UNCHANGED <<input, files, changes, approved, pc>>

Begin(kind, query, limits) ==
    /\ pc = "idle"
    /\ op' = [kind |-> kind, query |-> query, limits |-> limits]
    /\ Fresh
    /\ \E w \in WriteOutcomes :
         /\ log' = Entry(w, "started", "ok")
         /\ answer' = IF w.ok THEN NoAnswer ELSE Refusal("TRACE-0001")
         /\ pc' = CASE ~w.ok -> "idle" [] kind = "validate" -> kind [] OTHER -> "load"
    /\ UNCHANGED <<input, files, changes, approved>>

BeginValidate == Begin("validate", NoText, <<>>)
BeginProbe == Begin("probe", NoText, <<>>)
BeginQueryTest(query, overrides) == Begin("test", query, resolve_limits(overrides))

---------------------------------------------------------------------------
(* Validation *)

ValidationIssues ==
    (IF CaIssue # "ok" THEN <<CaIssue>>
     ELSE ValidateIssues([connection |-> connection_config,
                          query |-> IF load_configured_query = "ok" THEN ConfiguredQuery ELSE NoText,
                          max_rows |-> input.max_rows, cursor |-> input.cursor]))
    \o Issue(load_configured_query, load_configured_query # "ok")
    \o Issue(resolve_secret, resolve_secret # "ok")

ValidateInput ==
    /\ pc = "validate" /\ pc' = "idle"
    /\ approved' = (ValidationIssues = <<>>)
    /\ succeeded(NoAnswer)
    /\ UNCHANGED <<input, files, changes, op, run>>

---------------------------------------------------------------------------
(* Probe and query test *)

\* What the connector refuses before it opens a connection.
ConnectorIssues(request) ==
    OperationIssues(request, files.secret)
    \o (IF request.connection.connector_id = "postgres" THEN PgBuildTls(request.connection) ELSE <<>>)

ProbeRefusal ==
    CASE CaIssue # "ok" -> CaIssue
      [] resolve_secret # "ok" -> resolve_secret
      [] OTHER -> FirstIssue(ConnectorIssues([connection |-> connection_config]))

TestRequest ==
    [request_id |-> [is |-> "label", n |-> 36], connection |-> connection_config,
     query |-> AdHocText(op.query), max_rows |-> Head(op.limits).max_rows,
     max_bytes |-> Head(op.limits).max_bytes, timeout |-> Head(op.limits).timeout, cursor |-> <<>>]

TestRefusal ==
    CASE op.limits = <<>> -> "CONTROL-0006"
      [] load_ad_hoc_query(op.query) # "ok" -> load_ad_hoc_query(op.query)
      [] CaIssue # "ok" -> CaIssue
      [] resolve_secret # "ok" -> resolve_secret
      [] OTHER -> FirstIssue(validate_collection_request(TestRequest)
                             \o PrepareIssues(TestRequest, 0)
                             \o ConnectorIssues(TestRequest)
                             \o QueryIssues(TestRequest))

Load ==
    /\ pc = "load"
    /\ \E code \in {IF op.kind = "probe" THEN ProbeRefusal ELSE TestRefusal} :
         \/ /\ code = "ok" /\ pc' = "run"
            /\ UNCHANGED <<log, answer>>
         \/ /\ code # "ok" /\ pc' = "idle"
            /\ failed(code)
    /\ UNCHANGED <<input, files, changes, approved, op, run>>

InFlight == pc \in {"run", "grace"}

\* The host sends the next row, unless the channel is full or closed.
SendRow(size) ==
    /\ InFlight /\ op.kind = "test" /\ collect.is = "run"
    /\ receiver = "run" /\ Len(channel) < ROW_CHANNEL_CAPACITY
    /\ collect.rows < RowsSent
    /\ channel' = Append(channel, size)
    /\ collect' = [collect EXCEPT !.rows = @ + 1, !.bytes = @ + size + 1]
    /\ UNCHANGED <<input, files, changes, approved, pc, op, stopped, received, receiver, log, answer>>

\* The host ends: it succeeds, possibly with a wrong count, or fails.
HostEnds(is, missed) ==
    /\ InFlight /\ collect.is = "run"
    /\ collect' = [is |-> is, rows |-> collect.rows + missed, bytes |-> collect.bytes]
    /\ UNCHANGED <<input, files, changes, approved, pc, op, stopped, channel, received, receiver, log, answer>>

receive_rows ==
    /\ channel # <<>>
    /\ LET row == Head(channel)
           limits == Head(op.limits)
           issue == IF Len(received) >= limits.max_rows THEN "CONTROL-0012"
                    ELSE IF RowBytes(received) + row + 1 > limits.max_bytes THEN "CONTROL-0013"
                    ELSE "ok"
       IN \/ /\ issue = "ok"
             /\ received' = Append(received, row)
             /\ channel' = Tail(channel)
             /\ UNCHANGED receiver
          \/ /\ receiver' = IF issue = "ok" THEN "CONTROL-0009" ELSE issue
             /\ channel' = <<>>
             /\ UNCHANGED received

Receive ==
    /\ InFlight /\ receiver = "run"
    /\ receive_rows
    /\ UNCHANGED <<input, files, changes, approved, pc, op, stopped, collect, log, answer>>

\* The host has dropped its end of the channel.
ReceiverEnds ==
    /\ InFlight /\ op.kind = "test" /\ receiver = "run"
    /\ channel = <<>> /\ collect.is # "run"
    /\ receiver' = "ok"
    /\ UNCHANGED <<input, files, changes, approved, pc, op, stopped, collect, channel, received, log, answer>>

Joined == collect.is # "run" /\ (op.kind = "test" => receiver # "run")

\* The result of the joined halves: the receiver's error first.
JoinResult ==
    IF op.kind = "test" /\ receiver # "ok" THEN receiver
    ELSE IF collect.is # "ok" THEN collect.is
    ELSE IF op.kind = "test" /\ (collect.rows # Len(received) \/ collect.bytes # RowBytes(received))
         THEN "CONTROL-0008"
    ELSE "ok"

Response ==
    [code |-> "ok", rows |-> received, rows_read |-> collect.rows, bytes_read |-> collect.bytes]

\* The operation ends before its hard timeout.
EndInTime ==
    /\ pc = "run" /\ Joined
    /\ pc' = "idle"
    /\ IF JoinResult = "ok" THEN succeeded(Response) ELSE failed(JoinResult)
    /\ Dropped
    /\ UNCHANGED <<input, files, changes, approved, op, stopped>>

CancelByCaller ==
    /\ InFlight /\ ~stopped
    /\ stopped' = TRUE
    /\ UNCHANGED <<input, files, changes, approved, pc, op, collect, channel, received, receiver, log, answer>>

\* Mutant: only a host that is still running is timed.
HardTimeoutWhileRunning ==
    /\ pc = "run" /\ receiver = "run" /\ collect.is = "run" /\ channel = <<>> /\ received = <<>>
    /\ pc' = "grace"
    /\ stopped' = TRUE
    /\ UNCHANGED <<input, files, changes, approved, op, collect, channel, received, receiver, log, answer>>

HardTimeout ==
    /\ pc = "run" /\ ~Joined
    /\ pc' = "grace"
    /\ stopped' = TRUE
    /\ UNCHANGED <<input, files, changes, approved, op, collect, channel, received, receiver, log, answer>>

\* The grace is over, or the operation ended in it: its result is dropped.
EndOfGrace ==
    /\ pc = "grace"
    /\ pc' = "idle"
    /\ failed("CONTROL-0014")
    /\ Dropped
    /\ UNCHANGED <<input, files, changes, approved, op, stopped>>

Next ==
    \/ \E k \in DOMAIN files :
         \E v \in CASE k = "query" -> Queries [] k = "ca" -> Pems [] k = "secret" -> Secrets :
             Change(k, v)
    \/ UnknownInput
    \/ BeginValidate
    \/ BeginProbe
    \/ \E query \in {[from |-> "stdin", text |-> q] : q \in Queries \ {Missing}}
                    \cup {[from |-> f, text |-> NoText] : f \in {"file", "outside"}},
          overrides \in Overrides : BeginQueryTest(query, overrides)
    \/ ValidateInput
    \/ Load
    \/ \E size \in RowSizes : SendRow(size)
    \/ \E missed \in 0..1 : HostEnds("ok", missed)
    \/ HostEnds("failed", 0)
    \/ Receive
    \/ ReceiverEnds
    \/ EndInTime
    \/ CancelByCaller
    \/ HardTimeout
    \/ EndOfGrace

Spec == Init /\ [][Next]_vars

\* What involves no one else, and the timers of the runtime, which fire.
Progress == ValidateInput \/ Load \/ EndInTime \/ HardTimeout \/ EndOfGrace

FairSpec == Spec /\ WF_vars(Progress)

---------------------------------------------------------------------------
(* Properties *)

Answered == pc = "idle" /\ op.kind # "none"

TypeOK ==
    /\ input \in Inputs
    /\ changes \in 0..Changes
    /\ approved \in BOOLEAN /\ stopped \in BOOLEAN
    /\ pc \in {"idle", "validate", "load", "run", "grace"}
    /\ op.kind \in {"none", "unknown", "validate", "probe", "test"}
    /\ Len(channel) <= ROW_CHANNEL_CAPACITY
    /\ Len(log) <= 2
    /\ pc = "idle" <=> (answer # NoAnswer \/ op.kind = "none")

(* Whatever a host sends or counts, the response of a query test keeps the *)
(* hard limits of the service, those of the configured input, and those    *)
(* asked for, and its counts are those of the rows in it.                  *)
ResponseKeepsLimits ==
    Answered /\ op.kind = "test" /\ answer.code = "ok" =>
        LET bytes == RowBytes(answer.rows)
        IN /\ answer.rows_read = Len(answer.rows) /\ answer.bytes_read = bytes
           /\ Len(answer.rows) <= Min({MAX_QUERY_TEST_ROWS, input.max_rows, Head(op.limits).max_rows})
           /\ bytes <= Min({MAX_QUERY_TEST_BYTES, input.max_bytes, Head(op.limits).max_bytes})

(* The log and the caller are not told two different stories: a success    *)
(* that is answered is in the log after its start; a success in the log        *)
(* is answered with the result, or with the error that says the log could  *)
(* not be secured, never with a failure of the operation; and a failure in *)
(* the log is the one the caller sees.                                     *)
LogTellsAnswer ==
    Answered /\ op.kind # "unknown" =>
        /\ answer.code = "ok" => \E i \in DOMAIN log : log[i].event = "succeeded"
        /\ \A i \in DOMAIN log :
             /\ (log[i].event = "started") = (i = 1)
             /\ log[i].event = "succeeded" => answer.code \in {"ok", "TRACE-0001"}
             /\ log[i].event = "failed" => log[i].code = answer.code

(* An operation that outlives its hard timeout is told to stop before it   *)
(* is dropped, so that the connector can cancel what runs on the server.   *)
DroppedIsCancelled ==
    Answered /\ answer.code = "CONTROL-0014" => stopped

RefusedFor(codes) == Answered /\ op.kind \in {"probe", "test"} /\ answer.code \in codes

AssetCodes ==
    {"FS-0002", "FS-0004", "PG-TLS-0002", "PG-AUTH-0001", "MY-AUTH-0001", "MS-AUTH-0001",
     "ORA-AUTH-0001",
     "PG-CFG-0001", "PG-CFG-0002", "PG-CFG-0003", "PG-CFG-0004", "PG-CFG-0005", "PG-CFG-0006",
     "PG-CFG-0007", "PG-CFG-0008", "PG-CFG-0009", "PG-CFG-0010", "PG-CFG-0011",
     "MY-CFG-0009", "MY-CFG-0010", "MY-CFG-0011", "MY-CFG-0044", "MY-CFG-0055",
     "MS-CFG-0009", "MS-CFG-0010", "MS-CFG-0011", "MS-CFG-0004", "MS-CFG-0005", "MS-CFG-0044", "MS-CFG-0055",
     "ORA-CFG-0009", "ORA-CFG-0010", "ORA-CFG-0011", "ORA-CFG-0044", "ORA-CFG-0045", "ORA-CFG-0047"}

(* While nothing changes, a probe of an input that was found valid is not  *)
(* refused for its endpoint, its TLS settings or a missing secret: only    *)
(* for a password the connector does not take, or a PostgreSQL CA bundle   *)
(* the TLS library does not take.                                          *)
ValidIsAccepted ==
    approved /\ op.kind = "probe" => ~RefusedFor(AssetCodes \ {"PG-TLS-0002"})

(* What the service tells of an operation, in its answer and in the log.   *)
AnswersAreHonest ==
    TypeOK /\ ResponseKeepsLimits /\ LogTellsAnswer /\ DroppedIsCancelled /\ ValidIsAccepted

(* Every operation is answered, even when the server, the connector and    *)
(* the host never say a word again: the hard timeout and the grace pass.   *)
OperationEnds == (pc # "idle") ~> (pc = "idle")

===============================================================================
