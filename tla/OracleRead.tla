----------------------------- MODULE OracleRead -----------------------------
(***************************************************************************)
(* One operation of the Oracle connector: connectors/oracle/src/           *)
(* connector.rs, connector/typed.rs and connector/driver.rs.  Rows come in *)
(* pages the connector asks for one by one; a row that repeats the one     *)
(* before it is sent as a mark, and the mark of the first row of a page    *)
(* refers to the last row of the page before.                              *)
(*                                                                         *)
(* Simplifications: those of ConnectorRead.  No cursor is supported, so a  *)
(* row repeats as a whole.  The driver (vendored oracle-rs) is external.   *)
(***************************************************************************)
EXTENDS ConnectorRead

VARIABLES page,                      \* rows of the page not yet taken
          more, cursor_id,           \* what the page says of the next one
          previous_row,              \* what the driver decodes marks against
          fetches                    \* pages asked for

vars == <<op, table, bound, phase, left, session, pos, previous, pending, sent, bytes, truncated, receiver, outcome,
          page, more, cursor_id, previous_row, fetches>>
paging == <<page, more, cursor_id, previous_row, fetches>>
Same == [same |-> TRUE]

-----------------------------------------------------------------------------
(* What a failure is reported as.                                          *)

classify_error ==
  {Error(class, TRUE) : class \in {"timeout", "dns", "tcp", "protocol"}}
    \cup {Error(class, FALSE) : class \in {"authentication", "configuration", "tls", "query", "conversion", "internal"}}

OpFails(errors) == Fails(errors) /\ UNCHANGED paging
OpMoves(from, to) == Moves(from, to) /\ UNCHANGED paging

-----------------------------------------------------------------------------
Init ==
  /\ RequestInit /\ phase = "connect" /\ left = Addresses /\ session = "none"
  /\ page = <<>> /\ more = FALSE /\ cursor_id = 0 /\ previous_row = <<>> /\ fetches = 0

\* connect_session
Connect ==
  /\ Becomes("connect", CASE op = "probe" -> "info" [] op = "prepare" -> "describe" [] OTHER -> "begin", "idle")
  /\ UNCHANGED paging
ConnectFails == phase = "connect" /\ OpFails(classify_error)
ConnectDeadline == phase = "connect" /\ OpFails({Error("timeout", TRUE)})

\* probe_inner: the version came with the connection
ServerInfo ==
  /\ phase = "info" /\ End([is |-> "finished"]) /\ UNCHANGED <<request, left, stream, receiver, paging>>

BeginReadOnly == Becomes("begin", "describe", "read only") /\ UNCHANGED paging
\* prepare_schema, or describe and plan_columns of execute_query
Describe ==
  \/ /\ op = "prepare" /\ phase = "describe" /\ End([is |-> "finished"])
     /\ UNCHANGED <<request, left, stream, receiver, paging>>
  \/ op = "execute" /\ OpMoves("describe", "query")
DescribeFails == phase = "describe" /\ OpFails({Error("conversion", FALSE)})
StatementFails == phase \in {"begin", "describe", "query", "fetch"} /\ OpFails(classify_error)

-----------------------------------------------------------------------------
(* The pages.                                                              *)

\* effective_batch_capacity
batch_capacity ==
  Max({1, Min({MaxBatchRows, MaxRows, IF FixedWidth THEN Max({1, MaxBatchBytes \div RowBytes}) ELSE 1})})

\* The server sends up to fetch_size rows; any row equal to the one before may be a mark.
MarkedPages(rows, before) ==
  {p \in [1 .. Len(rows) -> ToSet(rows) \cup {Same}] :
     \A k \in DOMAIN rows :
       \/ p[k] = rows[k]
       \/ p[k] = Same /\ rows[k] = (IF k = 1 THEN before ELSE rows[k - 1])}

\* Driver: a mark is the row decoded before it.
Decode(rows, before) ==
  LET row[k \in 0 .. Len(rows)] ==
        IF k = 0 THEN before ELSE IF rows[k] = Same THEN row[k - 1] ELSE rows[k]
  IN [k \in 1 .. Len(rows) |-> row[k]]

\* The row the server sent last; a mark cannot start the first page.
LastSent == IF pos = 0 THEN Same ELSE fetched[pos]

\* QueryState::replace_from
replace_from(rows) == IF rows = <<>> THEN <<>> ELSE <<rows[Len(rows)]>>

Answers(from) ==
  /\ phase = from /\ fetches' = fetches + 1 /\ phase' = "page"
  /\ \E n \in 0 .. Min({batch_capacity, Len(fetched) - pos}) :
     \E wire \in MarkedPages(SubSeq(fetched, pos + 1, pos + n), LastSent) :
       /\ page' = Decode(wire, IF previous_row = <<>> THEN Same ELSE previous_row[1])
       /\ previous_row' = replace_from(page')
       /\ pos' = pos + n /\ more' \in {TRUE, pos' < Len(fetched)} /\ cursor_id' \in {0, 1}
  /\ UNCHANGED <<request, left, session, previous, pending, sent, bytes, truncated, receiver, outcome>>

Query == Answers("query")
FetchMore == Answers("fetch")

\* validate_page_metadata, and no empty continuation
CheckPage == ~(page = <<>> /\ more) /\ OpMoves("page", "rows")
PageRejected ==
  \/ phase = "page" /\ OpFails({Error("conversion", FALSE)})
  \/ phase = "page" /\ page = <<>> /\ more /\ OpFails({Error("protocol", TRUE)})

NextRow ==
  /\ phase = "rows" /\ page # <<>> /\ ~truncated /\ page' = Tail(page)
  /\ IF rows_read = MaxRows
     THEN truncated' = TRUE /\ UNCHANGED <<pending, phase>>
     ELSE /\ pending' = Append(pending, page[1]) /\ UNCHANGED truncated
          /\ phase' = IF Len(pending') = batch_capacity THEN "emit" ELSE "rows"
  /\ UNCHANGED <<request, left, session, pos, previous, sent, bytes, receiver, outcome, more, cursor_id, previous_row, fetches>>
PageDone ==
  /\ phase = "rows" /\ (page = <<>> \/ truncated)
  /\ IF truncated \/ ~more THEN OpMoves("rows", "rest")
     ELSE IF cursor_id = 0 THEN OpFails({Error("protocol", TRUE)}) ELSE OpMoves("rows", "fetch")

Fits(size) == size <= MaxBatchBytes /\ bytes + size <= MaxTotalBytes
EmitBatch == SendBatch(Fits, "rows", End) /\ UNCHANGED paging
\* rows_to_batch: a null in a column that has none, or a value that does not fit its type
ConversionFails == phase \in {"emit", "rest"} /\ pending # <<>> /\ OpFails({Error("conversion", FALSE)})
Finish ==
  /\ phase = "rest" /\ pending = <<>> /\ End(Result) /\ UNCHANGED <<request, left, stream, receiver, paging>>

\* Mutant: the deadline is around the answers only.
OperationDeadlineAnswers == phase \in {"begin", "describe", "query", "fetch"} /\ OpFails({Error("timeout", TRUE)})

\* run_session_operation; the session is then aborted
OperationDeadline == phase \notin {"connect", "done"} /\ OpFails({Error("timeout", TRUE)})
Cancel == phase # "done" /\ OpFails({Error("cancelled", FALSE)})

Work ==
  \/ Connect \/ ConnectFails \/ ServerInfo \/ BeginReadOnly \/ Describe \/ DescribeFails \/ StatementFails
  \/ Query \/ FetchMore \/ CheckPage \/ PageRejected \/ NextRow \/ PageDone \/ EmitBatch \/ ConversionFails \/ Finish
Deadline == ConnectDeadline \/ OperationDeadline
Next == Work \/ Deadline \/ Cancel \/ (ReceiverCloses /\ UNCHANGED paging)
\* Only time is sure to pass.
Spec == Init /\ [][Next]_vars /\ WF_vars(Deadline)

-----------------------------------------------------------------------------
(* Properties.                                                             *)

TypeOK ==
  /\ phase \in {"connect", "info", "begin", "describe", "query", "fetch", "page", "rows", "emit", "rest", "done"}
  /\ session \in {"none", "idle", "read only", "closed"}
  /\ Len(page) <= MaxBatchRows /\ cursor_id \in {0, 1} /\ Len(previous_row) <= 1 /\ StreamTypeOK

\* A server that answers with nothing but promises of more is found out at once: the
\* connector never asks for more pages than there are rows to read, and one.
PagesMakeProgress == fetches <= MaxRows + 2 /\ (phase = "fetch" => fetches <= pos)
=============================================================================
