----------------------------- MODULE Connectors -----------------------------
(***************************************************************************)
(* The connectors as the native host drives them                           *)
(* (crates/dbx-rs-native-connectors/src/lib.rs): the configured connector  *)
(* id chooses one of the four, which then runs one operation alone.        *)
(*                                                                         *)
(* Simplifications: those of the connectors' modules; the two products the *)
(* MySQL connector serves differ only in the name the server must give.    *)
(***************************************************************************)
EXTENDS ConnectorRead

CONSTANTS Product, OtherProducts, MySqlServers, MssqlServers, ServerDates,
          PlainTables                \* tables of queries without a cursor

VARIABLES connector,                 \* connector_id of the operation
          server, last_tcp_error, refusals, stopping,
          page, more, cursor_id, previous_row, fetches

common == <<connector, op, table, bound, phase, left, session, pos, previous, pending, sent, bytes, truncated,
            receiver, outcome>>
paging == <<page, more, cursor_id, previous_row, fetches>>
vars == <<common, server, last_tcp_error, refusals, stopping, paging>>

Postgres == INSTANCE PostgresRead
MySql == INSTANCE MySqlRead WITH Servers <- MySqlServers
Mssql == INSTANCE MssqlRead WITH Servers <- MssqlServers
Oracle == INSTANCE OracleRead WITH Tables <- PlainTables, Bounds <- {NoCursor}

NoServer == [names |-> {}, edition |-> 0]
NoPages == page = <<>> /\ more = FALSE /\ cursor_id = 0 /\ previous_row = <<>> /\ fetches = 0

Init ==
  \/ /\ connector = "postgres" /\ Postgres!Init
     /\ server = NoServer /\ last_tcp_error = FALSE /\ refusals = 0 /\ stopping = Mssql!NotStopped /\ NoPages
  \/ connector = "mysql" /\ MySql!Init /\ stopping = Mssql!NotStopped /\ NoPages
  \/ connector = "mssql" /\ Mssql!Init /\ refusals = 0 /\ NoPages
  \/ /\ connector = "oracle" /\ Oracle!Init
     /\ server = NoServer /\ last_tcp_error = FALSE /\ refusals = 0 /\ stopping = Mssql!NotStopped

PostgresStep ==
  /\ connector = "postgres" /\ Postgres!Next
  /\ UNCHANGED <<connector, server, last_tcp_error, refusals, stopping, paging>>
MySqlStep == connector = "mysql" /\ MySql!Next /\ UNCHANGED <<connector, stopping, paging>>
MssqlStep == connector = "mssql" /\ Mssql!Next /\ UNCHANGED <<connector, refusals, paging>>
OracleStep == connector = "oracle" /\ Oracle!Next /\ UNCHANGED <<connector, server, last_tcp_error, refusals, stopping>>

Next == PostgresStep \/ MySqlStep \/ MssqlStep \/ OracleStep

\* The time limits of the connectors that have one for each await.
TimePasses ==
  \/ /\ connector = "postgres" /\ (Postgres!Deadline \/ Postgres!NoAddress)
     /\ UNCHANGED <<connector, server, last_tcp_error, refusals, stopping, paging>>
  \/ connector = "mysql" /\ (MySql!Deadline \/ MySql!NoAddress) /\ UNCHANGED <<connector, stopping, paging>>
  \/ connector = "oracle" /\ Oracle!Deadline /\ UNCHANGED <<connector, server, last_tcp_error, refusals, stopping>>

\* Only time is sure to pass: a server, the network and the host may never answer.
Spec == Init /\ [][Next]_vars /\ WF_vars(TimePasses)

-----------------------------------------------------------------------------
(* Properties; ImplementsContract is that of ConnectorRead.                *)

\* The state of an operation has the types of its connector.
TypeOK ==
  /\ connector = "postgres" => Postgres!TypeOK
  /\ connector = "mysql" => MySql!TypeOK
  /\ connector = "mssql" => Mssql!TypeOK
  /\ connector = "oracle" => Oracle!TypeOK

\* The page a connector sends keeps to the request, and its order passes no null.
PageIsSound == TypeOK /\ NullNeverPassed /\ LimitsKept

\* Rows are sent only from a session that was checked: inside the read-only transaction, and
\* from a server of the configured product that kept the session's settings or database,
\* whichever of the host's addresses answered in the end.
SessionIsChecked ==
  /\ connector = "postgres" => Postgres!ReadOnlyOnly
  /\ connector = "mysql" => MySql!SessionIsChecked
  /\ connector = "mssql" => Mssql!SessionIsChecked

\* The connector gives up in time: credentials a server has refused are not offered to the
\* host's other addresses (MySQL), an operation told to stop reports why even when it
\* finishes during the grace (SQL Server), and a server that answers with nothing but
\* promises of more pages is found out at once (Oracle).
GivesUp ==
  /\ connector = "mysql" => MySql!CredentialsOnce
  /\ connector = "mssql" => Mssql!StoppedIsReported
  /\ connector = "oracle" => Oracle!PagesMakeProgress

\* The session an operation runs in, and when it is given up.
SessionIsSound == SessionIsChecked /\ GivesUp

\* Every operation of a connector with a deadline around each await ends.
OperationEnds == connector # "mssql" => <>(phase = "done")
=============================================================================
