---------------------------- MODULE MCConnectors ----------------------------
(* Tables of up to five rows with nulls, repeated rows and equal cursors, in   *)
(* any order, and the bounds a page of them is read from, one of them outside  *)
(* the dates a server can compare.  With pages of three rows a page can be     *)
(* empty, short, full or truncated, and is split into batches.  Servers: of    *)
(* the configured product, a fork, an unknown one, ones that lose one of the   *)
(* settings, a cloud edition, one that kept another database.                  *)
EXTENDS Connectors

R(t, i) == [ts |-> t, id |-> i]
SomeTables ==
  {<<>>, <<R(2, 1), R(1, 2)>>, <<R(1, 1), R(1, 1)>>, <<R(1, 1), R(1, 2), R(1, 2)>>,
   <<R(2, Null), R(1, 1)>>, <<R(1, 1), R(2, 1), R(2, 2), R(3, Null)>>, <<R(0, Null), R(2, 1), R(2, 2)>>,
   <<R(1, 1), R(2, 1), R(3, 1), R(4, 1), R(5, 1)>>}
SomeBounds == {NoCursor, Unbounded, From(1, 1, FALSE), From(1, 2, TRUE), From(9, 1, FALSE)}
Repeats == {<<>>, <<R(1, 1)>>, <<R(1, 1), R(1, 1), R(1, 1)>>, <<R(1, 1), R(2, 1), R(2, 1), R(1, 1)>>,
            <<R(1, 1), R(1, 1), R(2, 1), R(2, 1), R(2, 1)>>, <<R(3, Null), R(3, Null), R(2, 1)>>}
OneByte == <<1>>

MyServer(names, utf8mb4, utc, plain) == [names |-> names, utf8mb4 |-> utf8mb4, utc |-> utc, plain_quotes |-> plain]
SomeMySqlServers ==
  {MyServer({"mysql"}, TRUE, TRUE, TRUE), MyServer({"mysql", "mariadb"}, TRUE, TRUE, TRUE),
   MyServer({"mysql", "tidb"}, TRUE, TRUE, TRUE), MyServer({}, TRUE, TRUE, TRUE),
   MyServer({"mysql"}, FALSE, TRUE, TRUE), MyServer({"mysql"}, TRUE, FALSE, TRUE), MyServer({"mysql"}, TRUE, TRUE, FALSE)}
SomeMssqlServers ==
  {[edition |-> 3, database |-> TRUE], [edition |-> 5, database |-> TRUE], [edition |-> 2, database |-> FALSE]}
Forks == {"tidb"}
Dates == 0 .. 5
=============================================================================
