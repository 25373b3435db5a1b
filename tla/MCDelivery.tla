----------------------------- MODULE MCDelivery -----------------------------
(* Two segments of an input under three configurations: one with small       *)
(* requests and indexer acknowledgment, one with smaller requests and none,  *)
(* and one that disables the output.                                         *)
EXTENDS Delivery
CONSTANTS s1, s2, i1, acked, plain, off

Key(s) == IF s = s1 THEN 1 ELSE 2
Events2(r) == 2
Bytes(r) == IF r = plain THEN 2 ELSE 4
EventBytes(r) == IF r = plain THEN 2 ELSE 3
Ack(r) == r # plain
Enabled(r) == r # off
\* Two events of length two fill a request of four but for the newline between them.
Lists == {<<2, 2, 1>>, <<3>>}
=============================================================================
