--------------------------- MODULE DeliveryProofs ---------------------------
(***************************************************************************)
(* Proofs about the delivery of segments, for any segments, configurations *)
(* and limits, and any number of lost messages, restarts and edits.  The   *)
(* invariant relates the three places where an event of the current        *)
(* segment can be: counted as delivered, in the request, or not yet read;  *)
(* and an acknowledgment number to the one request it can stand for.       *)
(***************************************************************************)
EXTENDS Delivery, TLAPS, FiniteSetTheorems, WellFoundedInduction

Request == [ack: Nat \cup {None}, events: SUBSET (Segment \X Nat)]

FileTypes ==
  /\ file \in [Segment -> SegmentFile \cup {None}]
  /\ IsFiniteSet({s \in Segment : file[s] # None})

ConfigTypes ==
  /\ config \in [revision: Revision, kind: [InputKey -> Kind \cup {None}]]
  /\ pc \in {"idle", "reading", "flush", "acking", "sent", "mark"}
  /\ cancelled \in BOOLEAN
  /\ splunk \in [next: Nat, pending: SUBSET Request, acked: SUBSET Nat]

\* What was sealed was encoded under the limits of its revision.
SealedFits ==
  \A s \in Segment : file[s] # None =>
    \A k \in DOMAIN Events(s) : Events(s)[k] <= MaxEventBytes(RevisionOf(s))

\* The segments a drain has chosen: each once, ready, of the active configuration.
QueueSound ==
  /\ queue \in Seq(Segment) /\ (pc = "idle") = (queue = <<>>)
  /\ \A j, k \in DOMAIN queue : queue[j] = queue[k] => j = k
  /\ \A k \in DOMAIN queue : /\ file[queue[k]] # None /\ file[queue[k]].life = "ready"
                             /\ file[queue[k]].fingerprint = Fingerprint(file[queue[k]].input)

\* The reader, the request and the books: the request continues where the count ends, and the
\* reader where the request ends.
Position ==
  /\ next \in Nat /\ delivered \in Nat /\ batch \in Seq(Nat) /\ wire \in Seq(Nat)
  /\ next = delivered + Len(batch) + 1
  /\ \A k \in DOMAIN batch : batch[k] = delivered + k
  /\ \A k \in DOMAIN wire : wire[k] = k
  /\ Len(wire) = IF pc \in {"acking", "sent"} THEN delivered + Len(batch) ELSE delivered

\* A request never exceeds the limits while it is built.
RequestBuilt ==
  /\ pc = "idle" => batch = <<>> /\ delivered = 0
  /\ pc # "idle" => /\ next <= Len(Events(Current)) + 1
                    /\ Len(batch) <= MaxEvents(config.revision)
                    /\ BodyBytes(Events(Current), batch) <= MaxBytes(config.revision)
  /\ pc = "flush" => batch # <<>>
  /\ pc = "mark" => batch = <<>> /\ next = Len(Events(Current)) + 1

\* Acknowledgment numbers on the channel were given to requests before.
ChannelSound ==
  /\ \A p \in splunk.pending : p.ack # None => p.ack < splunk.next
  /\ \A a \in splunk.acked : a < splunk.next

\* The number waited for stands for the request that was sent, and for no other.
AckSound ==
  /\ (pc = "acking") = (ack # None) /\ ack \in Nat \cup {None}
  /\ pc = "acking" => /\ UseAck(config.revision)
                      /\ \A p \in splunk.pending : p.ack = ack => Payload \subseteq p.events
                      /\ ack \in splunk.acked => Payload \subseteq indexed

\* With acknowledgment, what is counted can be searched, and so can a request that was acknowledged.
CountedIsIndexed ==
  pc # "idle" /\ UseAck(config.revision) =>
    \A k \in 1 .. (IF pc = "sent" THEN delivered + Len(batch) ELSE delivered) : <<Current, k>> \in indexed

\* The inductive invariant.
DeliveryInv ==
  /\ FileTypes /\ ConfigTypes /\ SealedFits /\ QueueSound /\ Position /\ RequestBuilt
  /\ ChannelSound /\ AckSound /\ CountedIsIndexed /\ DeliveredIsIndexed

-----------------------------------------------------------------------------
(* The length of a request.                                                *)

(* Every set of numbers that is not empty has a least element.             *)
LEMMA LeastNumber ==
  ASSUME NEW S, S \subseteq Nat, S # {}
  PROVE  \E x \in S : \A y \in S : x <= y
<1>1. IsWellFoundedOn(OpToRel(<, Nat), Nat)
  BY NatLessThanWellFounded
<1>2. PICK x \in S : \A y \in S : ~(<<y, x>> \in OpToRel(<, Nat))
  BY <1>1, WFMin
<1>3. \A y \in S : ~(y < x)
  BY <1>2 DEF OpToRel
<1> QED BY <1>3

\* The function behind BodyBytes, up to place m, for a segment with the lengths g.
Sums(f, g, e, m) ==
  f = [n \in 0 .. m |-> IF n = 0 THEN 0
                        ELSE f[n - 1] + (IF n = 1 THEN 0 ELSE 1) + g[e[n]]]

LEMMA SumsExists ==
  ASSUME NEW g, NEW e, NEW m \in Nat
  PROVE  \E f : Sums(f, g, e, m)
<1> DEFINE B == {n \in Nat : ~\E f : Sums(f, g, e, n)}
<1> SUFFICES ASSUME B # {} PROVE FALSE
  OBVIOUS
<1>1. PICK n \in B : \A k \in B : n <= k
  <2>1. B \subseteq Nat
    OBVIOUS
  <2> HIDE DEF B
  <2> QED BY <2>1, LeastNumber
<1>2. n # 0
  <2>1. Sums([k \in 0 .. 0 |-> 0], g, e, 0)
    BY DEF Sums
  <2> QED BY <2>1
<1>3. PICK h : Sums(h, g, e, n - 1)
  <2>1. n - 1 \in Nat /\ ~(n <= n - 1)
    BY <1>2
  <2>2. n - 1 \notin B
    BY <1>1, <2>1
  <2> QED BY <2>1, <2>2
<1> DEFINE f == [k \in 0 .. n |->
                   IF k = n THEN h[n - 1] + (IF n = 1 THEN 0 ELSE 1) + g[e[n]] ELSE h[k]]
<1>4. ASSUME NEW k \in 0 .. n
      PROVE  f[k] = IF k = 0 THEN 0 ELSE f[k - 1] + (IF k = 1 THEN 0 ELSE 1) + g[e[k]]
  <2>1. CASE k = n
    <3>1. n - 1 \in 0 .. n /\ n - 1 # n
      BY <1>2
    <3>2. f[n - 1] = h[n - 1]
      BY <3>1
    <3> QED BY <1>2, <2>1, <3>2
  <2>2. CASE k # n
    <3>1. k \in 0 .. (n - 1) /\ f[k] = h[k]
      BY <2>2
    <3>2. k # 0 => k - 1 \in 0 .. n /\ k - 1 # n
      BY <2>2
    <3>3. k # 0 => f[k - 1] = h[k - 1]
      BY <3>2
    <3>4. h[k] = IF k = 0 THEN 0 ELSE h[k - 1] + (IF k = 1 THEN 0 ELSE 1) + g[e[k]]
      BY <1>3, <3>1 DEF Sums
    <3> QED BY <3>1, <3>3, <3>4
  <2> QED BY <2>1, <2>2
<1>5. f = [k \in 0 .. n |-> f[k]]
  OBVIOUS
<1> HIDE DEF f
<1>6. Sums(f, g, e, n)
  BY <1>4, <1>5 DEF Sums
<1> QED BY <1>1, <1>6

LEMMA SumsFacts ==
  ASSUME NEW g, NEW e, NEW l \in Nat, \A k \in 1 .. l : g[e[k]] \in Nat,
         NEW f, Sums(f, g, e, l), NEW m \in 0 .. l
  PROVE  f[m] \in Nat
<1> DEFINE B == {n \in 0 .. l : f[n] \notin Nat}
<1> SUFFICES ASSUME B # {} PROVE FALSE
  OBVIOUS
<1>1. PICK n \in B : \A k \in B : n <= k
  <2>1. B \subseteq Nat
    OBVIOUS
  <2> HIDE DEF B
  <2> QED BY <2>1, LeastNumber
<1>2. f[n] = IF n = 0 THEN 0 ELSE f[n - 1] + (IF n = 1 THEN 0 ELSE 1) + g[e[n]]
  BY DEF Sums
<1>3. n # 0
  BY <1>2
<1>4. n - 1 \in 0 .. l /\ n - 1 \notin B
  <2>1. n - 1 \in 0 .. l /\ ~(n <= n - 1)
    BY <1>3
  <2> HIDE DEF B
  <2> QED BY <1>1, <2>1
<1>5. f[n - 1] \in Nat
  BY <1>4
<1>6. n \in 1 .. l /\ g[e[n]] \in Nat
  BY <1>3
<1>7. f[n] \in Nat
  BY <1>2, <1>3, <1>5, <1>6
<1> QED BY <1>7

(* The length of a request is a number; one event needs no separator.      *)
LEMMA BodyFacts ==
  ASSUME NEW g, NEW e \in Seq(Nat), \A k \in 1 .. Len(e) : g[e[k]] \in Nat
  PROVE  /\ BodyBytes(g, e) \in Nat
         /\ Len(e) = 0 => BodyBytes(g, e) = 0
         /\ Len(e) = 1 => BodyBytes(g, e) = g[e[1]]
<1> DEFINE f == CHOOSE h : Sums(h, g, e, Len(e))
<1>1. Len(e) \in Nat /\ Len(e) \in 0 .. Len(e)
  OBVIOUS
<1>2. Sums(f, g, e, Len(e))
  BY <1>1, SumsExists
<1>3. BodyBytes(g, e) = f[Len(e)]
  BY DEF BodyBytes, Sums
<1> HIDE DEF f
<1>4. f[Len(e)] \in Nat
  BY <1>1, <1>2, SumsFacts
<1>5. Len(e) = 0 => f[Len(e)] = 0
  BY <1>1, <1>2 DEF Sums
<1>6. ASSUME Len(e) = 1 PROVE f[1] = g[e[1]]
  <2>1. f[1] = f[0] + 0 + g[e[1]] /\ f[0] = 0
    BY <1>2, <1>6 DEF Sums
  <2>2. g[e[1]] \in Nat
    BY <1>6
  <2> QED BY <2>1, <2>2
<1> QED BY <1>3, <1>4, <1>5, <1>6

LEMMA EmptyBody ==
  ASSUME NEW g
  PROVE  BodyBytes(g, <<>>) = 0
<1>1. <<>> \in Seq(Nat) /\ Len(<<>>) = 0 /\ \A k \in 1 .. 0 : g[<<>>[k]] \in Nat
  OBVIOUS
<1> QED BY <1>1, BodyFacts

-----------------------------------------------------------------------------
(* The order of the spool.                                                 *)

Sorted(q, n, S) ==
  /\ q \in [1 .. n -> S]
  /\ \A j, k \in 1 .. n : j < k => SortKey(q[j]) < SortKey(q[k])

(* A set that is not empty has a segment with the least key.               *)
LEMMA FirstSegment ==
  ASSUME NEW S, S \subseteq Segment, S # {}
  PROVE  \E x \in S : \A y \in S \ {x} : SortKey(x) < SortKey(y)
<1> DEFINE K == {SortKey(x) : x \in S}
<1>1. K \subseteq Nat /\ K # {}
  BY DeliveryAssumption
<1>2. PICK n \in K : \A y \in K : n <= y
  <2> HIDE DEF K
  <2> QED BY <1>1, LeastNumber
<1>3. PICK x \in S : n = SortKey(x)
  BY <1>2
<1>4. ASSUME NEW y \in S \ {x} PROVE SortKey(x) < SortKey(y)
  <2>1. SortKey(x) \in Nat /\ SortKey(y) \in Nat /\ SortKey(x) # SortKey(y)
    BY DeliveryAssumption
  <2>2. SortKey(x) <= SortKey(y)
    BY <1>2, <1>3
  <2> QED BY <2>1, <2>2
<1> QED BY <1>3, <1>4

LEMMA SortedExists ==
  ASSUME NEW S, S \subseteq Segment, IsFiniteSet(S)
  PROVE  \E q : Sorted(q, Cardinality(S), S)
<1> DEFINE Bad(n) == \E T \in SUBSET Segment : /\ IsFiniteSet(T) /\ Cardinality(T) = n
                                               /\ ~\E q : Sorted(q, n, T)
           B == {n \in Nat : Bad(n)}
<1>0. Cardinality(S) \in Nat
  BY FS_CardinalityType
<1> SUFFICES ASSUME B # {} PROVE FALSE
  BY <1>0
<1>1. PICK n \in B : \A k \in B : n <= k
  <2>1. B \subseteq Nat
    OBVIOUS
  <2> HIDE DEF B
  <2> QED BY <2>1, LeastNumber
<1>2. n \in Nat /\ Bad(n)
  BY <1>1
<1>3. PICK T \in SUBSET Segment : /\ IsFiniteSet(T) /\ Cardinality(T) = n
                                  /\ ~\E q : Sorted(q, n, T)
  BY <1>2
<1>4. n # 0
  <2>1. ASSUME n = 0 PROVE FALSE
    <3>1. T = {}
      BY <1>3, <2>1, FS_EmptySet
    <3>2. Sorted([k \in 1 .. 0 |-> 0], 0, {})
      BY DEF Sorted
    <3> QED BY <1>3, <2>1, <3>1, <3>2
  <2> QED BY <2>1
<1>5. PICK x \in T : \A y \in T \ {x} : SortKey(x) < SortKey(y)
  <2>1. T # {}
    BY <1>3, <1>4, FS_EmptySet
  <2> QED BY <2>1, FirstSegment
<1>6. IsFiniteSet(T \ {x}) /\ Cardinality(T \ {x}) = n - 1
  BY <1>3, <1>5, FS_RemoveElement
<1>7. n - 1 \in Nat /\ ~(n <= n - 1)
  BY <1>2, <1>4
<1>8. ~Bad(n - 1)
  BY <1>1, <1>7
<1>9. PICK q : Sorted(q, n - 1, T \ {x})
  BY <1>6, <1>8
<1> DEFINE r == [k \in 1 .. n |-> IF k = 1 THEN x ELSE q[k - 1]]
<1>10. ASSUME NEW k \in 1 .. n, k # 1 PROVE k - 1 \in 1 .. (n - 1) /\ r[k] = q[k - 1] /\ r[k] \in T \ {x}
  <2>1. k - 1 \in 1 .. (n - 1) /\ r[k] = q[k - 1]
    BY <1>2, <1>10
  <2> QED BY <1>9, <2>1 DEF Sorted
<1>11. r \in [1 .. n -> T] /\ (1 \in 1 .. n => r[1] = x)
  BY <1>10
<1> HIDE DEF r
<1>12. ASSUME NEW j \in 1 .. n, NEW k \in 1 .. n, j < k PROVE SortKey(r[j]) < SortKey(r[k])
  <2>1. k # 1
    BY <1>12
  <2>2. CASE j = 1
    BY <1>5, <1>10, <1>11, <2>1, <2>2
  <2>3. CASE j # 1
    <3>1. j - 1 \in 1 .. (n - 1) /\ k - 1 \in 1 .. (n - 1) /\ j - 1 < k - 1
      BY <1>2, <1>12, <2>1, <2>3
    <3>2. SortKey(q[j - 1]) < SortKey(q[k - 1])
      BY <1>9, <3>1 DEF Sorted
    <3> QED BY <1>10, <2>1, <2>3, <3>2
  <2> QED BY <2>2, <2>3
<1>13. Sorted(r, n, T)
  BY <1>11, <1>12 DEF Sorted
<1> QED BY <1>3, <1>13

(* Ordered gives the segments of a finite set, each once.                  *)
LEMMA OrderedFacts ==
  ASSUME NEW S, S \subseteq Segment, IsFiniteSet(S), S # {}
  PROVE  /\ Ordered(S) \in Seq(Segment) /\ Ordered(S) # <<>>
         /\ \A k \in DOMAIN Ordered(S) : Ordered(S)[k] \in S
         /\ \A j, k \in DOMAIN Ordered(S) : Ordered(S)[j] = Ordered(S)[k] => j = k
<1> DEFINE n == Cardinality(S)
           q == Ordered(S)
<1>1. n \in Nat /\ n # 0
  BY FS_CardinalityType, FS_EmptySet
<1> HIDE DEF n
<1>2. \E p : Sorted(p, n, S)
  BY SortedExists DEF n
<1>3. \E p \in [1 .. n -> S] : \A j, k \in DOMAIN p : j < k => SortKey(p[j]) < SortKey(p[k])
  <2>1. PICK p : Sorted(p, n, S)
    BY <1>2
  <2>2. p \in [1 .. n -> S] /\ DOMAIN p = 1 .. n
    BY <2>1 DEF Sorted
  <2> QED BY <2>1, <2>2 DEF Sorted
<1>4. q \in [1 .. n -> S] /\ \A j, k \in DOMAIN q : j < k => SortKey(q[j]) < SortKey(q[k])
  BY <1>3 DEF Ordered, n
<1> HIDE DEF q
<1>5. DOMAIN q = 1 .. n /\ \A k \in 1 .. n : q[k] \in S
  BY <1>4
<1>6. q \in Seq(Segment) /\ q # <<>>
  BY <1>1, <1>4
<1>7. ASSUME NEW j \in 1 .. n, NEW k \in 1 .. n, q[j] = q[k] PROVE j = k
  <2>1. SortKey(q[j]) \in Nat
    BY <1>5, DeliveryAssumption
  <2>2. ~(j < k) /\ ~(k < j)
    BY <1>4, <1>5, <1>7, <2>1
  <2> QED BY <2>2
<1> QED BY <1>5, <1>6, <1>7 DEF q

-----------------------------------------------------------------------------
(* The steps keep the invariant: one lemma for each action.                *)

(* The files stay, and nothing that can be searched is forgotten.          *)
LEMMA SameFiles ==
  ASSUME DeliveryInv, file' = file, indexed \subseteq indexed'
  PROVE  FileTypes' /\ SealedFits' /\ DeliveredIsIndexed'
<1>1. FileTypes' /\ SealedFits'
  BY DEF DeliveryInv, FileTypes, SealedFits, Events, RevisionOf
<1>2. DeliveredIsIndexed'
  BY DEF DeliveryInv, DeliveredIsIndexed, Present, Events, RevisionOf
<1> QED BY <1>1, <1>2

(* What holds when no delivery runs.                                       *)
LEMMA IdleFacts ==
  ASSUME DeliveryInv, pc = "idle"
  PROVE  queue = <<>> /\ next = 1 /\ batch = <<>> /\ delivered = 0 /\ ack = None /\ wire = <<>>
<1>1. queue = <<>> /\ batch = <<>> /\ delivered = 0 /\ ack = None
  BY DEF DeliveryInv, QueueSound, RequestBuilt, AckSound
<1>2. wire \in Seq(Nat) /\ Len(wire) = 0 /\ next = delivered + Len(batch) + 1
  BY <1>1 DEF DeliveryInv, Position
<1> QED BY <1>1, <1>2

(* A step that ends without a delivery.                                    *)
LEMMA IdleStep ==
  ASSUME pc' = "idle", queue' = <<>>, Fresh, FileTypes', ConfigTypes', SealedFits',
         DeliveredIsIndexed', ChannelSound'
  PROVE  DeliveryInv'
<1>1. next' = 1 /\ batch' = <<>> /\ delivered' = 0 /\ ack' = None /\ wire' = <<>>
  BY DEF Fresh
<1>2. QueueSound'
  BY DEF QueueSound
<1>3. Position'
  BY <1>1 DEF Position
<1>4. RequestBuilt' /\ AckSound' /\ CountedIsIndexed'
  BY <1>1 DEF RequestBuilt, AckSound, CountedIsIndexed
<1> QED BY <1>2, <1>3, <1>4 DEF DeliveryInv

LEMMA StillIdle ==
  ASSUME DeliveryInv, pc = "idle", UNCHANGED delivery
  PROVE  queue' = <<>> /\ Fresh
BY IdleFacts DEF delivery, Fresh

(* The receiver: a new client, and a request it takes.                     *)
LEMMA NewChannelFacts ==
  ASSUME DeliveryInv, splunk' = NewChannel
  PROVE  splunk' \in [next: Nat, pending: SUBSET Request, acked: SUBSET Nat] /\ ChannelSound'
<1>1. splunk.pending \subseteq Request
  BY DEF DeliveryInv, ConfigTypes
<1>2. \A p \in splunk.pending : [ack |-> None, events |-> p.events] \in Request
  BY <1>1 DEF Request
<1> DEFINE new == {[ack |-> None, events |-> p.events] : p \in splunk.pending}
<1>3. new \subseteq Request /\ \A p \in new : p.ack = None
  BY <1>2
<1>4. splunk' = [next |-> 0, pending |-> new, acked |-> {}]
  BY DEF NewChannel
<1> HIDE DEF new
<1>5. splunk'.next = 0 /\ splunk'.pending = new /\ splunk'.acked = {}
  BY <1>4
<1> QED BY <1>3, <1>4, <1>5 DEF ChannelSound

LEMMA ReceivedFacts ==
  ASSUME DeliveryInv, pc # "idle", splunk' = Received
  PROVE  /\ splunk' \in [next: Nat, pending: SUBSET Request, acked: SUBSET Nat] /\ ChannelSound'
         /\ splunk'.pending = splunk.pending \cup {[ack |-> splunk.next, events |-> Payload]}
         /\ splunk'.acked = splunk.acked
         /\ splunk.next \in Nat /\ splunk.next \notin splunk.acked
         /\ \A p \in splunk.pending : p.ack # splunk.next
<1>1. splunk.next \in Nat /\ splunk.pending \subseteq Request /\ splunk.acked \subseteq Nat
  BY DEF DeliveryInv, ConfigTypes
<1>2. Payload \subseteq Segment \X Nat
  <2>1. queue \in Seq(Segment) /\ queue # <<>> /\ batch \in Seq(Nat)
    BY DEF DeliveryInv, QueueSound, Position
  <2>2. Current \in Segment /\ \A k \in DOMAIN batch : batch[k] \in Nat
    BY <2>1 DEF Current
  <2> QED BY <2>2 DEF Payload
<1> DEFINE new == [ack |-> splunk.next, events |-> Payload]
<1>3. new \in Request /\ new.ack = splunk.next
  BY <1>1, <1>2 DEF Request
<1>4. splunk' = [next |-> splunk.next + 1, acked |-> splunk.acked, pending |-> splunk.pending \cup {new}]
  BY DEF Received
<1> HIDE DEF new
<1>5. splunk'.next = splunk.next + 1 /\ splunk'.acked = splunk.acked /\ splunk'.pending = splunk.pending \cup {new}
  BY <1>4
<1>6. splunk' \in [next: Nat, pending: SUBSET Request, acked: SUBSET Nat]
  BY <1>1, <1>3, <1>4
<1>7. \A p \in splunk.pending : p.ack \in Nat \cup {None} /\ (p.ack # None => p.ack < splunk.next)
  BY <1>1 DEF Request, DeliveryInv, ChannelSound
<1>8. \A a \in splunk.acked : a \in Nat /\ a < splunk.next
  BY <1>1 DEF DeliveryInv, ChannelSound
<1>9. ChannelSound'
  BY <1>1, <1>3, <1>5, <1>7, <1>8, DeliveryAssumption DEF ChannelSound
<1>10. splunk.next \notin splunk.acked /\ \A p \in splunk.pending : p.ack # splunk.next
  BY <1>1, <1>7, <1>8, DeliveryAssumption
<1> QED BY <1>1, <1>5, <1>6, <1>9, <1>10 DEF new

LEMMA SameChannel ==
  ASSUME DeliveryInv, UNCHANGED splunk
  PROVE  splunk' \in [next: Nat, pending: SUBSET Request, acked: SUBSET Nat] /\ ChannelSound'
BY DEF DeliveryInv, ConfigTypes, ChannelSound

(* A delivery that ends with an error leaves the segment as it is.         *)
LEMMA AbortStep ==
  ASSUME DeliveryInv, AbortDelivery, UNCHANGED <<file, config, indexed>>, cancelled' \in BOOLEAN,
         splunk' \in [next: Nat, pending: SUBSET Request, acked: SUBSET Nat], ChannelSound'
  PROVE  DeliveryInv'
<1>1. FileTypes' /\ SealedFits' /\ DeliveredIsIndexed'
  BY SameFiles
<1>2. ConfigTypes'
  BY DEF DeliveryInv, ConfigTypes, AbortDelivery
<1> QED BY <1>1, <1>2, IdleStep DEF AbortDelivery

LEMMA StopStep ==
  ASSUME DeliveryInv, StopCancelled \/ AckTimeout
  PROVE  DeliveryInv'
<1>1. cancelled' \in BOOLEAN
  BY DEF DeliveryInv, ConfigTypes, StopCancelled, AckTimeout
<1> QED BY <1>1, SameChannel, AbortStep DEF StopCancelled, AckTimeout

LEMMA RestartStep ==
  ASSUME DeliveryInv, Restart
  PROVE  DeliveryInv'
BY NewChannelFacts, AbortStep DEF Restart

LEMMA EditStep ==
  ASSUME DeliveryInv, EditConfiguration
  PROVE  DeliveryInv'
<1>1. /\ pc = "idle" /\ pc' = "idle" /\ file' = file /\ indexed' = indexed /\ cancelled' = cancelled
      /\ UNCHANGED delivery /\ splunk' = NewChannel
      /\ config' \in [revision: Revision, kind: [InputKey -> Kind \cup {None}]]
  BY DEF EditConfiguration
<1>2. FileTypes' /\ SealedFits' /\ DeliveredIsIndexed'
  BY <1>1, SameFiles
<1>3. ConfigTypes' /\ ChannelSound'
  BY <1>1, NewChannelFacts DEF DeliveryInv, ConfigTypes
<1> QED BY <1>1, <1>2, <1>3, StillIdle, IdleStep

LEMMA SealStep ==
  ASSUME DeliveryInv, NEW s \in Segment, Seal(s)
  PROVE  DeliveryInv'
<1>1. PICK i \in InputKey, events \in EventLists :
        /\ config.kind[i] # None /\ Encodable(events)
        /\ file' = [file EXCEPT ![s] = [input |-> i, fingerprint |-> Fingerprint(i),
                                        events |-> events, life |-> "ready"]]
  BY DEF Seal
<1> DEFINE f == [input |-> i, fingerprint |-> Fingerprint(i), events |-> events, life |-> "ready"]
<1>2. /\ f \in SegmentFile /\ f # None /\ f.life = "ready" /\ f.events = events
      /\ f.fingerprint.revision = config.revision
  <2>1. config.kind[i] \in Kind /\ config.revision \in Revision
    BY <1>1 DEF DeliveryInv, ConfigTypes
  <2>2. f \in SegmentFile
    BY <2>1 DEF SegmentFile, Fingerprint, Life
  <2> QED BY <2>2, DeliveryAssumption DEF Fingerprint
<1>3. /\ pc = "idle" /\ pc' = "idle" /\ UNCHANGED <<config, delivery, cancelled, splunk, indexed>>
      /\ file[s] = None /\ file' = [file EXCEPT ![s] = f]
  BY <1>1 DEF Seal
<1> HIDE DEF f
<1>4. /\ file \in [Segment -> SegmentFile \cup {None}] /\ file' \in [Segment -> SegmentFile \cup {None}]
      /\ file'[s] = f /\ \A t \in Segment \ {s} : file'[t] = file[t]
  BY <1>2, <1>3 DEF DeliveryInv, FileTypes
<1>5. FileTypes'
  <2> DEFINE old == {t \in Segment : file[t] # None}
             new == {t \in Segment : file'[t] # None}
  <2>1. new = old \cup {s}
    BY <1>2, <1>4
  <2>2. IsFiniteSet(old)
    BY DEF DeliveryInv, FileTypes
  <2> HIDE DEF old
  <2>3. IsFiniteSet(new)
    BY <2>1, <2>2, FS_AddElement
  <2> QED BY <1>4, <2>3 DEF FileTypes
<1>6. SealedFits'
  <2>1. \A k \in DOMAIN events : events[k] <= MaxEventBytes(config.revision)
    BY <1>1 DEF Encodable
  <2>2. ASSUME NEW t \in Segment, file'[t] # None
        PROVE  \A k \in DOMAIN file'[t].events : file'[t].events[k] <= MaxEventBytes(file'[t].fingerprint.revision)
    <3>1. CASE t = s
      BY <1>2, <1>4, <2>1, <3>1
    <3>2. CASE t # s
      BY <1>4, <2>2, <3>2 DEF DeliveryInv, SealedFits, Events, RevisionOf
    <3> QED BY <3>1, <3>2
  <2> QED BY <2>2 DEF SealedFits, Events, RevisionOf
<1>7. DeliveredIsIndexed'
  <2>1. ASSUME NEW t \in Segment, file'[t] # None, file'[t].life \in {"delivered", "compacted"}
        PROVE  file'[t] = file[t]
    BY <1>2, <1>4, <2>1
  <2> QED BY <1>3, <2>1 DEF DeliveryInv, DeliveredIsIndexed, Present, Events, RevisionOf
<1>8. ConfigTypes' /\ ChannelSound'
  BY <1>3 DEF DeliveryInv, ConfigTypes, ChannelSound
<1> QED BY <1>3, <1>5, <1>6, <1>7, <1>8, StillIdle, IdleStep

(* Others act while a delivery runs.                                       *)
LEMMA BesideStep ==
  ASSUME DeliveryInv, UNCHANGED <<file, config, pc, delivery>>, indexed \subseteq indexed',
         cancelled' \in BOOLEAN,
         splunk' \in [next: Nat, pending: SUBSET Request, acked: SUBSET Nat], ChannelSound', AckSound'
  PROVE  DeliveryInv'
<1>1. FileTypes' /\ SealedFits' /\ DeliveredIsIndexed'
  BY SameFiles
<1>2. UNCHANGED <<queue, next, batch, delivered, wire>>
  BY DEF delivery
<1>3. ConfigTypes'
  BY DEF DeliveryInv, ConfigTypes
<1>4. QueueSound'
  BY <1>2 DEF DeliveryInv, QueueSound, Fingerprint
<1>5. Position'
  BY <1>2 DEF DeliveryInv, Position
<1>6. RequestBuilt'
  BY <1>2 DEF DeliveryInv, RequestBuilt, Current, Events
<1>7. CountedIsIndexed'
  BY <1>2 DEF DeliveryInv, CountedIsIndexed, Current
<1> QED BY <1>1, <1>3, <1>4, <1>5, <1>6, <1>7 DEF DeliveryInv

LEMMA CancelStep ==
  ASSUME DeliveryInv, Cancel
  PROVE  DeliveryInv'
<1>1. UNCHANGED <<file, config, pc, delivery, splunk, indexed>> /\ cancelled' \in BOOLEAN
  BY DEF Cancel
<1>2. AckSound'
  BY <1>1 DEF DeliveryInv, AckSound, delivery, Payload, Current
<1> QED BY <1>1, <1>2, SameChannel, BesideStep

LEMMA SplunkRestartStep ==
  ASSUME DeliveryInv, SplunkRestart
  PROVE  DeliveryInv'
<1>1. UNCHANGED <<file, config, pc, delivery, cancelled, indexed>> /\ splunk' = EmptyChannel
  BY DEF SplunkRestart
<1>2. splunk'.next = 0 /\ splunk'.pending = {} /\ splunk'.acked = {}
  BY <1>1 DEF EmptyChannel
<1>3. splunk' \in [next: Nat, pending: SUBSET Request, acked: SUBSET Nat] /\ ChannelSound'
  <2>1. EmptyChannel \in [next: Nat, pending: SUBSET Request, acked: SUBSET Nat]
    BY DEF EmptyChannel
  <2> QED BY <1>1, <1>2, <2>1 DEF ChannelSound
<1>4. AckSound'
  BY <1>1, <1>2 DEF DeliveryInv, AckSound, delivery
<1>5. cancelled' \in BOOLEAN
  BY <1>1 DEF DeliveryInv, ConfigTypes
<1> QED BY <1>1, <1>3, <1>4, <1>5, BesideStep

(* A request that is indexed is acknowledged by its own number.            *)
LEMMA IndexStep ==
  ASSUME DeliveryInv, Index
  PROVE  DeliveryInv'
<1>1. PICK p \in splunk.pending :
        /\ splunk' = [next |-> splunk.next, pending |-> splunk.pending \ {p},
                      acked |-> splunk.acked \cup ({p.ack} \ {None})]
        /\ indexed' = indexed \cup p.events
  BY DEF Index
<1>2. UNCHANGED <<file, config, pc, delivery, cancelled>> /\ indexed \subseteq indexed'
  BY <1>1 DEF Index
<1>3. /\ splunk'.next = splunk.next /\ splunk'.pending = splunk.pending \ {p}
      /\ splunk'.acked = splunk.acked \cup ({p.ack} \ {None})
  BY <1>1
<1>4. /\ splunk.next \in Nat /\ splunk.pending \subseteq Request /\ splunk.acked \subseteq Nat
      /\ p.ack \in Nat \cup {None}
  BY DEF DeliveryInv, ConfigTypes, Request
<1>5. splunk' \in [next: Nat, pending: SUBSET Request, acked: SUBSET Nat]
  BY <1>1, <1>4
<1>6. ChannelSound'
  BY <1>3 DEF DeliveryInv, ChannelSound
<1>7. AckSound'
  <2>1. UNCHANGED <<queue, batch, ack>> /\ Payload' = Payload
    BY <1>2 DEF delivery, Payload, Current
  <2>2. ASSUME pc = "acking"
        PROVE  /\ \A r \in splunk'.pending : r.ack = ack => Payload \subseteq r.events
               /\ ack \in splunk'.acked => Payload \subseteq indexed'
    <3>1. /\ \A r \in splunk.pending : r.ack = ack => Payload \subseteq r.events
          /\ ack \in splunk.acked => Payload \subseteq indexed
      BY <2>2 DEF DeliveryInv, AckSound
    <3>2. CASE ack = p.ack
      BY <1>1, <1>3, <3>1, <3>2
    <3>3. CASE ack # p.ack
      BY <1>1, <1>3, <3>1, <3>3
    <3> QED BY <3>2, <3>3
  <2>3. /\ (pc = "acking") = (ack # None) /\ ack \in Nat \cup {None}
        /\ pc = "acking" => UseAck(config.revision)
    BY DEF DeliveryInv, AckSound
  <2> QED BY <1>2, <2>1, <2>2, <2>3 DEF AckSound
<1>8. cancelled' \in BOOLEAN
  BY <1>2 DEF DeliveryInv, ConfigTypes
<1> QED BY <1>2, <1>5, <1>6, <1>7, <1>8, BesideStep

(* The segment that is delivered, and the limits of its revision.          *)
LEMMA CurrentFacts ==
  ASSUME DeliveryInv, pc # "idle"
  PROVE  /\ Current \in Segment /\ file[Current] \in SegmentFile /\ file[Current] # None
         /\ file[Current].life = "ready" /\ RevisionOf(Current) = config.revision
         /\ file[Current].fingerprint = Fingerprint(file[Current].input)
         /\ Events(Current) \in Seq(Nat)
         /\ MaxEvents(config.revision) \in Nat \ {0} /\ MaxBytes(config.revision) \in Nat
         /\ \A k \in 1 .. Len(Events(Current)) : Events(Current)[k] <= MaxBytes(config.revision)
<1>1. queue \in Seq(Segment) /\ queue # <<>> /\ 1 \in DOMAIN queue /\ Current = queue[1]
  BY DEF DeliveryInv, QueueSound, Current
<1>2. /\ Current \in Segment /\ file[Current] # None /\ file[Current].life = "ready"
      /\ file[Current].fingerprint = Fingerprint(file[Current].input)
  BY <1>1 DEF DeliveryInv, QueueSound
<1> HIDE DEF Current
<1>3. file[Current] \in SegmentFile
  BY <1>2 DEF DeliveryInv, FileTypes
<1>4. RevisionOf(Current) = config.revision
  BY <1>2 DEF RevisionOf, Fingerprint
<1>5. Events(Current) \in Seq(Nat)
  BY <1>3, DeliveryAssumption DEF SegmentFile, Events
<1>6. config.revision \in Revision
  BY DEF DeliveryInv, ConfigTypes
<1>7. /\ MaxEvents(config.revision) \in Nat \ {0} /\ MaxBytes(config.revision) \in Nat
      /\ MaxEventBytes(config.revision) \in Nat
      /\ MaxEventBytes(config.revision) <= MaxBytes(config.revision)
  BY <1>6, DeliveryAssumption
<1>8. \A k \in 1 .. Len(Events(Current)) :
        Events(Current)[k] \in Nat /\ Events(Current)[k] <= MaxEventBytes(config.revision)
  BY <1>2, <1>4, <1>5 DEF DeliveryInv, SealedFits
<1>9. \A k \in 1 .. Len(Events(Current)) : Events(Current)[k] <= MaxBytes(config.revision)
  BY <1>7, <1>8
<1> QED BY <1>2, <1>3, <1>4, <1>5, <1>7, <1>9

(* A delivery begins with an empty request.                                *)
LEMMA BeginStep ==
  ASSUME pc' = "reading", queue' # <<>>, Fresh, QueueSound', FileTypes', ConfigTypes', SealedFits',
         DeliveredIsIndexed', ChannelSound'
  PROVE  DeliveryInv'
<1>1. next' = 1 /\ batch' = <<>> /\ delivered' = 0 /\ ack' = None /\ wire' = <<>>
  BY DEF Fresh
<1>2. Position'
  BY <1>1 DEF Position
<1>3. AckSound' /\ CountedIsIndexed'
  BY <1>1 DEF AckSound, CountedIsIndexed
<1>4. Events(Current)' \in Seq(Nat)
  <2>1. queue' \in Seq(Segment) /\ 1 \in DOMAIN queue' /\ Current' = queue'[1]
    BY DEF QueueSound, Current
  <2>2. Current' \in Segment /\ file'[Current'] # None
    BY <2>1 DEF QueueSound
  <2> HIDE DEF Current
  <2>3. file'[Current'] \in SegmentFile
    BY <2>2 DEF FileTypes
  <2> QED BY <2>3, DeliveryAssumption DEF SegmentFile, Events
<1>5. config'.revision \in Revision
  BY DEF ConfigTypes
<1>6. MaxEvents(config'.revision) \in Nat \ {0} /\ MaxBytes(config'.revision) \in Nat
  BY <1>5, DeliveryAssumption
<1>7. BodyBytes(Events(Current)', <<>>) = 0
  BY EmptyBody
<1>8. RequestBuilt'
  <2>1. Len(Events(Current)') \in Nat
    BY <1>4
  <2>2. Len(<<>>) = 0
    OBVIOUS
  <2> QED BY <1>1, <1>6, <1>7, <2>1, <2>2 DEF RequestBuilt
<1> QED BY <1>2, <1>3, <1>8 DEF DeliveryInv

LEMMA BeginRisingStep ==
  ASSUME DeliveryInv, NEW s \in Segment, BeginRising(s)
  PROVE  DeliveryInv'
<1>1. /\ pc' = "reading" /\ queue' = <<s>> /\ Fresh /\ UNCHANGED <<file, config, cancelled, splunk, indexed>>
      /\ file[s] # None /\ file[s].life = "ready" /\ file[s].fingerprint = Fingerprint(file[s].input)
  BY DEF BeginRising, Present
<1>2. FileTypes' /\ SealedFits' /\ DeliveredIsIndexed'
  BY <1>1, SameFiles
<1>3. ConfigTypes' /\ ChannelSound'
  BY <1>1 DEF DeliveryInv, ConfigTypes, ChannelSound
<1>4. QueueSound'
  <2>1. queue' \in Seq(Segment) /\ queue' # <<>> /\ DOMAIN queue' = {1} /\ queue'[1] = s
    BY <1>1
  <2>2. Fingerprint(file[s].input)' = Fingerprint(file[s].input)
    BY <1>1 DEF Fingerprint
  <2>3. \A k \in DOMAIN queue' : k = 1
    BY <2>1
  <2>4. /\ file'[queue'[1]] # None /\ file'[queue'[1]].life = "ready"
        /\ file'[queue'[1]].fingerprint = Fingerprint(file[queue[1]].input)'
    BY <1>1, <2>1 DEF Fingerprint
  <2> QED BY <1>1, <2>1, <2>3, <2>4 DEF QueueSound
<1>5. queue' # <<>>
  BY <1>1
<1> QED BY <1>1, <1>2, <1>3, <1>4, <1>5, BeginStep

(* Files of the drain: what was delivered is compacted.                    *)
LEMMA BeginDrainStep ==
  ASSUME DeliveryInv, BeginDrain
  PROVE  DeliveryInv'
<1>1. pc = "idle" /\ UNCHANGED <<config, cancelled, splunk, indexed>>
  BY DEF BeginDrain
<1>2. CASE Refuse
  <2>1. FileTypes' /\ SealedFits' /\ DeliveredIsIndexed'
    BY <1>1, <1>2, SameFiles DEF Refuse
  <2>2. ConfigTypes' /\ ChannelSound'
    BY <1>1, <1>2 DEF DeliveryInv, ConfigTypes, ChannelSound, Refuse
  <2> QED BY <1>1, <1>2, <2>1, <2>2, StillIdle, IdleStep DEF Refuse
<1>3. CASE /\ \A s \in Present("ready") : Admitted(s)
           /\ file' = [s \in Segment |->
                         IF s \in Compactable THEN [file[s] EXCEPT !.life = "compacted"] ELSE file[s]]
           /\ \/ UNCHANGED <<pc, delivery>>
              \/ pc' = "reading" /\ queue' = Ordered(Selected) /\ Fresh /\ Selected # {}
  <2>1. ASSUME NEW s \in Segment, s \in Compactable
        PROVE  /\ file[s] \in SegmentFile /\ file[s].life = "delivered" /\ file'[s] \in SegmentFile
               /\ file'[s].events = file[s].events /\ file'[s].fingerprint = file[s].fingerprint
               /\ file'[s].life = "compacted"
    <3>1. file[s] # None /\ file[s].life = "delivered"
      BY <2>1 DEF Compactable, Leftover, Present
    <3>2. file[s] \in SegmentFile
      BY <3>1 DEF DeliveryInv, FileTypes
    <3>3. file'[s] = [file[s] EXCEPT !.life = "compacted"]
      BY <1>3, <2>1
    <3> QED BY <3>1, <3>2, <3>3 DEF SegmentFile, Life
  <2>2. \A s \in Segment : s \notin Compactable => file'[s] = file[s]
    BY <1>3
  <2>3. \A s \in Segment : (file'[s] # None) = (file[s] # None)
    BY <2>1, <2>2, DeliveryAssumption
  <2>4. FileTypes'
    <3>1. {s \in Segment : file'[s] # None} = {s \in Segment : file[s] # None}
      BY <2>3
    <3>2. IsFiniteSet({s \in Segment : file'[s] # None})
      BY <3>1 DEF DeliveryInv, FileTypes
    <3>3. \A s \in Segment : file'[s] \in SegmentFile \cup {None}
      BY <2>1, <2>2 DEF DeliveryInv, FileTypes
    <3>4. file' = [s \in Segment |-> file'[s]]
      BY <1>3
    <3>5. file' \in [Segment -> SegmentFile \cup {None}]
      BY <3>3, <3>4
    <3> QED BY <3>2, <3>5 DEF FileTypes
  <2>5. \A s \in Segment : file'[s].events = file[s].events /\ file'[s].fingerprint = file[s].fingerprint
    BY <2>1, <2>2
  <2>6. SealedFits'
    BY <2>3, <2>5 DEF DeliveryInv, SealedFits, Events, RevisionOf
  <2>7. DeliveredIsIndexed'
    <3>1. ASSUME NEW s \in Segment, file'[s] # None, file'[s].life \in {"delivered", "compacted"}
          PROVE  file[s] # None /\ file[s].life \in {"delivered", "compacted"}
      BY <2>1, <2>2, <2>3, <3>1
    <3> QED BY <1>1, <2>5, <3>1 DEF DeliveryInv, DeliveredIsIndexed, Present, Events, RevisionOf
  <2>8. ConfigTypes' /\ ChannelSound'
    BY <1>1, <1>3 DEF DeliveryInv, ConfigTypes, ChannelSound
  <2>9. CASE UNCHANGED <<pc, delivery>>
    BY <1>1, <2>4, <2>6, <2>7, <2>8, <2>9, StillIdle, IdleStep
  <2>10. CASE pc' = "reading" /\ queue' = Ordered(Selected) /\ Fresh /\ Selected # {}
    <3>1. Selected \subseteq Segment /\ IsFiniteSet(Selected)
      <4>1. Selected \subseteq {s \in Segment : file[s] # None}
        BY DEF Selected, Present
      <4>2. IsFiniteSet({s \in Segment : file[s] # None})
        BY DEF DeliveryInv, FileTypes
      <4> QED BY <4>1, <4>2, FS_Subset
    <3>2. /\ queue' \in Seq(Segment) /\ queue' # <<>>
          /\ \A k \in DOMAIN queue' : queue'[k] \in Selected
          /\ \A j, k \in DOMAIN queue' : queue'[j] = queue'[k] => j = k
      BY <2>10, <3>1, OrderedFacts
    <3>3. ASSUME NEW s \in Selected
          PROVE  /\ file'[s] = file[s] /\ file[s] # None /\ file[s].life = "ready"
                 /\ file[s].fingerprint = Fingerprint(file[s].input)
      <4>1. s \in Segment /\ s \in Present("ready") /\ config.kind[file[s].input] = "batch"
        BY DEF Selected, Present
      <4>2. file[s] # None /\ file[s].life = "ready"
        BY <4>1 DEF Present
      <4>3. s \notin Compactable
        BY <2>1, <4>1, <4>2
      <4>4. file[s].fingerprint = Fingerprint(file[s].input)
        BY <1>3, <4>1 DEF Admitted
      <4> QED BY <2>2, <4>1, <4>2, <4>3, <4>4
    <3>4. QueueSound'
      <4>1. ASSUME NEW k \in DOMAIN queue'
            PROVE  /\ file'[queue'[k]] # None /\ file'[queue'[k]].life = "ready"
                   /\ file'[queue'[k]].fingerprint = Fingerprint(file[queue[k]].input)'
        <5>1. queue'[k] \in Selected
          BY <3>2
        <5> QED BY <1>1, <3>3, <5>1 DEF Fingerprint
      <4> QED BY <2>10, <3>2, <4>1 DEF QueueSound
    <3> QED BY <2>4, <2>6, <2>7, <2>8, <2>10, <3>2, <3>4, BeginStep
  <2> QED BY <1>3, <2>9, <2>10
<1> QED BY <1>2, <1>3 DEF BeginDrain

(* A step of one delivery: the segment, its files and the configuration stay. *)
LEMMA WithinFacts ==
  ASSUME DeliveryInv, pc # "idle", pc' # "idle", UNCHANGED <<file, config, queue, indexed>>
  PROVE  /\ FileTypes' /\ SealedFits' /\ DeliveredIsIndexed' /\ QueueSound'
         /\ Current' = Current /\ Events(Current)' = Events(Current)
<1>1. FileTypes' /\ SealedFits' /\ DeliveredIsIndexed'
  BY SameFiles
<1>2. QueueSound'
  BY DEF DeliveryInv, QueueSound, Fingerprint
<1>3. Current' = Current /\ Events(Current)' = Events(Current)
  BY DEF Current, Events
<1> QED BY <1>1, <1>2, <1>3

LEMMA LastEventStep ==
  ASSUME DeliveryInv, LastEvent
  PROVE  DeliveryInv'
<1>1. /\ pc = "reading" /\ next > Len(Events(Current)) /\ pc' = (IF batch = <<>> THEN "mark" ELSE "flush")
      /\ UNCHANGED <<file, config, queue, next, batch, delivered, ack, wire, cancelled, splunk, indexed>>
  BY DEF LastEvent, delivery
<1>2. /\ FileTypes' /\ SealedFits' /\ DeliveredIsIndexed' /\ QueueSound'
      /\ Current' = Current /\ Events(Current)' = Events(Current)
  BY <1>1, WithinFacts
<1>3. Events(Current) \in Seq(Nat) /\ Len(Events(Current)) \in Nat /\ next \in Nat
  BY <1>1, CurrentFacts DEF DeliveryInv, Position
<1>4. ConfigTypes' /\ ChannelSound'
  BY <1>1 DEF DeliveryInv, ConfigTypes, ChannelSound
<1>5. Position'
  BY <1>1 DEF DeliveryInv, Position
<1>6. RequestBuilt'
  BY <1>1, <1>2, <1>3 DEF DeliveryInv, RequestBuilt
<1>7. AckSound' /\ CountedIsIndexed'
  BY <1>1, <1>2 DEF DeliveryInv, AckSound, CountedIsIndexed
<1> QED BY <1>2, <1>4, <1>5, <1>6, <1>7 DEF DeliveryInv

LEMMA ReadEventStep ==
  ASSUME DeliveryInv, ReadEvent
  PROVE  DeliveryInv'
<1> DEFINE E == Events(Current)
<1>1. /\ pc = "reading" /\ next <= Len(E) /\ ~TooLong
      /\ UNCHANGED <<file, config, queue, delivered, ack, wire, cancelled, splunk, indexed>>
      /\ \/ Overflows /\ pc' = "flush" /\ UNCHANGED <<next, batch>>
         \/ ~Overflows /\ batch' = Append(batch, next) /\ next' = next + 1 /\ pc' = pc
  BY DEF ReadEvent
<1>2. pc' \in {"reading", "flush"}
  BY <1>1
<1>3. /\ FileTypes' /\ SealedFits' /\ DeliveredIsIndexed' /\ QueueSound'
      /\ Current' = Current /\ Events(Current)' = E
  BY <1>1, <1>2, WithinFacts
<1>4. /\ E \in Seq(Nat) /\ MaxEvents(config.revision) \in Nat \ {0} /\ MaxBytes(config.revision) \in Nat
      /\ \A k \in 1 .. Len(E) : E[k] <= MaxBytes(config.revision)
  BY <1>1, CurrentFacts
<1> HIDE DEF E
<1>5. /\ next \in Nat /\ delivered \in Nat /\ batch \in Seq(Nat) /\ wire \in Seq(Nat)
      /\ next = delivered + Len(batch) + 1 /\ Len(batch) \in Nat /\ DOMAIN batch = 1 .. Len(batch)
      /\ \A k \in 1 .. Len(batch) : batch[k] = delivered + k
      /\ Len(wire) = delivered /\ \A k \in DOMAIN wire : wire[k] = k
      /\ Len(batch) <= MaxEvents(config.revision) /\ BodyBytes(E, batch) <= MaxBytes(config.revision)
  BY <1>1 DEF DeliveryInv, Position, RequestBuilt, E
<1> DEFINE more == Append(batch, next)
<1>6. /\ more \in Seq(Nat) /\ Len(more) = Len(batch) + 1 /\ DOMAIN more = 1 .. (Len(batch) + 1)
      /\ \A k \in 1 .. (Len(batch) + 1) : more[k] = delivered + k
  <2>1. /\ more \in Seq(Nat) /\ Len(more) = Len(batch) + 1 /\ DOMAIN more = 1 .. (Len(batch) + 1)
        /\ (\A k \in 1 .. Len(batch) : more[k] = batch[k]) /\ more[Len(batch) + 1] = next
    BY <1>5
  <2>2. \A k \in 1 .. (Len(batch) + 1) : k \in 1 .. Len(batch) \/ k = Len(batch) + 1
    BY <1>5
  <2>3. delivered + (Len(batch) + 1) = next
    BY <1>5
  <2> HIDE DEF more
  <2> QED BY <1>5, <2>1, <2>2, <2>3
<1> HIDE DEF more
<1>7. \A k \in 1 .. Len(more) : E[more[k]] \in Nat
  <2>1. Len(E) \in Nat /\ \A k \in 1 .. Len(more) : delivered + k \in 1 .. Len(E)
    BY <1>1, <1>4, <1>5, <1>6
  <2> QED BY <1>4, <1>6, <2>1
<1>8. BodyBytes(E, more) \in Nat /\ (Len(more) = 1 => BodyBytes(E, more) = E[more[1]])
  BY <1>6, <1>7, BodyFacts
<1> DEFINE limit == MaxEvents(config.revision)
           bytes == MaxBytes(config.revision)
           body == BodyBytes(E, more)
<1>9. /\ Overflows => Len(batch) = limit \/ body > bytes
      /\ ~Overflows => Len(batch) # limit /\ ~(body > bytes)
  BY DEF Overflows, E, more
<1>0. limit \in Nat \ {0} /\ bytes \in Nat /\ body \in Nat /\ Len(batch) <= limit
  BY <1>4, <1>5, <1>8
<1> HIDE DEF limit, bytes, body
<1>10. Overflows => batch # <<>>
  <2> SUFFICES ASSUME batch = <<>> PROVE ~Overflows
    OBVIOUS
  <2>1. Len(batch) = 0 /\ Len(more) = 1 /\ more[1] = next /\ next \in 1 .. Len(E)
    <3>1. Len(E) \in Nat
      BY <1>4
    <3>2. Len(batch) = 0
      OBVIOUS
    <3> QED BY <1>1, <1>5, <1>6, <3>1, <3>2
  <2>2. body = E[next] /\ E[next] <= bytes
    BY <1>4, <1>8, <2>1 DEF body, bytes
  <2>3. ~(body > bytes) /\ Len(batch) # limit
    BY ONLY <1>0, <2>1, <2>2
  <2> QED BY <1>9, <2>3
<1>11. ~Overflows => Len(more) <= MaxEvents(config.revision) /\ BodyBytes(E, more) <= MaxBytes(config.revision)
  <2>1. ASSUME Len(batch) # limit, ~(body > bytes) PROVE Len(batch) + 1 <= limit /\ body <= bytes
    <3>1. Len(batch) \in Nat
      BY <1>5
    <3> QED BY ONLY <1>0, <2>1, <3>1
  <2> QED BY <1>6, <1>9, <2>1 DEF limit, bytes, body
<1>12. ConfigTypes' /\ ChannelSound'
  BY <1>1, <1>2 DEF DeliveryInv, ConfigTypes, ChannelSound
<1>13. Position'
  <2>1. CASE UNCHANGED <<next, batch>>
    BY <1>1, <1>2, <1>5, <2>1 DEF Position
  <2>2. CASE batch' = more /\ next' = next + 1
    <3>1. next' \in Nat /\ next' = delivered + Len(more) + 1
      <4>1. /\ next \in Nat /\ delivered \in Nat /\ Len(batch) \in Nat /\ next = delivered + Len(batch) + 1
            /\ Len(more) = Len(batch) + 1
        BY <1>5, <1>6
      <4> QED BY ONLY <2>2, <4>1
    <3>2. delivered' = delivered /\ wire' = wire /\ pc' \notin {"acking", "sent"}
      BY <1>1, <1>2
    <3>3. /\ batch' \in Seq(Nat) /\ next' = delivered' + Len(batch') + 1
          /\ \A k \in DOMAIN batch' : batch'[k] = delivered' + k
      BY <1>6, <2>2, <3>1, <3>2
    <3> QED BY <1>5, <3>1, <3>2, <3>3 DEF Position
  <2> QED BY <1>1, <2>1, <2>2 DEF more
<1>14. RequestBuilt'
  <2>0. Len(E) \in Nat
    BY <1>4
  <2>1. CASE Overflows /\ pc' = "flush" /\ UNCHANGED <<next, batch>>
    BY <1>1, <1>3, <1>5, <1>10, <2>0, <2>1 DEF RequestBuilt
  <2>2. CASE ~Overflows /\ batch' = more /\ next' = next + 1 /\ pc' = pc
    <3>1. next + 1 <= Len(E) + 1
      BY <1>1, <1>5, <2>0
    <3> QED BY <1>1, <1>3, <1>11, <2>2, <3>1 DEF RequestBuilt
  <2> QED BY <1>1, <2>1, <2>2 DEF more
<1>15. AckSound' /\ CountedIsIndexed'
  BY <1>1, <1>2, <1>3 DEF DeliveryInv, AckSound, CountedIsIndexed
<1> QED BY <1>3, <1>12, <1>13, <1>14, <1>15 DEF DeliveryInv

LEMMA JoinFacts ==
  ASSUME NEW s \in Seq(Nat), NEW t \in Seq(Nat)
  PROVE  s \o t \in Seq(Nat) /\ Len(s \o t) = Len(s) + Len(t) /\ Len(t) \in Nat
OBVIOUS

(* A request that was sent and answered: the number it was given stands for it alone. *)
LEMMA SendBatchStep ==
  ASSUME DeliveryInv, SendBatch
  PROVE  DeliveryInv'
<1>1. pc = "flush" /\ UNCHANGED <<file, config, cancelled, indexed>> /\ (Accepted \/ Unanswered)
  BY DEF SendBatch
<1>2. cancelled' \in BOOLEAN
  BY <1>1 DEF DeliveryInv, ConfigTypes
<1>3. CASE Unanswered
  <2>1. splunk' \in [next: Nat, pending: SUBSET Request, acked: SUBSET Nat] /\ ChannelSound'
    BY <1>1, <1>3, SameChannel, ReceivedFacts DEF Unanswered
  <2> QED BY <1>1, <1>2, <1>3, <2>1, AbortStep DEF Unanswered
<1>4. CASE Accepted
  <2>1. /\ splunk' = Received /\ wire' = wire \o batch /\ UNCHANGED <<queue, next, batch, delivered>>
        /\ \/ UseAck(config.revision) /\ pc' = "acking" /\ ack' = splunk.next
           \/ ~UseAck(config.revision) /\ pc' = "sent" /\ ack' = None
    BY <1>4 DEF Accepted
  <2>2. pc' \in {"acking", "sent"} /\ pc' # "idle"
    BY <2>1
  <2>3. /\ splunk' \in [next: Nat, pending: SUBSET Request, acked: SUBSET Nat] /\ ChannelSound'
        /\ splunk'.pending = splunk.pending \cup {[ack |-> splunk.next, events |-> Payload]}
        /\ splunk'.acked = splunk.acked
        /\ splunk.next \in Nat /\ splunk.next \notin splunk.acked
        /\ \A p \in splunk.pending : p.ack # splunk.next
    BY <1>1, <2>1, ReceivedFacts
  <2>4. /\ FileTypes' /\ SealedFits' /\ DeliveredIsIndexed' /\ QueueSound'
        /\ Current' = Current /\ Events(Current)' = Events(Current)
    BY <1>1, <2>1, <2>2, WithinFacts
  <2>5. ConfigTypes'
    BY <1>1, <2>2, <2>3 DEF DeliveryInv, ConfigTypes
  <2>6. Position'
    <3>1. /\ next \in Nat /\ delivered \in Nat /\ batch \in Seq(Nat) /\ wire \in Seq(Nat)
          /\ next = delivered + Len(batch) + 1 /\ Len(wire) = delivered
          /\ (\A k \in DOMAIN batch : batch[k] = delivered + k) /\ \A k \in DOMAIN wire : wire[k] = k
      BY <1>1 DEF DeliveryInv, Position
    <3>2. /\ wire' \in Seq(Nat) /\ Len(wire') = delivered + Len(batch) /\ Len(batch) \in Nat
          /\ DOMAIN wire' = 1 .. (delivered + Len(batch))
      <4>1. (wire \o batch) \in Seq(Nat) /\ Len(wire \o batch) = Len(wire) + Len(batch) /\ Len(batch) \in Nat
        BY <3>1, JoinFacts
      <4>2. wire' \in Seq(Nat) /\ Len(wire') = delivered + Len(batch)
        BY <2>1, <3>1, <4>1
      <4> QED BY <4>1, <4>2
    <3>3. ASSUME NEW k \in 1 .. (delivered + Len(batch)) PROVE wire'[k] = k
      <4>1. CASE k <= delivered
        <5>1. k \in DOMAIN wire /\ wire'[k] = wire[k]
          BY <2>1, <3>1, <3>2, <4>1
        <5> QED BY <3>1, <5>1
      <4>2. CASE ~(k <= delivered)
        <5>1. /\ k - delivered \in 1 .. Len(batch) /\ delivered + (k - delivered) = k
          BY <3>1, <3>2, <4>2
        <5>2. wire'[k] = batch[k - delivered]
          BY <2>1, <3>1, <3>2, <4>2
        <5>3. batch[k - delivered] = delivered + (k - delivered)
          BY <3>1, <5>1
        <5> QED BY <5>1, <5>2, <5>3
      <4> QED BY <4>1, <4>2
    <3> QED BY <2>1, <2>2, <3>1, <3>2, <3>3 DEF Position
  <2>7. RequestBuilt'
    BY <1>1, <2>1, <2>2, <2>4 DEF DeliveryInv, RequestBuilt
  <2>8. AckSound'
    <3>1. Payload' = Payload
      BY <2>1, <2>4 DEF Payload
    <3>2. CASE pc' = "sent"
      BY <2>1, <3>2 DEF AckSound
    <3>3. CASE pc' = "acking"
      <4>1. UseAck(config'.revision) /\ ack' = splunk.next /\ ack' # None /\ ack' \in Nat
        BY <1>1, <2>1, <2>3, <3>3, DeliveryAssumption
      <4>2. \A p \in splunk'.pending : p.ack = ack' => Payload \subseteq p.events
        BY <2>3, <4>1
      <4>3. ack' \notin splunk'.acked
        BY <2>3, <4>1
      <4> QED BY <3>1, <3>3, <4>1, <4>2, <4>3 DEF AckSound
    <3> QED BY <2>2, <3>2, <3>3
  <2>9. CountedIsIndexed'
    <3>1. CASE UseAck(config.revision)
      <4>1. pc' = "acking"
        BY <2>1, <3>1
      <4> QED BY <1>1, <2>1, <2>4, <4>1 DEF DeliveryInv, CountedIsIndexed
    <3>2. CASE ~UseAck(config.revision)
      BY <1>1, <3>2 DEF CountedIsIndexed
    <3> QED BY <3>1, <3>2
  <2> QED BY <2>3, <2>4, <2>5, <2>6, <2>7, <2>8, <2>9 DEF DeliveryInv
<1> QED BY <1>1, <1>3, <1>4

(* The acknowledgment: the events of the request can be searched.          *)
LEMMA PollAckStep ==
  ASSUME DeliveryInv, PollAck
  PROVE  DeliveryInv'
<1>1. /\ pc = "acking" /\ pc' = "sent" /\ ack \in splunk.acked /\ ack' = None
      /\ UNCHANGED <<file, config, queue, next, batch, delivered, wire, cancelled, splunk, indexed>>
  BY DEF PollAck
<1>2. /\ FileTypes' /\ SealedFits' /\ DeliveredIsIndexed' /\ QueueSound'
      /\ Current' = Current /\ Events(Current)' = Events(Current)
  BY <1>1, WithinFacts
<1>3. ConfigTypes' /\ ChannelSound'
  BY <1>1 DEF DeliveryInv, ConfigTypes, ChannelSound
<1>4. Position'
  BY <1>1 DEF DeliveryInv, Position
<1>5. RequestBuilt'
  BY <1>1, <1>2 DEF DeliveryInv, RequestBuilt
<1>6. AckSound'
  BY <1>1 DEF AckSound
<1>7. CountedIsIndexed'
  <2>1. UseAck(config.revision) /\ Payload \subseteq indexed
    BY <1>1 DEF DeliveryInv, AckSound
  <2>2. \A k \in 1 .. delivered : <<Current, k>> \in indexed
    BY <1>1, <2>1 DEF DeliveryInv, CountedIsIndexed
  <2>3. /\ delivered \in Nat /\ batch \in Seq(Nat) /\ Len(batch) \in Nat /\ DOMAIN batch = 1 .. Len(batch)
        /\ \A k \in DOMAIN batch : batch[k] = delivered + k
    BY DEF DeliveryInv, Position
  <2>4. ASSUME NEW k \in 1 .. (delivered + Len(batch)) PROVE <<Current, k>> \in indexed
    <3>1. CASE k <= delivered
      <4>1. k \in 1 .. delivered
        BY <2>3, <3>1
      <4> QED BY <2>2, <4>1
    <3>2. CASE ~(k <= delivered)
      <4>1. k - delivered \in DOMAIN batch /\ delivered + (k - delivered) = k
        BY <2>3, <3>2
      <4>2. batch[k - delivered] = k
        BY <2>3, <4>1
      <4>3. <<Current, batch[k - delivered]>> \in Payload
        BY <4>1 DEF Payload
      <4> QED BY <2>1, <4>2, <4>3
    <3> QED BY <3>1, <3>2
  <2> QED BY <1>1, <1>2, <2>4 DEF CountedIsIndexed
<1> QED BY <1>2, <1>3, <1>4, <1>5, <1>6, <1>7 DEF DeliveryInv

LEMMA CountSentStep ==
  ASSUME DeliveryInv, CountSent
  PROVE  DeliveryInv'
<1>1. /\ pc = "sent" /\ pc' = "reading" /\ delivered' = delivered + Len(batch) /\ batch' = <<>>
      /\ UNCHANGED <<file, config, queue, next, ack, wire, cancelled, splunk, indexed>>
  BY DEF CountSent
<1>2. /\ FileTypes' /\ SealedFits' /\ DeliveredIsIndexed' /\ QueueSound'
      /\ Current' = Current /\ Events(Current)' = Events(Current)
  BY <1>1, WithinFacts
<1>3. ConfigTypes' /\ ChannelSound'
  BY <1>1 DEF DeliveryInv, ConfigTypes, ChannelSound
<1>4. /\ next \in Nat /\ delivered \in Nat /\ batch \in Seq(Nat) /\ wire \in Seq(Nat)
      /\ next = delivered + Len(batch) + 1 /\ Len(wire) = delivered + Len(batch) /\ Len(batch) \in Nat
      /\ \A k \in DOMAIN wire : wire[k] = k
  BY <1>1 DEF DeliveryInv, Position
<1>5. delivered' \in Nat /\ next' = delivered' + 0 + 1 /\ Len(wire') = delivered' /\ Len(batch') = 0
  BY <1>1, <1>4
<1>6. Position'
  BY <1>1, <1>4, <1>5 DEF Position
<1>7. RequestBuilt'
  <2>1. MaxEvents(config.revision) \in Nat /\ MaxBytes(config.revision) \in Nat
    BY <1>1, CurrentFacts
  <2>2. BodyBytes(Events(Current), <<>>) = 0
    BY EmptyBody
  <2>3. next <= Len(Events(Current)) + 1
    BY <1>1 DEF DeliveryInv, RequestBuilt
  <2> QED BY <1>1, <1>2, <1>5, <2>1, <2>2, <2>3 DEF RequestBuilt
<1>8. AckSound'
  BY <1>1 DEF DeliveryInv, AckSound
<1>9. CountedIsIndexed'
  BY <1>1, <1>2 DEF DeliveryInv, CountedIsIndexed
<1> QED BY <1>2, <1>3, <1>6, <1>7, <1>8, <1>9 DEF DeliveryInv

(* A segment is marked when every row of it was counted; the drain goes on to the next one. *)
LEMMA MarkDeliveredStep ==
  ASSUME DeliveryInv, MarkDelivered
  PROVE  DeliveryInv'
<1>1. /\ pc = "mark" /\ delivered = Len(Events(Current)) /\ Fresh
      /\ UNCHANGED <<config, cancelled, splunk, indexed>>
  BY DEF MarkDelivered
<1>2. PICK life \in {"delivered", "compacted"} :
        /\ file' = [file EXCEPT ![Current].life = life]
        /\ \/ pc' = "idle" /\ queue' = <<>>
           \/ Len(queue) # 1 /\ pc' = "reading" /\ queue' = Tail(queue)
  BY DEF MarkDelivered
<1>3. /\ Current \in Segment /\ file[Current] \in SegmentFile /\ file[Current] # None
      /\ RevisionOf(Current) = config.revision /\ Events(Current) \in Seq(Nat)
  BY <1>1, CurrentFacts
<1>4. queue \in Seq(Segment) /\ queue # <<>> /\ Current = queue[1]
  BY <1>1 DEF DeliveryInv, QueueSound, Current
<1>5. UseAck(config.revision) => \A k \in 1 .. Len(Events(Current)) : <<Current, k>> \in indexed
  BY <1>1 DEF DeliveryInv, CountedIsIndexed
<1> DEFINE c == Current
           f == [file[c] EXCEPT !.life = life]
<1>6. /\ f \in SegmentFile /\ f # None /\ f.events = file[c].events /\ f.fingerprint = file[c].fingerprint
      /\ f.life = life
  <2>1. f \in SegmentFile
    BY <1>3 DEF SegmentFile, Life
  <2>2. f.events = file[c].events /\ f.fingerprint = file[c].fingerprint /\ f.life = life
    BY <1>3 DEF SegmentFile
  <2> QED BY <2>1, <2>2, DeliveryAssumption
<1>7. file \in [Segment -> SegmentFile \cup {None}] /\ file' = [file EXCEPT ![c] = f]
  BY <1>2 DEF DeliveryInv, FileTypes
<1> HIDE DEF c, f
<1>8. c \in Segment /\ file[c] # None
  BY <1>3 DEF c
<1>9. /\ file' \in [Segment -> SegmentFile \cup {None}] /\ file'[c] = f
      /\ \A s \in Segment \ {c} : file'[s] = file[s]
  BY <1>6, <1>7, <1>8
<1>10. \A s \in Segment : /\ (file'[s] # None) = (file[s] # None)
                          /\ file'[s].events = file[s].events /\ file'[s].fingerprint = file[s].fingerprint
  BY <1>6, <1>8, <1>9
<1>11. FileTypes'
  <2>1. {s \in Segment : file'[s] # None} = {s \in Segment : file[s] # None}
    BY <1>10
  <2>2. IsFiniteSet({s \in Segment : file'[s] # None})
    BY <2>1 DEF DeliveryInv, FileTypes
  <2> QED BY <1>9, <2>2 DEF FileTypes
<1>12. SealedFits'
  BY <1>10 DEF DeliveryInv, SealedFits, Events, RevisionOf
<1>13. DeliveredIsIndexed'
  <2>1. ASSUME NEW s \in Segment, file'[s] # None, file'[s].life \in {"delivered", "compacted"},
               UseAck(file'[s].fingerprint.revision)
        PROVE  \A k \in DOMAIN file'[s].events : <<s, k>> \in indexed'
    <3>1. CASE s = c
      <4>1. file'[s].fingerprint.revision = config.revision
        BY <1>3, <1>8, <1>10, <3>1 DEF RevisionOf, c
      <4>2. file'[s].events = Events(Current) /\ DOMAIN Events(Current) = 1 .. Len(Events(Current))
        BY <1>3, <1>8, <1>10, <3>1 DEF Events, c
      <4> QED BY <1>1, <1>5, <2>1, <3>1, <4>1, <4>2 DEF c
    <3>2. CASE s # c
      <4>1. file'[s] = file[s]
        BY <1>9, <3>2
      <4> QED BY <1>1, <2>1, <4>1 DEF DeliveryInv, DeliveredIsIndexed, Present, Events, RevisionOf
    <3> QED BY <3>1, <3>2
  <2> QED BY <2>1 DEF DeliveredIsIndexed, Present, Events, RevisionOf
<1>14. ChannelSound' /\ ConfigTypes'
  BY <1>1, <1>2 DEF DeliveryInv, ConfigTypes, ChannelSound
<1>15. CASE pc' = "idle" /\ queue' = <<>>
  BY <1>1, <1>11, <1>12, <1>13, <1>14, <1>15, IdleStep
<1>16. CASE Len(queue) # 1 /\ pc' = "reading" /\ queue' = Tail(queue)
  <2>1. /\ queue' \in Seq(Segment) /\ queue' # <<>> /\ DOMAIN queue' = 1 .. (Len(queue) - 1)
        /\ \A k \in 1 .. (Len(queue) - 1) : queue'[k] = queue[k + 1]
    <3>1. Len(queue) \in Nat /\ Len(queue) # 0
      BY <1>4
    <3>2. /\ Tail(queue) \in Seq(Segment) /\ Len(Tail(queue)) = Len(queue) - 1
          /\ \A k \in 1 .. (Len(queue) - 1) : Tail(queue)[k] = queue[k + 1]
      BY <1>4
    <3>3. Len(queue) - 1 # 0 /\ Len(queue) - 1 \in Nat
      BY <1>16, <3>1
    <3>4. DOMAIN Tail(queue) = 1 .. (Len(queue) - 1)
      BY <3>2
    <3>5. Tail(queue) # <<>>
      <4>1. Len(<<>>) = 0
        OBVIOUS
      <4> QED BY <3>2, <3>3, <4>1
    <3> QED BY <1>16, <3>2, <3>4, <3>5
  <2>2. ASSUME NEW k \in DOMAIN queue' PROVE k + 1 \in DOMAIN queue /\ 1 \in DOMAIN queue /\ k + 1 # 1 /\ queue'[k] = queue[k + 1]
    <3>1. Len(queue) \in Nat /\ DOMAIN queue = 1 .. Len(queue)
      BY <1>4
    <3> QED BY <2>1, <3>1
  <2>3. \A j, k \in DOMAIN queue : queue[j] = queue[k] => j = k
    BY DEF DeliveryInv, QueueSound
  <2>4. ASSUME NEW k \in DOMAIN queue' PROVE queue'[k] \in Segment /\ queue'[k] # c
    <3>1. queue'[k] \in Segment
      BY <1>4, <2>2
    <3>2. queue[k + 1] # queue[1]
      BY <2>2, <2>3
    <3> QED BY <1>4, <2>2, <3>1, <3>2 DEF c
  <2>5. ASSUME NEW k \in DOMAIN queue'
        PROVE  /\ file'[queue'[k]] # None /\ file'[queue'[k]].life = "ready"
               /\ file'[queue'[k]].fingerprint = Fingerprint(file[queue[k]].input)'
    <3>1. file'[queue'[k]] = file[queue'[k]]
      BY <1>9, <2>4
    <3>2. /\ file[queue[k + 1]] # None /\ file[queue[k + 1]].life = "ready"
          /\ file[queue[k + 1]].fingerprint = Fingerprint(file[queue[k + 1]].input)
      BY <2>2 DEF DeliveryInv, QueueSound
    <3> QED BY <1>1, <2>2, <3>1, <3>2 DEF Fingerprint
  <2>6. ASSUME NEW j \in DOMAIN queue', NEW k \in DOMAIN queue', queue'[j] = queue'[k] PROVE j = k
    <3>1. j + 1 = k + 1
      BY <2>2, <2>3, <2>6
    <3>2. j \in Nat /\ k \in Nat
      BY <2>1
    <3> QED BY ONLY <3>1, <3>2
  <2>7. QueueSound'
    BY <1>16, <2>1, <2>5, <2>6 DEF QueueSound
  <2> QED BY <1>1, <1>11, <1>12, <1>13, <1>14, <1>16, <2>1, <2>7, BeginStep
<1> QED BY <1>2, <1>15, <1>16

LEMMA SameStep ==
  ASSUME DeliveryInv, UNCHANGED vars
  PROVE  DeliveryInv'
<1>1. UNCHANGED <<file, config, pc, delivery, splunk, indexed, cancelled>>
  BY DEF vars
<1>2. AckSound' /\ cancelled' \in BOOLEAN
  BY <1>1 DEF DeliveryInv, ConfigTypes, AckSound, delivery, Payload, Current
<1> QED BY <1>1, <1>2, SameChannel, BesideStep

-----------------------------------------------------------------------------
(* The theorems.                                                           *)

LEMMA DeliveryStart ==
  ASSUME Init
  PROVE  DeliveryInv
<1>1. FileTypes
  <2>1. {s \in Segment : file[s] # None} = {}
    BY DEF Init
  <2>2. IsFiniteSet({s \in Segment : file[s] # None})
    BY <2>1, FS_EmptySet
  <2> QED BY <2>2 DEF Init, FileTypes
<1>2. splunk \in [next: Nat, pending: SUBSET Request, acked: SUBSET Nat] /\ ChannelSound
  <2>1. EmptyChannel \in [next: Nat, pending: SUBSET Request, acked: SUBSET Nat]
    BY DEF EmptyChannel
  <2>2. splunk.pending = {} /\ splunk.acked = {}
    BY DEF Init, EmptyChannel
  <2> QED BY <2>1, <2>2 DEF Init, ChannelSound
<1>3. config \in [revision: Revision, kind: [InputKey -> Kind \cup {None}]]
  <2>1. PICK k \in [InputKey -> Kind] : config = [revision |-> Initial, kind |-> k]
    BY DEF Init
  <2>2. k \in [InputKey -> Kind \cup {None}]
    OBVIOUS
  <2> QED BY <2>1, <2>2, DeliveryAssumption
<1>4. ConfigTypes
  BY <1>2, <1>3 DEF Init, ConfigTypes
<1>5. SealedFits /\ DeliveredIsIndexed
  BY DEF Init, SealedFits, DeliveredIsIndexed, Present
<1>6. QueueSound
  BY DEF Init, QueueSound
<1>7. Position
  BY DEF Init, Position
<1>8. RequestBuilt /\ AckSound /\ CountedIsIndexed
  BY DEF Init, RequestBuilt, AckSound, CountedIsIndexed
<1> QED BY <1>1, <1>2, <1>4, <1>5, <1>6, <1>7, <1>8 DEF DeliveryInv

LEMMA DeliveryStep ==
  ASSUME DeliveryInv, [Next]_vars
  PROVE  DeliveryInv'
<1>1. CASE UNCHANGED vars
  BY <1>1, SameStep
<1>2. CASE Deliver
  BY <1>2, BeginDrainStep, BeginRisingStep, StopStep, ReadEventStep, LastEventStep, SendBatchStep,
     PollAckStep, CountSentStep, MarkDeliveredStep DEF Deliver
<1>3. CASE \E s \in Segment : Seal(s)
  BY <1>3, SealStep
<1>4. CASE EditConfiguration \/ Index \/ SplunkRestart \/ Cancel \/ Restart
  BY <1>4, EditStep, IndexStep, SplunkRestartStep, CancelStep, RestartStep
<1> QED BY <1>1, <1>2, <1>3, <1>4 DEF Next

LEMMA DeliveryAlways == Spec => []DeliveryInv
<1>1. Init => DeliveryInv
  BY DeliveryStart
<1>2. DeliveryInv /\ [Next]_vars => DeliveryInv'
  BY DeliveryStep
<1> QED BY <1>1, <1>2, PTL DEF Spec

(* With indexer acknowledgment, mark_delivered (worker.rs) is reached only when Splunk can        *)
(* search every event of the segment: whatever requests and answers are lost, however late Splunk *)
(* indexes, though its acknowledgment numbers start again when it restarts or the client is       *)
(* rebuilt, no row is dropped from the spool that Splunk does not have.                           *)
THEOREM DeliveredStaysIndexed == Spec => []DeliveredIsIndexed
<1>1. DeliveryInv => DeliveredIsIndexed
  BY DEF DeliveryInv
<1> QED BY <1>1, DeliveryAlways, PTL

(* Every request of deliver_ready_segment_sync respects max_events and max_bytes, separators      *)
(* included, and is not empty; the requests of a delivery hold each event once, in the order of   *)
(* the segment, and all of them when it is marked; the two errors the worker has for its own      *)
(* books are unreachable.                                                                         *)
THEOREM SendingStaysSound == Spec => []SendingIsSound
<1>1. ASSUME DeliveryInv PROVE SendingIsSound
  <2>1. TypeOK
    <3>1. ASSUME NEW s \in Segment, file[s] # None
          PROVE  /\ file[s].input \in InputKey /\ file[s].events \in EventLists /\ file[s].life \in Life
                 /\ RevisionOf(s) \in Revision /\ KindOf(s) \in Kind
      <4>1. file[s] \in SegmentFile
        BY <1>1, <3>1 DEF DeliveryInv, FileTypes
      <4> QED BY <4>1 DEF SegmentFile, RevisionOf, KindOf
    <3>2. /\ config \in [revision: Revision, kind: [InputKey -> Kind \cup {None}]]
          /\ pc \in {"idle", "reading", "flush", "acking", "sent", "mark"} /\ cancelled \in BOOLEAN
      BY <1>1 DEF DeliveryInv, ConfigTypes
    <3>3. (pc = "idle") = (queue = <<>>) /\ (pc = "acking") = (ack # None)
      BY <1>1 DEF DeliveryInv, QueueSound, AckSound
    <3> QED BY <3>1, <3>2, <3>3 DEF TypeOK
  <2>2. RequestFits
    BY <1>1 DEF DeliveryInv, RequestBuilt, RequestFits
  <2>3. ASSUME pc = "mark" PROVE delivered = Len(Events(Current)) /\ Len(wire) = delivered
    <3>1. batch = <<>> /\ next = Len(Events(Current)) + 1
      BY <1>1, <2>3 DEF DeliveryInv, RequestBuilt
    <3>2. /\ next = delivered + Len(batch) + 1 /\ delivered \in Nat /\ Len(wire) = delivered
          /\ Len(Events(Current)) \in Nat
      BY <1>1, <2>3, CurrentFacts DEF DeliveryInv, Position
    <3> QED BY <3>1, <3>2
  <2>4. SentOnceInOrder
    BY <1>1, <2>3 DEF DeliveryInv, Position, SentOnceInOrder
  <2>5. ASSUME pc = "reading" PROVE ~TooLong
    <3>1. /\ Events(Current) \in Seq(Nat) /\ MaxBytes(config.revision) \in Nat
          /\ \A k \in 1 .. Len(Events(Current)) : Events(Current)[k] <= MaxBytes(config.revision)
      BY <1>1, <2>5, CurrentFacts
    <3>2. next \in Nat /\ next # 0
      BY <1>1 DEF DeliveryInv, Position
    <3>3. ASSUME next <= Len(Events(Current)) PROVE ~(Events(Current)[next] > MaxBytes(config.revision))
      <4>1. next \in 1 .. Len(Events(Current)) /\ Events(Current)[next] \in Nat
        BY <3>1, <3>2, <3>3
      <4>2. Events(Current)[next] <= MaxBytes(config.revision)
        BY <3>1, <4>1
      <4> QED BY ONLY <3>1, <4>1, <4>2
    <3> QED BY <3>3 DEF TooLong
  <2>6. BooksBalance
    BY <2>3, <2>5 DEF BooksBalance
  <2> QED BY <2>1, <2>2, <2>4, <2>6 DEF SendingIsSound
<1> QED BY <1>1, DeliveryAlways, PTL

(* validate_replay_header fences the drain: a segment is sent, and leaves the ready ones, only    *)
(* under the configuration it was collected with, whatever is edited between two deliveries.      *)
THEOREM SegmentsKeepTheirRevision == Spec => SentUnderOwnRevision
<1> DEFINE Own == /\ pc = "flush" => file[Current].fingerprint = Fingerprint(file[Current].input)
                  /\ \A s \in Present("ready") : file'[s] # file[s] =>
                       file[s].fingerprint = Fingerprint(file[s].input)
<1>1. ASSUME DeliveryInv, [Next]_vars PROVE [Own]_vars
  <2>1. pc = "flush" => file[Current].fingerprint = Fingerprint(file[Current].input)
    BY <1>1, CurrentFacts
  <2>2. CASE file' = file
    BY <2>1, <2>2
  <2>3. CASE \E t \in Segment : Seal(t)
    <3>1. PICK t \in Segment : Seal(t)
      BY <2>3
    <3>2. file[t] = None /\ \A s \in Segment \ {t} : file'[s] = file[s]
      BY <1>1, <3>1 DEF Seal, DeliveryInv, FileTypes
    <3>3. ASSUME NEW s \in Present("ready") PROVE file'[s] = file[s]
      BY <3>2 DEF Present
    <3> QED BY <2>1, <3>3
  <2>4. CASE BeginDrain
    <3>1. CASE file' # file
      <4>1. file' = [s \in Segment |->
                       IF s \in Compactable THEN [file[s] EXCEPT !.life = "compacted"] ELSE file[s]]
        BY <2>4, <3>1 DEF BeginDrain, Refuse
      <4>2. ASSUME NEW s \in Present("ready") PROVE file'[s] = file[s]
        <5>1. s \in Segment /\ s \notin Compactable
          BY DEF Present, Compactable, Leftover
        <5> QED BY <4>1, <5>1
      <4> QED BY <2>1, <4>2
    <3> QED BY <2>2, <3>1
  <2>5. CASE MarkDelivered
    <3>1. /\ Current \in Segment /\ file[Current].fingerprint = Fingerprint(file[Current].input)
      BY <1>1, <2>5, CurrentFacts DEF MarkDelivered
    <3>2. \A s \in Segment : s # Current => file'[s] = file[s]
      <4>1. PICK life : file' = [file EXCEPT ![Current].life = life]
        BY <2>5 DEF MarkDelivered
      <4> QED BY <1>1, <4>1 DEF DeliveryInv, FileTypes
    <3>3. ASSUME NEW s \in Present("ready"), file'[s] # file[s] PROVE s = Current
      BY <3>2, <3>3 DEF Present
    <3> QED BY <2>1, <3>1, <3>3
  <2>6. CASE \/ \E s \in Segment : BeginRising(s)
             \/ StopCancelled \/ ReadEvent \/ LastEvent \/ SendBatch \/ PollAck \/ AckTimeout \/ CountSent
    <3>1. file' = file
      BY <2>6 DEF BeginRising, StopCancelled, ReadEvent, LastEvent, SendBatch, PollAck, AckTimeout, CountSent
    <3> QED BY <2>2, <3>1
  <2>7. CASE EditConfiguration \/ Index \/ SplunkRestart \/ Cancel \/ Restart \/ UNCHANGED vars
    <3>1. file' = file
      BY <2>7 DEF EditConfiguration, Index, SplunkRestart, Cancel, Restart, vars
    <3> QED BY <2>2, <3>1
  <2> QED BY <1>1, <2>3, <2>4, <2>5, <2>6, <2>7 DEF Next, Deliver
<1> QED BY <1>1, DeliveryAlways, PTL DEF Spec, SentUnderOwnRevision

=============================================================================
