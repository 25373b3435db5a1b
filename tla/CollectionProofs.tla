-------------------------- MODULE CollectionProofs --------------------------
(***************************************************************************)
(* Proofs about one collection after another, for any requests, answers    *)
(* and channel capacities, and any number of faults of the connector and   *)
(* of the disk.  The invariant follows each row the connector has sent to  *)
(* the one place where it is: the batch channel, the batch being checked,  *)
(* the row channel or the segment, in this order and without a gap, as     *)
(* long as neither the materializer nor the spool has failed.              *)
(***************************************************************************)
EXTENDS Collection, TLAPS

ConnState == {"off", "prepare", "execute", "succeeded", "failed"}
MatState == {"off", "receiving", "rows", "succeeded", "failed"}
HostState == {"idle", "operating", "grace", "returned"}
SpoolState == {"off", "writing", "done", "failed"}
SegmentState == {"none", "open", "ready", "aborted"}

EnvelopeSet == [sequence: Nat, schema: Schemas \cup {None}, count: Nat, rows: Seq(Row), sound: BOOLEAN]
Report == [rows: Nat, batches: Nat, truncated: BOOLEAN]
Cause == {"host", "connector", "cancelled", "timeout"}
Fail == [cause: Cause]
Success == [cause: {None}, rows: Nat, truncated: BOOLEAN, candidate: Position, resume: Position]
Facts == [rows: Nat, truncated: BOOLEAN, candidate: Position, resume: Position]
Inputs == {r.input : r \in Requests}
Lineages == {r.lineage : r \in Requests}
Id == {"rising", "batch"} \X Inputs \X (Lineages \cup Nat) \X (Row \cup Nat)
Event == [row: Row, id: Id]

ConnSet == [state: ConnState, sent: Seq(Row), batches: Nat, error: Failure \cup {None},
            result: Report \cup {None}, schema: Schemas \cup {None}]
MatSet == [state: MatState, envelope: Seq(Row), rows: Nat, bytes: Nat, batches: Nat,
           last: Position, candidate: Position]
HostSet == [state: HostState, result: Fail \cup Success \cup {None}]
SpoolSet == [state: SpoolState, rows: Nat]
SegmentSet == [state: SegmentState, events: Seq(Event), facts: Facts \cup {None}, outcome: Outcome \cup {None}]
SpentSet == [faults: Nat, attempts: Nat]

Types ==
  /\ request \in Requests \cup {None} /\ answer \in Seq(Row)
  /\ conn \in ConnSet /\ mat \in MatSet /\ host \in HostSet /\ spool \in SpoolSet
  /\ segment \in SegmentSet /\ spent \in SpentSet /\ cancelled \in BOOLEAN
  /\ ipc \in Seq(EnvelopeSet) /\ Len(ipc) <= IpcCapacity
  /\ lines \in Seq(Row) /\ Len(lines) <= RowCapacity
  /\ segment.state # "none" => request \in Requests
  /\ spool.rows = Len(segment.events)

\* How far each activity is, and what that says of the others.
Phases ==
  /\ (conn.state = "failed") = (conn.error # None)
  /\ conn.state = "succeeded" => conn.result \in Report
  /\ Running => Operating /\ host.result = None
  /\ conn.state \in {"off", "prepare"} => mat.state = "off"
  /\ mat.state \in {"receiving", "rows"} => Operating /\ host.result = None
  /\ mat.state # "rows" /\ mat.state # "failed" => mat.envelope = <<>>
  /\ mat.state \in {"off", "succeeded"} => ipc = <<>>
  /\ mat.state = "succeeded" => ~Running
  /\ (segment.state = "open") = (host.state # "idle")
  /\ (segment.state = "open") = (spool.state # "off")
  /\ segment.state = "open" => segment.outcome = None
  /\ host.state = "returned" => host.result # None
  /\ spool.state # "writing" => lines = <<>>

\* The batches q hold the rows sent after the first n, in order and up to the end.
Queued(q, sent, n) ==
  \E off \in [1 .. (Len(q) + 1) -> 0 .. Len(sent)] :
    /\ off[1] = n /\ off[Len(q) + 1] = Len(sent)
    /\ \A j \in 1 .. Len(q) :
         /\ off[j + 1] = off[j] + Len(q[j].rows)
         /\ \A k \in 1 .. Len(q[j].rows) : q[j].rows[k] = sent[off[j] + k]

Healthy == segment.state \in {"open", "ready"} /\ mat.state # "failed" /\ spool.state # "failed"

\* Where the rows are that the connector has sent.
Flow ==
  Healthy =>
    /\ mat.rows = Len(segment.events) + Len(lines)
    /\ mat.rows + Len(mat.envelope) <= request.maxRows
    /\ mat.rows + Len(mat.envelope) <= Len(conn.sent)
    /\ \A k \in 1 .. Len(segment.events) : segment.events[k].row = conn.sent[k]
    /\ \A k \in 1 .. Len(lines) : lines[k] = conn.sent[Len(segment.events) + k]
    /\ \A k \in 1 .. Len(mat.envelope) : mat.envelope[k] = conn.sent[mat.rows + k]
    /\ Queued(ipc, conn.sent, mat.rows + Len(mat.envelope))

\* The cursor tracker: what a rising page has passed on rises, and the tracker knows the end.
Rises ==
  Healthy /\ Rising =>
    /\ \A k \in 1 .. mat.rows : /\ conn.sent[k] \in Nat
                                /\ request.bound # None => conn.sent[k] > request.bound
                                /\ k > 1 => conn.sent[k] > conn.sent[k - 1]
    /\ mat.last = IF mat.rows = 0 THEN None ELSE conn.sent[mat.rows]
    /\ mat.candidate = IF mat.rows = 0 THEN None ELSE Greater(request.committed, mat.last)

\* What collect_json_rows is about to return.
Results ==
  /\ host.result \in Success =>
       /\ mat.state = "succeeded" /\ conn.state = "succeeded" /\ conn.result.rows = mat.rows
       /\ host.result.rows = mat.rows /\ host.result.truncated = conn.result.truncated
       /\ host.result.candidate = mat.candidate /\ host.result.resume = mat.last
       /\ Rising /\ conn.result.truncated => mat.last # None
  /\ conn.error \in {"receiver", "cancelled"} =>
       \/ mat.state = "failed" \/ host.state = "grace"
       \/ host.result \in Fail /\ host.result.cause \in {"cancelled", "timeout"}
  /\ host.state # "grace" /\ host.result \in Fail /\ host.result.cause = "connector" => conn.error = "own"

\* What is published, and what was reported.
Sealed ==
  /\ segment.state = "ready" =>
       /\ mat.state = "succeeded" /\ conn.state = "succeeded" /\ conn.result.rows = mat.rows
       /\ segment.facts.candidate = mat.candidate /\ segment.facts.resume = mat.last
       /\ Rising => mat.rows # 0
  /\ CauseIsFirst

\* Every event has the identity of its row.
Identified ==
  /\ segment.state = "open" =>
       \A k \in 1 .. Len(segment.events) : segment.events[k].id = EventId(segment.events[k].row, k)
  /\ \A h \in history :
       /\ h.rising \in BOOLEAN /\ h.source \in Inputs \X Lineages /\ h.of \in Nat \X Nat
       /\ h.event.id = IF h.rising THEN <<"rising", h.source[1], h.source[2], h.event.row>>
                       ELSE <<"batch", h.source[1], h.of[1], h.of[2]>>

\* The inductive invariant.
CollectionInv == Types /\ Phases /\ Flow /\ Rises /\ Results /\ Sealed /\ Identified

-----------------------------------------------------------------------------
(* Operators.                                                              *)

LEMMA FailFacts ==
  ASSUME NEW c \in Cause
  PROVE  [cause |-> c] \in Fail /\ [cause |-> c] \notin Success /\ [cause |-> c] # None /\ [cause |-> c].cause = c
<1>2. [cause |-> c] \in Fail /\ [cause |-> c].cause = c
  BY DEF Fail
<1>1. c # None /\ [cause |-> c] # None
  <2>1. c \in Outcome /\ [cause |-> c] \in [cause: Outcome]
    BY DEF Cause, Outcome
  <2> QED BY <2>1, CollectionAssumption
<1>3. \A s \in Success : s.cause = None
  BY DEF Success
<1> QED BY <1>1, <1>2, <1>3

(* The batch channel: nothing is on its way, a batch enters, a batch leaves. *)
LEMMA QueuedNone ==
  ASSUME NEW sent \in Seq(Row), NEW n
  PROVE  Queued(<<>>, sent, n) <=> n = Len(sent)
<1>1. Len(<<>>) = 0 /\ 0 + 1 = 1 /\ 1 .. 0 = {} /\ Len(sent) \in Nat
  OBVIOUS
<1>2. ASSUME n = Len(sent) PROVE Queued(<<>>, sent, n)
  <2> DEFINE off == [j \in 1 .. 1 |-> n]
  <2>1. off \in [1 .. 1 -> 0 .. Len(sent)] /\ off[1] = n
    BY <1>1, <1>2
  <2> HIDE DEF off
  <2> QED BY <1>1, <1>2, <2>1 DEF Queued
<1>3. ASSUME Queued(<<>>, sent, n) PROVE n = Len(sent)
  BY <1>1, <1>3 DEF Queued
<1> QED BY <1>2, <1>3

LEMMA QueuedAppend ==
  ASSUME NEW sent \in Seq(Row), NEW q \in Seq(EnvelopeSet), NEW e \in EnvelopeSet, NEW n, Queued(q, sent, n)
  PROVE  Queued(Append(q, e), sent \o e.rows, n)
<1> DEFINE l == Len(q)
           m == Len(sent)
           r == e.rows
           all == sent \o r
           p == Append(q, e)
<1>1. PICK off \in [1 .. (l + 1) -> 0 .. m] :
        /\ off[1] = n /\ off[l + 1] = m
        /\ \A j \in 1 .. l : /\ off[j + 1] = off[j] + Len(q[j].rows)
                             /\ \A k \in 1 .. Len(q[j].rows) : q[j].rows[k] = sent[off[j] + k]
  BY DEF Queued
<1>2. /\ l \in Nat /\ m \in Nat /\ r \in Seq(Row) /\ Len(r) \in Nat /\ all \in Seq(Row) /\ Len(all) = m + Len(r)
      /\ (\A k \in 1 .. m : all[k] = sent[k]) /\ \A k \in 1 .. Len(r) : all[m + k] = r[k]
  <2>1. r \in Seq(Row)
    BY DEF EnvelopeSet
  <2> HIDE DEF r
  <2> QED BY <2>1
<1>3. /\ Len(p) = l + 1 /\ p[l + 1] = e /\ \A j \in 1 .. l : p[j] = q[j]
  OBVIOUS
<1>4. \A j \in 1 .. l : q[j] \in EnvelopeSet /\ Len(q[j].rows) \in Nat
  <2>1. \A j \in 1 .. l : q[j] \in EnvelopeSet
    OBVIOUS
  <2>2. \A x \in EnvelopeSet : Len(x.rows) \in Nat
    BY DEF EnvelopeSet
  <2> QED BY <2>1, <2>2
<1> HIDE DEF l, m, r, all, p
<1> DEFINE new == [j \in 1 .. (l + 2) |-> IF j = l + 2 THEN m + Len(r) ELSE off[j]]
<1>5. new \in [1 .. (l + 2) -> 0 .. (m + Len(r))]
  <2>1. ASSUME NEW j \in 1 .. (l + 2) PROVE new[j] \in 0 .. (m + Len(r))
    <3>1. CASE j = l + 2
      BY <1>2, <3>1
    <3>2. CASE j # l + 2
      <4>1. j \in 1 .. (l + 1)
        BY <1>2, <3>2
      <4>2. new[j] = off[j] /\ off[j] \in 0 .. m
        BY <1>1, <3>2, <4>1
      <4> QED BY <1>2, <4>2
    <3> QED BY <3>1, <3>2
  <2> QED BY <2>1
<1>6. /\ \A j \in 1 .. (l + 1) : new[j] = off[j]
      /\ new[l + 2] = m + Len(r) /\ (l + 1) + 1 = l + 2 /\ 1 \in 1 .. (l + 1) /\ l + 1 \in 1 .. (l + 1)
  BY <1>2
<1> HIDE DEF new
<1>7. ASSUME NEW j \in 1 .. (l + 1)
      PROVE  /\ new[j + 1] = new[j] + Len(p[j].rows)
             /\ \A k \in 1 .. Len(p[j].rows) : p[j].rows[k] = all[new[j] + k]
  <2>1. CASE j = l + 1
    <3>1. new[j] = m /\ new[j + 1] = m + Len(r) /\ p[j].rows = r
      BY <1>1, <1>3, <1>6, <2>1 DEF r
    <3> QED BY <1>2, <3>1
  <2>2. CASE j # l + 1
    <3>1. j \in 1 .. l /\ j + 1 \in 1 .. (l + 1)
      BY <1>2, <2>2
    <3>2. /\ new[j] = off[j] /\ new[j + 1] = off[j + 1] /\ p[j] = q[j] /\ off[j + 1] = off[j] + Len(q[j].rows)
          /\ off[j] \in 0 .. m /\ off[j + 1] \in 0 .. m /\ Len(q[j].rows) \in Nat
          /\ \A k \in 1 .. Len(q[j].rows) : q[j].rows[k] = sent[off[j] + k]
      BY <1>1, <1>3, <1>4, <1>6, <3>1
    <3>3. ASSUME NEW k \in 1 .. Len(q[j].rows) PROVE q[j].rows[k] = all[off[j] + k]
      <4>1. off[j] + k \in 1 .. m
        <5>1. /\ m \in Nat /\ off[j] \in Nat /\ Len(q[j].rows) \in Nat /\ off[j] + Len(q[j].rows) <= m
              /\ k \in Nat /\ 1 <= k /\ k <= Len(q[j].rows)
          BY <1>2, <3>2
        <5> QED BY ONLY <5>1
      <4> QED BY <1>2, <3>2, <4>1
    <3> QED BY <3>2, <3>3
  <2> QED BY <2>1, <2>2
<1>8. new[1] = n /\ new[Len(p) + 1] = Len(all) /\ new \in [1 .. (Len(p) + 1) -> 0 .. Len(all)]
  BY <1>1, <1>2, <1>3, <1>5, <1>6
<1>9. Queued(p, all, n)
  BY <1>3, <1>7, <1>8 DEF Queued
<1> QED BY <1>9 DEF p, all, r

LEMMA QueuedTail ==
  ASSUME NEW sent \in Seq(Row), NEW q \in Seq(EnvelopeSet), q # <<>>, NEW n, Queued(q, sent, n)
  PROVE  LET r == Head(q).rows IN
         /\ n \in Nat /\ r \in Seq(Row) /\ n + Len(r) <= Len(sent)
         /\ \A k \in 1 .. Len(r) : r[k] = sent[n + k]
         /\ Queued(Tail(q), sent, n + Len(r))
<1> DEFINE l == Len(q)
           m == Len(sent)
           r == Head(q).rows
           t == Tail(q)
<1>1. PICK off \in [1 .. (l + 1) -> 0 .. m] :
        /\ off[1] = n /\ off[l + 1] = m
        /\ \A j \in 1 .. l : /\ off[j + 1] = off[j] + Len(q[j].rows)
                             /\ \A k \in 1 .. Len(q[j].rows) : q[j].rows[k] = sent[off[j] + k]
  BY DEF Queued
<1>2. l \in Nat /\ l # 0 /\ m \in Nat /\ q[1] = Head(q) /\ Head(q) \in EnvelopeSet
  OBVIOUS
<1>3. Len(t) = l - 1 /\ \A j \in 1 .. (l - 1) : t[j] = q[j + 1]
  OBVIOUS
<1>4. r \in Seq(Row) /\ Len(r) \in Nat /\ q[1].rows = r
  BY <1>2 DEF EnvelopeSet
<1> HIDE DEF l, m, r, t
<1>5. 1 \in 1 .. l /\ 1 + 1 = 2 /\ 1 \in 1 .. (l + 1) /\ 2 \in 1 .. (l + 1)
  BY <1>2
<1>6. /\ n \in 0 .. m /\ off[2] = n + Len(r) /\ off[2] \in 0 .. m
      /\ \A k \in 1 .. Len(r) : r[k] = sent[n + k]
  BY <1>1, <1>4, <1>5
<1> DEFINE new == [j \in 1 .. l |-> off[j + 1]]
<1>7. /\ \A j \in 1 .. l : j + 1 \in 1 .. (l + 1) /\ new[j] = off[j + 1]
      /\ (l - 1) + 1 = l /\ l \in 1 .. l /\ \A j \in 1 .. (l - 1) : j \in 1 .. l /\ j + 1 \in 1 .. l
  BY <1>2
<1>8. new \in [1 .. l -> 0 .. m]
  BY <1>1, <1>7
<1> HIDE DEF new
<1>9. new[1] = n + Len(r) /\ new[l] = m
  BY <1>1, <1>5, <1>6, <1>7
<1>10. ASSUME NEW j \in 1 .. (l - 1)
       PROVE  /\ new[j + 1] = new[j] + Len(t[j].rows)
              /\ \A k \in 1 .. Len(t[j].rows) : t[j].rows[k] = sent[new[j] + k]
  <2>1. j + 1 \in 1 .. l /\ new[j] = off[j + 1] /\ new[j + 1] = off[(j + 1) + 1] /\ t[j] = q[j + 1]
    BY <1>3, <1>7
  <2>2. /\ off[(j + 1) + 1] = off[j + 1] + Len(q[j + 1].rows)
        /\ \A k \in 1 .. Len(q[j + 1].rows) : q[j + 1].rows[k] = sent[off[j + 1] + k]
    BY <1>1, <2>1
  <2> QED BY <2>1, <2>2
<1>11. Queued(t, sent, n + Len(r))
  <2>1. Len(t) = l - 1 /\ Len(t) + 1 = l /\ m = Len(sent)
    BY <1>3, <1>7 DEF m
  <2>2. new \in [1 .. (Len(t) + 1) -> 0 .. Len(sent)] /\ new[1] = n + Len(r) /\ new[Len(t) + 1] = Len(sent)
    BY <1>8, <1>9, <2>1
  <2>3. \A j \in 1 .. Len(t) : /\ new[j + 1] = new[j] + Len(t[j].rows)
                              /\ \A k \in 1 .. Len(t[j].rows) : t[j].rows[k] = sent[new[j] + k]
    BY <1>10, <2>1
  <2> QED BY <2>2, <2>3 DEF Queued
<1>12. n \in Nat /\ n + Len(r) <= m
  BY <1>2, <1>4, <1>6
<1> QED BY <1>4, <1>6, <1>11, <1>12 DEF r, t, m

-----------------------------------------------------------------------------
(* The steps keep the invariant.                                           *)

\* The places of the rows and the tracker
flow == <<conn.sent, ipc, mat.envelope, mat.rows, mat.last, mat.candidate, lines, segment.events, request>>

LEMMA FlowStays ==
  ASSUME Flow, Rises, UNCHANGED flow, Healthy' => Healthy
  PROVE  Flow' /\ Rises'
<1>1. /\ conn'.sent = conn.sent /\ ipc' = ipc /\ mat'.envelope = mat.envelope /\ mat'.rows = mat.rows
      /\ mat'.last = mat.last /\ mat'.candidate = mat.candidate /\ lines' = lines
      /\ segment'.events = segment.events /\ request' = request
  BY DEF flow
<1> HIDE DEF Healthy
<1>2. Flow'
  BY <1>1 DEF Flow
<1>3. Rises'
  BY <1>1 DEF Rises, Rising, Greater
<1> QED BY <1>2, <1>3

(* A step that moves no row and leaves the segment as it is.               *)
LEMMA ControlStep ==
  ASSUME CollectionInv, segment.state = "open",
         UNCHANGED <<request, answer, ipc, lines, segment, history>>,
         conn' \in ConnSet, mat' \in MatSet, host' \in HostSet, spool' \in SpoolSet, spent' \in SpentSet,
         cancelled' \in BOOLEAN, spool'.rows = spool.rows, spent'.attempts = spent.attempts,
         conn'.sent = conn.sent, mat'.envelope = mat.envelope, mat'.rows = mat.rows,
         mat'.last = mat.last, mat'.candidate = mat.candidate,
         mat.state = "failed" => mat'.state = "failed", spool.state = "failed" => spool'.state = "failed",
         Phases', Results'
  PROVE  CollectionInv'
<1>1. Types'
  BY DEF CollectionInv, Types
<1>2. Flow' /\ Rises'
  <2>1. UNCHANGED flow
    BY DEF flow
  <2>2. Healthy' => Healthy
    BY DEF Healthy
  <2> QED BY <2>1, <2>2, FlowStays DEF CollectionInv
<1>3. Sealed'
  <2>1. segment.outcome = None
    BY DEF CollectionInv, Phases
  <2>2. None \notin {"connector", "accounting", "metadata"}
    BY CollectionAssumption DEF Outcome
  <2> QED BY <2>1, <2>2 DEF Sealed, CauseIsFirst
<1>4. Identified'
  BY DEF CollectionInv, Identified, EventId, Rising
<1> QED BY <1>1, <1>2, <1>3, <1>4 DEF CollectionInv

(* What the phases say while the connector or the host works.              *)
LEMMA OpenFacts ==
  ASSUME CollectionInv, Running \/ Operating \/ mat.state \in {"receiving", "rows"} \/ host.state = "returned"
                        \/ spool.state # "off"
  PROVE  segment.state = "open" /\ request \in Requests
<1>1. segment.state = "open"
  BY DEF CollectionInv, Phases, Operating
<1> QED BY <1>1 DEF CollectionInv, Types

LEMMA FaultFacts ==
  ASSUME CollectionInv, Fault \/ UNCHANGED spent
  PROVE  spent' \in SpentSet /\ spent'.attempts = spent.attempts
<1>1. spent \in SpentSet
  BY DEF CollectionInv, Types
<1> QED BY <1>1 DEF Fault, SpentSet

LEMMA PreparedStep ==
  ASSUME CollectionInv, Prepared
  PROVE  CollectionInv'
<1>1. /\ conn.state = "prepare" /\ Operating /\ host.result = None
      /\ UNCHANGED <<request, answer, ipc, lines, spool, cancelled, segment, history, spent>>
  BY DEF Prepared, CollectionInv, Phases, Running
<1>2. /\ conn \in ConnSet /\ mat \in MatSet /\ host \in HostSet /\ spool \in SpoolSet /\ spent \in SpentSet
      /\ cancelled \in BOOLEAN
  BY DEF CollectionInv, Types
<1>3. segment.state = "open" /\ Running
  BY <1>1, OpenFacts DEF Running
<1>4. mat.state = "off" /\ conn.error = None /\ mat.envelope = <<>> /\ ipc = <<>>
  BY <1>1 DEF CollectionInv, Phases
<1>5. PICK schema \in Schemas :
        \/ /\ conn' = [conn EXCEPT !.state = "execute", !.schema = schema]
           /\ mat' = [mat EXCEPT !.state = "receiving"] /\ host' = host
        \/ /\ conn' = [conn EXCEPT !.state = "failed", !.error = "own"]
           /\ host' = [host EXCEPT !.result = [cause |-> "host"]] /\ mat' = mat
  BY DEF Prepared, OperationFails
<1>6. CASE /\ conn' = [conn EXCEPT !.state = "execute", !.schema = schema]
           /\ mat' = [mat EXCEPT !.state = "receiving"] /\ host' = host
  <2>1. conn' \in ConnSet /\ conn'.state = "execute" /\ conn'.sent = conn.sent /\ conn'.error = conn.error
    BY <1>2, <1>6 DEF ConnSet, ConnState
  <2>2. /\ mat' \in MatSet /\ mat'.state = "receiving" /\ mat'.envelope = mat.envelope /\ mat'.rows = mat.rows
        /\ mat'.last = mat.last /\ mat'.candidate = mat.candidate
    BY <1>2, <1>6 DEF MatSet, MatState
  <2>3. Phases'
    BY <1>1, <1>3, <1>4, <1>6, <2>1, <2>2 DEF CollectionInv, Phases, Running, Operating
  <2>4. Results'
    <3>1. host.result \notin Success /\ host.result \notin Fail
      BY <1>1, CollectionAssumption DEF Success, Fail, Cause, Outcome
    <3> QED BY <1>4, <1>6, <2>1, <3>1, CollectionAssumption DEF Results, Failure
  <2> QED BY <1>1, <1>2, <1>3, <1>4, <1>6, <2>1, <2>2, <2>3, <2>4, ControlStep
<1>7. CASE /\ conn' = [conn EXCEPT !.state = "failed", !.error = "own"]
           /\ host' = [host EXCEPT !.result = [cause |-> "host"]] /\ mat' = mat
  <2>1. conn' \in ConnSet /\ conn'.state = "failed" /\ conn'.sent = conn.sent /\ conn'.error = "own"
    BY <1>2, <1>7 DEF ConnSet, ConnState, Failure
  <2>2. host' \in HostSet /\ host'.state = host.state /\ host'.result = [cause |-> "host"] /\ "host" \in Cause
    BY <1>2, <1>7 DEF HostSet, Fail, Cause
  <2>3. /\ host'.result \in Fail /\ host'.result \notin Success /\ host'.result # None
        /\ host'.result.cause = "host"
    BY <2>2, FailFacts
  <2>4. "own" # None
    BY CollectionAssumption DEF Failure
  <2>5. Phases'
    BY <1>1, <1>3, <1>4, <1>7, <2>1, <2>2, <2>3, <2>4 DEF CollectionInv, Phases, Running, Operating
  <2>6. Results'
    BY <2>1, <2>3 DEF Results
  <2> QED BY <1>1, <1>2, <1>3, <1>7, <2>1, <2>2, <2>5, <2>6, ControlStep
<1> QED BY <1>5, <1>6, <1>7

LEMMA NoResult == None \notin Success /\ None \notin Fail
BY CollectionAssumption DEF Success, Fail, Cause, Outcome

LEMMA ConnectorFailsStep ==
  ASSUME CollectionInv, PrepareFails \/ ConnectorFails
  PROVE  CollectionInv'
<1>1. /\ conn \in ConnSet /\ mat \in MatSet /\ host \in HostSet /\ spool \in SpoolSet /\ spent \in SpentSet
      /\ cancelled \in BOOLEAN
  BY DEF CollectionInv, Types
<1>2. Running
  BY DEF PrepareFails, ConnectorFails, Running
<1>3. segment.state = "open" /\ Operating /\ host.result = None
  BY <1>2, OpenFacts DEF CollectionInv, Phases
<1>4. CASE PrepareFails
  <2>1. /\ conn' = [conn EXCEPT !.state = "failed", !.error = "own"] /\ conn.state = "prepare"
        /\ host' = [host EXCEPT !.result = [cause |-> "connector"]]
        /\ UNCHANGED <<request, answer, ipc, mat, lines, spool, cancelled, segment, history, spent>>
    BY <1>4 DEF PrepareFails, OperationFails
  <2>2. conn' \in ConnSet /\ conn'.state = "failed" /\ conn'.sent = conn.sent /\ conn'.error = "own"
    BY <1>1, <2>1 DEF ConnSet, ConnState, Failure
  <2>3. host' \in HostSet /\ host'.state = host.state /\ host'.result = [cause |-> "connector"] /\ "connector" \in Cause
    BY <1>1, <2>1 DEF HostSet, Fail, Cause
  <2>4. host'.result \in Fail /\ host'.result \notin Success /\ host'.result # None
    BY <2>3, FailFacts
  <2>5. "own" # None
    BY CollectionAssumption DEF Failure
  <2>6. Phases'
    BY <1>2, <1>3, <2>1, <2>2, <2>3, <2>4, <2>5 DEF CollectionInv, Phases, Running, Operating
  <2>7. Results'
    BY <2>2, <2>4 DEF Results
  <2> QED BY <1>1, <1>3, <2>1, <2>2, <2>3, <2>6, <2>7, ControlStep
<1>5. CASE ConnectorFails
  <2>1. PICK e \in Failure :
          /\ e = "receiver" => mat.state = "failed"
          /\ e = "cancelled" => mat.state = "failed" \/ host.state = "grace"
          /\ conn' = [conn EXCEPT !.state = "failed", !.error = e]
    BY <1>5 DEF ConnectorFails
  <2>2. UNCHANGED <<request, answer, ipc, mat, lines, host, spool, cancelled, segment, history, spent>>
    BY <1>5 DEF ConnectorFails
  <2>3. conn' \in ConnSet /\ conn'.state = "failed" /\ conn'.sent = conn.sent /\ conn'.error = e
    BY <1>1, <2>1 DEF ConnSet, ConnState
  <2>4. e # None
    BY CollectionAssumption
  <2>5. Phases'
    BY <1>2, <1>3, <2>2, <2>3, <2>4 DEF CollectionInv, Phases, Running, Operating
  <2>6. Results'
    BY <1>3, <2>1, <2>2, <2>3, NoResult DEF Results
  <2> QED BY <1>1, <1>3, <2>2, <2>3, <2>5, <2>6, ControlStep
<1> QED BY <1>4, <1>5

LEMMA ConnectorFinishesStep ==
  ASSUME CollectionInv, ConnectorFinishes
  PROVE  CollectionInv'
<1>1. /\ conn \in ConnSet /\ mat \in MatSet /\ host \in HostSet /\ spool \in SpoolSet /\ spent \in SpentSet
      /\ cancelled \in BOOLEAN
  BY DEF CollectionInv, Types
<1>2. conn.state = "execute" /\ Running /\ UNCHANGED <<request, answer, ipc, mat, lines, host, spool, cancelled, segment, history>>
  BY DEF ConnectorFinishes, Running
<1>3. segment.state = "open" /\ Operating /\ host.result = None
  BY <1>2, OpenFacts DEF CollectionInv, Phases
<1>4. PICK r \in Report : conn' = [conn EXCEPT !.state = "succeeded", !.result = r] /\ (Fault \/ UNCHANGED spent)
  <2> DEFINE honest == [rows |-> Len(conn.sent), batches |-> conn.batches, truncated |-> answer # <<>>]
  <2>1. honest \in Report
    BY <1>1 DEF Report, ConnSet
  <2>2. \A h \in Report : [h EXCEPT !.rows = h.rows + 1] \in Report
    BY DEF Report
  <2>3. \A h \in Report : [h EXCEPT !.truncated = ~h.truncated] \in Report
    <3>1. \A b \in BOOLEAN : (~b) \in BOOLEAN
      OBVIOUS
    <3> QED BY <3>1 DEF Report
  <2> QED BY <2>1, <2>2, <2>3 DEF ConnectorFinishes
<1>5. /\ conn' \in ConnSet /\ conn'.state = "succeeded" /\ conn'.sent = conn.sent /\ conn'.error = conn.error
      /\ conn'.result = r
  BY <1>1, <1>4 DEF ConnSet, ConnState
<1>6. Phases'
  BY <1>2, <1>3, <1>5 DEF CollectionInv, Phases, Running, Operating
<1>7. conn.error = None
  BY <1>2 DEF CollectionInv, Phases
<1>8. Results'
  BY <1>2, <1>3, <1>5, <1>7, NoResult, CollectionAssumption DEF Results, Failure
<1>9. spent' \in SpentSet /\ spent'.attempts = spent.attempts
  BY <1>4, FaultFacts
<1> QED BY <1>1, <1>2, <1>3, <1>5, <1>6, <1>8, <1>9, ControlStep

(* The materializer fails: what it has taken is of no use any more.        *)
LEMMA MaterializerFailsStep ==
  ASSUME CollectionInv, MaterializerFails, mat.state \in {"receiving", "rows"},
         UNCHANGED <<request, answer, conn, host, spool, cancelled, segment, history, spent>>
  PROVE  CollectionInv'
<1>1. /\ conn \in ConnSet /\ mat \in MatSet /\ host \in HostSet /\ spool \in SpoolSet /\ spent \in SpentSet
      /\ cancelled \in BOOLEAN
  BY DEF CollectionInv, Types
<1>2. segment.state = "open" /\ Operating /\ host.result = None
  BY OpenFacts DEF CollectionInv, Phases
<1>3. mat' = [mat EXCEPT !.state = "failed"] /\ lines' = lines /\ ipc' = ipc
  BY DEF MaterializerFails
<1>4. /\ mat' \in MatSet /\ mat'.state = "failed" /\ mat'.envelope = mat.envelope /\ mat'.rows = mat.rows
      /\ mat'.last = mat.last /\ mat'.candidate = mat.candidate
  BY <1>1, <1>3 DEF MatSet, MatState
<1>5. Phases'
  BY <1>2, <1>3, <1>4 DEF CollectionInv, Phases, Running, Operating
<1>6. Results'
  BY <1>2, <1>4, NoResult DEF Results
<1> QED BY <1>1, <1>2, <1>3, <1>4, <1>5, <1>6, ControlStep

LEMMA MaterializerStep ==
  ASSUME CollectionInv, EnvelopeDone \/ BatchesEnd \/ MaterializerCancelled
  PROVE  CollectionInv'
<1>1. /\ conn \in ConnSet /\ mat \in MatSet /\ host \in HostSet /\ spool \in SpoolSet /\ spent \in SpentSet
      /\ cancelled \in BOOLEAN
  BY DEF CollectionInv, Types
<1>2. mat.state \in {"receiving", "rows"} /\ UNCHANGED <<request, answer, conn, host, spool, cancelled, segment, history, spent>>
  BY DEF EnvelopeDone, BatchesEnd, MaterializerCancelled
<1>3. segment.state = "open" /\ Operating /\ host.result = None
  BY <1>2, OpenFacts DEF CollectionInv, Phases
<1>4. CASE MaterializerCancelled
  BY <1>2, <1>4, MaterializerFailsStep DEF MaterializerCancelled
<1>5. CASE EnvelopeDone
  <2>1. /\ mat.envelope = <<>> /\ mat.state = "rows" /\ UNCHANGED <<ipc, lines>>
        /\ mat' = [mat EXCEPT !.state = "receiving", !.batches = @ + 1]
    BY <1>5 DEF EnvelopeDone
  <2>2. /\ mat' \in MatSet /\ mat'.state = "receiving" /\ mat'.envelope = mat.envelope /\ mat'.rows = mat.rows
        /\ mat'.last = mat.last /\ mat'.candidate = mat.candidate
    <3>1. mat.batches + 1 \in Nat
      BY <1>1 DEF MatSet
    <3>2. mat' = [mat EXCEPT !.state = "receiving", !.batches = mat.batches + 1]
      BY <1>1, <2>1 DEF MatSet
    <3>3. mat' \in MatSet
      BY <1>1, <3>1, <3>2 DEF MatSet, MatState
    <3>4. /\ mat'.state = "receiving" /\ mat'.envelope = mat.envelope /\ mat'.rows = mat.rows
          /\ mat'.last = mat.last /\ mat'.candidate = mat.candidate
      BY <1>1, <3>2 DEF MatSet
    <3> QED BY <3>3, <3>4
  <2>3. Phases'
    BY <1>2, <1>3, <2>1, <2>2 DEF CollectionInv, Phases, Running, Operating
  <2>4. Results'
    BY <1>2, <1>3, <2>1, <2>2, NoResult DEF CollectionInv, Results
  <2> QED BY <1>1, <1>2, <1>3, <2>1, <2>2, <2>3, <2>4, ControlStep
<1>6. CASE BatchesEnd
  <2>1. /\ ipc = <<>> /\ mat.state = "receiving" /\ UNCHANGED <<ipc, lines>> /\ ~Running
        /\ mat' = [mat EXCEPT !.state = "succeeded"]
    BY <1>6 DEF BatchesEnd
  <2>2. /\ mat' \in MatSet /\ mat'.state = "succeeded" /\ mat'.envelope = mat.envelope /\ mat'.rows = mat.rows
        /\ mat'.last = mat.last /\ mat'.candidate = mat.candidate
    BY <1>1, <2>1 DEF MatSet, MatState
  <2>3. Phases'
    BY <1>2, <1>3, <2>1, <2>2 DEF CollectionInv, Phases, Running, Operating
  <2>4. Results'
    BY <1>2, <1>3, <2>1, <2>2, NoResult DEF CollectionInv, Results
  <2> QED BY <1>1, <1>2, <1>3, <2>1, <2>2, <2>3, <2>4, ControlStep
<1> QED BY <1>4, <1>5, <1>6

(* collect_json_rows_inner returns: the causes in their order of precedence. *)
LEMMA OperationEndsStep ==
  ASSUME CollectionInv, OperationEnds
  PROVE  CollectionInv'
<1>1. /\ conn \in ConnSet /\ mat \in MatSet /\ host \in HostSet /\ spool \in SpoolSet /\ spent \in SpentSet
      /\ cancelled \in BOOLEAN
  BY DEF CollectionInv, Types
<1>2. /\ Operating /\ host.result = None /\ mat.state \in {"succeeded", "failed"}
      /\ conn.state \in {"succeeded", "failed"}
      /\ UNCHANGED <<request, answer, conn, ipc, mat, lines, spool, cancelled, segment, history, spent>>
  BY DEF OperationEnds
<1>3. segment.state = "open" /\ ~Running
  BY <1>2, OpenFacts DEF Running
<1> DEFINE result == IF OperationCause # None THEN [cause |-> OperationCause]
                     ELSE [cause |-> None, rows |-> mat.rows, truncated |-> conn.result.truncated,
                           candidate |-> mat.candidate, resume |-> mat.last]
<1>4. host' = [host EXCEPT !.result = result]
  BY DEF OperationEnds
<1>5. OperationCause \in {"host", "connector", None} /\ {"host", "connector"} \subseteq Cause
  BY DEF OperationCause, Cause
<1>6. ASSUME OperationCause = None
      PROVE  /\ mat.state = "succeeded" /\ conn.state = "succeeded" /\ conn.result \in Report
             /\ conn.result.rows = mat.rows /\ (Rising /\ conn.result.truncated => mat.last # None)
  <2>1. mat.state = "succeeded" /\ conn.state = "succeeded" /\ ResultAdmitted
    <3>1. "host" # None /\ "connector" # None
      BY CollectionAssumption, <1>5 DEF Cause, Outcome
    <3> QED BY <1>2, <1>6, <3>1 DEF OperationCause
  <2>2. conn.result \in Report
    BY <2>1 DEF CollectionInv, Phases
  <2> QED BY <2>1, <2>2 DEF ResultAdmitted
<1>7. CASE OperationCause = None
  <2>1. result = [cause |-> None, rows |-> mat.rows, truncated |-> conn.result.truncated,
                  candidate |-> mat.candidate, resume |-> mat.last]
    BY <1>7
  <2>2. mat.rows \in Nat /\ conn.result.truncated \in BOOLEAN /\ mat.candidate \in Position /\ mat.last \in Position
    BY <1>1, <1>6, <1>7 DEF MatSet, Report
  <2>3. result \in Success
    BY <2>1, <2>2 DEF Success
  <2>4. /\ result.rows = mat.rows /\ result.truncated = conn.result.truncated
        /\ result.candidate = mat.candidate /\ result.resume = mat.last /\ result.cause = None
    BY <2>1
  <2>5. result # None /\ ~(result \in Fail)
    <3>1. \A x \in Fail : x.cause # None
      BY CollectionAssumption DEF Fail, Cause, Outcome
    <3> QED BY <2>3, <2>4, <3>1, NoResult
  <2> HIDE DEF result
  <2>6. host' \in HostSet /\ host'.state = host.state /\ host'.result = result
    BY <1>1, <1>4, <2>3 DEF HostSet
  <2>7. Phases'
    BY <1>2, <1>3, <2>5, <2>6 DEF CollectionInv, Phases, Running, Operating
  <2>8. Results'
    <3>1. conn.error = None
      BY <1>6, <1>7 DEF CollectionInv, Phases
    <3> QED BY <1>2, <1>6, <1>7, <2>4, <2>5, <2>6, <3>1, CollectionAssumption DEF Results, Rising, Failure
  <2> QED BY <1>1, <1>2, <1>3, <2>6, <2>7, <2>8, ControlStep
<1>8. CASE OperationCause # None
  <2>1. result = [cause |-> OperationCause] /\ OperationCause \in Cause
    BY <1>5, <1>8
  <2>2. result \in Fail /\ result \notin Success /\ result # None /\ result.cause = OperationCause
    BY <2>1, FailFacts
  <2> HIDE DEF result
  <2>3. host' \in HostSet /\ host'.state = host.state /\ host'.result = result
    BY <1>1, <1>4, <2>2 DEF HostSet
  <2>4. Phases'
    BY <1>2, <1>3, <2>2, <2>3 DEF CollectionInv, Phases, Running, Operating
  <2>5. conn.error \in {"receiver", "cancelled"} => mat.state = "failed" \/ host.state = "grace"
    BY <1>2, NoResult DEF CollectionInv, Results
  <2>6. ASSUME OperationCause = "connector" PROVE mat.state # "failed" /\ conn.error # None /\ conn.error \in Failure
    <3>1. mat.state # "failed" /\ conn.state = "failed"
      BY <2>6, CollectionAssumption DEF OperationCause, Outcome
    <3> QED BY <1>1, <3>1 DEF CollectionInv, Phases, ConnSet
  <2>7. Results'
    BY <1>2, <2>2, <2>3, <2>5, <2>6 DEF Results, Failure
  <2> QED BY <1>1, <1>2, <1>3, <2>3, <2>4, <2>7, ControlStep
<1> QED BY <1>7, <1>8

(* The operation returns, its deadline passes, or it is cancelled.         *)
LEMMA HostReturnsStep ==
  ASSUME CollectionInv, HostReturns
  PROVE  CollectionInv'
<1>1. /\ conn \in ConnSet /\ mat \in MatSet /\ host \in HostSet /\ spool \in SpoolSet /\ spent \in SpentSet
      /\ cancelled \in BOOLEAN
  BY DEF CollectionInv, Types
<1>2. /\ host.state = "operating" /\ host.result # None /\ host' = [host EXCEPT !.state = "returned"] /\ Dropped
      /\ UNCHANGED <<request, answer, ipc, lines, spool, cancelled, segment, history, spent>>
  BY DEF HostReturns
<1>3. segment.state = "open"
  BY <1>2, OpenFacts DEF Operating
<1>4. ~Running /\ mat.state \notin {"receiving", "rows"}
  BY <1>2 DEF CollectionInv, Phases
<1>5. conn' = conn /\ mat' = mat
  BY <1>2, <1>4 DEF Dropped
<1>6. host' \in HostSet /\ host'.state = "returned" /\ host'.result = host.result
  BY <1>1, <1>2 DEF HostSet, HostState
<1>7. Phases'
  BY <1>2, <1>3, <1>4, <1>5, <1>6 DEF CollectionInv, Phases, Running, Operating
<1>8. Results'
  BY <1>2, <1>5, <1>6 DEF CollectionInv, Results, Rising
<1> QED BY <1>1, <1>2, <1>3, <1>5, <1>6, <1>7, <1>8, ControlStep

LEMMA DeadlineStep ==
  ASSUME CollectionInv, Deadline \/ Cancelled
  PROVE  CollectionInv'
<1>1. /\ conn \in ConnSet /\ mat \in MatSet /\ host \in HostSet /\ spool \in SpoolSet /\ spent \in SpentSet
      /\ cancelled \in BOOLEAN
  BY DEF CollectionInv, Types
<1>2. /\ host.state = "operating" /\ host.result = None /\ host' = [host EXCEPT !.state = "grace"]
      /\ UNCHANGED <<request, answer, conn, ipc, mat, lines, spool, cancelled, segment, history, spent>>
  BY DEF Deadline, Cancelled
<1>3. segment.state = "open"
  BY <1>2, OpenFacts DEF Operating
<1>4. host' \in HostSet /\ host'.state = "grace" /\ host'.result = None
  BY <1>1, <1>2 DEF HostSet, HostState
<1>5. Phases'
  BY <1>2, <1>3, <1>4 DEF CollectionInv, Phases, Running, Operating
<1>6. Results'
  BY <1>2, <1>4, NoResult DEF CollectionInv, Results
<1> QED BY <1>1, <1>2, <1>3, <1>4, <1>5, <1>6, ControlStep

LEMMA GraceEndsStep ==
  ASSUME CollectionInv, GraceEnds
  PROVE  CollectionInv'
<1>1. /\ conn \in ConnSet /\ mat \in MatSet /\ host \in HostSet /\ spool \in SpoolSet /\ spent \in SpentSet
      /\ cancelled \in BOOLEAN
  BY DEF CollectionInv, Types
<1> DEFINE cause == IF cancelled THEN "cancelled" ELSE "timeout"
<1>2. /\ host.state = "grace" /\ host' = [state |-> "returned", result |-> [cause |-> cause]] /\ Dropped
      /\ UNCHANGED <<request, answer, ipc, lines, spool, cancelled, segment, history, spent>>
  BY DEF GraceEnds
<1>3. segment.state = "open"
  BY <1>2, OpenFacts DEF Operating
<1>4. cause \in {"cancelled", "timeout"} /\ cause \in Cause
  BY DEF Cause
<1> HIDE DEF cause
<1>5. [cause |-> cause] \in Fail /\ [cause |-> cause] \notin Success /\ [cause |-> cause] # None /\ [cause |-> cause].cause = cause
  BY <1>4, FailFacts
<1>6. /\ host' \in HostSet /\ host'.state = "returned" /\ host'.result \in Fail /\ host'.result \notin Success
      /\ host'.result # None /\ host'.result.cause \in {"cancelled", "timeout"}
  BY <1>2, <1>4, <1>5 DEF HostSet, HostState
<1>7. /\ conn' \in ConnSet /\ conn'.sent = conn.sent
      /\ \/ Running /\ conn'.state = "failed" /\ conn'.error = "cancelled"
         \/ ~Running /\ conn' = conn
  <2>1. CASE Running
    <3>1. conn' = [conn EXCEPT !.state = "failed", !.error = "cancelled"]
      BY <1>2, <2>1 DEF Dropped
    <3> QED BY <1>1, <2>1, <3>1 DEF ConnSet, ConnState, Failure
  <2>2. CASE ~Running
    BY <1>1, <1>2, <2>2 DEF Dropped
  <2> QED BY <2>1, <2>2
<1>8. /\ mat' \in MatSet /\ mat'.envelope = mat.envelope /\ mat'.rows = mat.rows
      /\ mat'.last = mat.last /\ mat'.candidate = mat.candidate
      /\ \/ mat.state \in {"receiving", "rows"} /\ mat'.state = "failed"
         \/ mat.state \notin {"receiving", "rows"} /\ mat' = mat
  <2>1. CASE mat.state \in {"receiving", "rows"}
    <3>1. mat' = [mat EXCEPT !.state = "failed"]
      BY <1>2, <2>1 DEF Dropped
    <3> QED BY <1>1, <2>1, <3>1 DEF MatSet, MatState
  <2>2. CASE mat.state \notin {"receiving", "rows"}
    BY <1>1, <1>2, <2>2 DEF Dropped
  <2> QED BY <2>1, <2>2
<1>9. Phases'
  <2>1. "cancelled" # None
    BY CollectionAssumption DEF Failure
  <2>2. conn'.state \notin {"prepare", "execute"} /\ mat'.state \notin {"receiving", "rows"}
    BY <1>7, <1>8 DEF Running
  <2> QED BY <1>2, <1>3, <1>6, <1>7, <1>8, <2>1, <2>2 DEF CollectionInv, Phases, Running, Operating
<1>10. Results'
  BY <1>6 DEF Results
<1> QED BY <1>1, <1>2, <1>3, <1>6, <1>7, <1>8, <1>9, <1>10, ControlStep

LEMMA SpoolEndsStep ==
  ASSUME CollectionInv, SpoolEnds
  PROVE  CollectionInv'
<1>1. /\ conn \in ConnSet /\ mat \in MatSet /\ host \in HostSet /\ spool \in SpoolSet /\ spent \in SpentSet
      /\ cancelled \in BOOLEAN
  BY DEF CollectionInv, Types
<1>2. /\ spool.state = "writing" /\ lines = <<>> /\ spool' = [spool EXCEPT !.state = "done"]
      /\ UNCHANGED <<request, answer, conn, ipc, mat, lines, host, cancelled, segment, history, spent>>
  BY DEF SpoolEnds
<1>3. segment.state = "open"
  BY <1>2, OpenFacts
<1>4. spool' \in SpoolSet /\ spool'.state = "done" /\ spool'.rows = spool.rows
  BY <1>1, <1>2 DEF SpoolSet, SpoolState
<1>5. Phases'
  BY <1>2, <1>3, <1>4 DEF CollectionInv, Phases, Running, Operating
<1>6. Results'
  BY <1>2 DEF CollectionInv, Results, Rising
<1> QED BY <1>1, <1>2, <1>3, <1>4, <1>5, <1>6, ControlStep

LEMMA CancelStep ==
  ASSUME CollectionInv, Cancel
  PROVE  CollectionInv'
<1>1. /\ conn \in ConnSet /\ mat \in MatSet /\ host \in HostSet /\ spool \in SpoolSet /\ spent \in SpentSet
  BY DEF CollectionInv, Types
<1>2. /\ segment.state = "open" /\ cancelled' \in BOOLEAN
      /\ UNCHANGED <<request, answer, conn, ipc, mat, lines, host, spool, segment, history, spent>>
  BY DEF Cancel
<1>3. Phases'
  BY <1>2 DEF CollectionInv, Phases, Running, Operating
<1>4. Results'
  BY <1>2 DEF CollectionInv, Results, Rising
<1> QED BY <1>1, <1>2, <1>3, <1>4, ControlStep

(* A collection begins with nothing sent and nothing written.              *)
LEMMA BeginStep ==
  ASSUME CollectionInv, Begin
  PROVE  CollectionInv'
<1>1. /\ request' \in Requests /\ answer' \in Answers /\ spent' = [spent EXCEPT !.attempts = @ + 1]
      /\ segment' = [state |-> "open", events |-> <<>>, facts |-> None, outcome |-> None]
      /\ spool' = [state |-> "writing", rows |-> 0]
      /\ ipc' = <<>> /\ lines' = <<>> /\ mat' = NoMaterializer
      /\ UNCHANGED <<cancelled, history>>
      /\ \/ /\ host' = [state |-> "operating", result |-> None]
            /\ conn' = [NotStarted EXCEPT !.state = "prepare"]
         \/ /\ host' = [state |-> "returned", result |-> [cause |-> "host"]]
            /\ conn' = NotStarted
  BY DEF Begin
<1>2. /\ conn' \in ConnSet /\ conn'.sent = <<>> /\ conn'.error = None /\ conn'.state \in {"off", "prepare"}
      /\ conn'.result = None
  <2>1. <<>> \in Seq(Row)
    OBVIOUS
  <2>2. NotStarted \in ConnSet /\ [NotStarted EXCEPT !.state = "prepare"] \in ConnSet
    BY <2>1 DEF NotStarted, ConnSet, ConnState
  <2>3. CASE conn' = NotStarted
    BY <2>2, <2>3 DEF NotStarted
  <2>4. CASE conn' = [NotStarted EXCEPT !.state = "prepare"]
    BY <2>2, <2>4 DEF NotStarted
  <2> QED BY <1>1, <2>3, <2>4
<1>3. /\ mat' \in MatSet /\ mat'.state = "off" /\ mat'.envelope = <<>> /\ mat'.rows = 0 /\ mat'.last = None
      /\ mat'.candidate = None
  BY <1>1 DEF NoMaterializer, MatSet, MatState, Position
<1>4. "host" \in Cause
  BY DEF Cause
<1>5. [cause |-> "host"] \in Fail /\ [cause |-> "host"] \notin Success /\ [cause |-> "host"] # None /\ [cause |-> "host"].cause = "host"
  BY <1>4, FailFacts
<1>6. /\ host' \in HostSet /\ host'.result \notin Success /\ host'.state # "idle"
      /\ \/ host'.state = "operating" /\ conn'.state = "prepare" /\ host'.result = None
         \/ /\ host'.state = "returned" /\ conn'.state = "off" /\ host'.result # None
            /\ host'.result \in Fail /\ host'.result.cause = "host"
  <2>1. CASE host' = [state |-> "operating", result |-> None] /\ conn' = [NotStarted EXCEPT !.state = "prepare"]
    BY <2>1, NoResult DEF HostSet, HostState, NotStarted
  <2>2. CASE host' = [state |-> "returned", result |-> [cause |-> "host"]] /\ conn' = NotStarted
    BY <1>5, <2>2 DEF HostSet, HostState, NotStarted
  <2> QED BY <1>1, <2>1, <2>2
<1>7. /\ segment' \in SegmentSet /\ segment'.state = "open" /\ segment'.events = <<>> /\ segment'.outcome = None
  <2>1. <<>> \in Seq(Event)
    OBVIOUS
  <2> QED BY <1>1, <2>1 DEF SegmentSet, SegmentState
<1>8. spool' \in SpoolSet /\ spool'.state = "writing" /\ spool'.rows = 0 /\ spent' \in SpentSet
  <2>1. spent \in SpentSet
    BY DEF CollectionInv, Types
  <2> QED BY <1>1, <2>1 DEF SpoolSet, SpoolState, SpentSet
<1>9. Types'
  <2>1. answer' \in Seq(Row) /\ cancelled' \in BOOLEAN
    BY <1>1, CollectionAssumption DEF CollectionInv, Types
  <2>2. ipc' \in Seq(EnvelopeSet) /\ lines' \in Seq(Row) /\ Len(ipc') = 0 /\ Len(lines') = 0 /\ Len(segment'.events) = 0
    BY <1>1, <1>7
  <2>3. 0 <= IpcCapacity /\ 0 <= RowCapacity
    BY CollectionAssumption
  <2> QED BY <1>1, <1>2, <1>3, <1>6, <1>7, <1>8, <2>1, <2>2, <2>3 DEF Types
<1>10. Phases'
  BY <1>1, <1>2, <1>3, <1>6, <1>7, <1>8 DEF Phases, Running, Operating
<1>11. Flow'
  <2>1. Queued(ipc', conn'.sent, 0)
    <3>1. <<>> \in Seq(Row) /\ Len(<<>>) = 0
      OBVIOUS
    <3> QED BY <1>1, <1>2, <3>1, QueuedNone
  <2>2. Len(lines') = 0 /\ Len(segment'.events) = 0 /\ Len(mat'.envelope) = 0 /\ Len(conn'.sent) = 0 /\ 1 .. 0 = {}
    BY <1>1, <1>2, <1>3, <1>7
  <2>3. request'.maxRows \in Nat
    BY <1>1, CollectionAssumption
  <2> QED BY <1>3, <2>1, <2>2, <2>3 DEF Flow
<1>12. Rises'
  BY <1>3 DEF Rises
<1>13. Results'
  <2>1. conn'.error \notin {"receiver", "cancelled"}
    BY <1>2, CollectionAssumption DEF Failure
  <2> QED BY <1>6, <2>1, NoResult DEF Results
<1>14. Sealed'
  <2>1. None \notin {"connector", "accounting", "metadata"}
    BY CollectionAssumption DEF Outcome
  <2> QED BY <1>7, <2>1 DEF Sealed, CauseIsFirst
<1>15. Identified'
  <2>1. 1 .. Len(segment'.events) = {}
    BY <1>7
  <2> QED BY <1>1, <2>1 DEF CollectionInv, Identified
<1> QED BY <1>9, <1>10, <1>11, <1>12, <1>13, <1>14, <1>15 DEF CollectionInv

(* Whatever the connector sends is a batch of rows.                        *)
LEMMA EnvelopeFacts ==
  ASSUME CollectionInv, NEW rows \in Seq(Row), NEW e \in {Envelope(rows)} \cup Deviations(Envelope(rows))
  PROVE  e \in EnvelopeSet
<1>1. conn.batches \in Nat /\ conn.schema \in Schemas \cup {None}
  BY DEF CollectionInv, Types, ConnSet
<1>2. ASSUME NEW s \in Seq(Row) PROVE Envelope(s) \in EnvelopeSet
  BY <1>1 DEF Envelope, EnvelopeSet
<1>3. <<Null>> \in Seq(Row)
  BY DEF Row
<1> DEFINE h == Envelope(rows)
<1>4. h \in EnvelopeSet /\ h.rows = rows
  BY <1>2 DEF Envelope
<1>5. h.rows \o h.rows \in Seq(Row)
  BY <1>4
<1>6. Envelope(<<Null>>) \in EnvelopeSet /\ Envelope(h.rows \o h.rows) \in EnvelopeSet
  BY <1>2, <1>3, <1>5
<1> HIDE DEF h
<1>7. /\ [h EXCEPT !.sequence = @ + 1] \in EnvelopeSet /\ [h EXCEPT !.sound = FALSE] \in EnvelopeSet
      /\ [h EXCEPT !.count = @ + 1] \in EnvelopeSet /\ [h EXCEPT !.schema = None] \in EnvelopeSet
  <2>1. h.sequence + 1 \in Nat /\ h.count + 1 \in Nat
    BY <1>4 DEF EnvelopeSet
  <2>2. [h EXCEPT !.sequence = @ + 1] \in EnvelopeSet
    BY <1>4, <2>1 DEF EnvelopeSet
  <2>3. [h EXCEPT !.count = @ + 1] \in EnvelopeSet
    BY <1>4, <2>1 DEF EnvelopeSet
  <2>4. [h EXCEPT !.sound = FALSE] \in EnvelopeSet
    BY <1>4 DEF EnvelopeSet
  <2>5. [h EXCEPT !.schema = None] \in EnvelopeSet
    BY <1>4 DEF EnvelopeSet
  <2> QED BY <2>2, <2>3, <2>4, <2>5
<1>8. e \in {h} \cup Deviations(h)
  BY DEF h
<1> QED BY <1>4, <1>6, <1>7, <1>8 DEF Deviations

(* The places of rows written, on their way and in the batch are places of rows sent. *)
LEMMA Places ==
  ASSUME NEW s \in Nat, NEW r \in Nat, NEW v \in Nat, NEW w \in Nat, NEW l \in Nat, r = w + l, r + v <= s
  PROVE  /\ \A k \in 1 .. w : k \in 1 .. s
         /\ \A k \in 1 .. l : w + k \in 1 .. s
         /\ \A k \in 1 .. v : r + k \in 1 .. s
         /\ \A k \in 1 .. r : k \in 1 .. s /\ (k > 1 => k - 1 \in 1 .. s)
         /\ r # 0 => r \in 1 .. s
<1>1. w <= s /\ l <= s /\ r <= s
  OBVIOUS
<1>2. \A k \in 1 .. w : k \in 1 .. s
  BY <1>1
<1>3. \A k \in 1 .. l : w + k \in 1 .. s
  BY <1>1
<1>4. \A k \in 1 .. v : r + k \in 1 .. s
  BY <1>1
<1>5. \A k \in 1 .. r : k \in 1 .. s /\ (k > 1 => k - 1 \in 1 .. s)
  BY <1>1
<1> QED BY <1>1, <1>2, <1>3, <1>4, <1>5

LEMMA ConnectorSendsStep ==
  ASSUME CollectionInv, ConnectorSends
  PROVE  CollectionInv'
<1>1. /\ conn.state = "execute" /\ mat.state \in {"receiving", "rows"} /\ Len(ipc) < IpcCapacity
      /\ UNCHANGED <<request, mat, lines, host, spool, cancelled, segment, history>>
  BY DEF ConnectorSends
<1>2. /\ conn \in ConnSet /\ mat \in MatSet /\ host \in HostSet /\ spool \in SpoolSet /\ spent \in SpentSet
      /\ segment \in SegmentSet /\ answer \in Seq(Row) /\ ipc \in Seq(EnvelopeSet) /\ lines \in Seq(Row)
  BY DEF CollectionInv, Types
<1>0. PICK n \in 1 .. Len(answer) :
        /\ LET honest == Envelope(SubSeq(answer, 1, n)) IN
             \E e \in {honest} \cup Deviations(honest) :
               /\ IF e = honest THEN UNCHANGED spent ELSE Fault
               /\ ipc' = Append(ipc, e)
               /\ conn' = [conn EXCEPT !.sent = @ \o e.rows, !.batches = @ + 1]
        /\ answer' = SubSeq(answer, n + 1, Len(answer))
  BY DEF ConnectorSends
<1> DEFINE first == SubSeq(answer, 1, n)
<1>3. PICK e \in {Envelope(first)} \cup Deviations(Envelope(first)) :
        /\ Fault \/ UNCHANGED spent
        /\ ipc' = Append(ipc, e) /\ conn' = [conn EXCEPT !.sent = @ \o e.rows, !.batches = @ + 1]
        /\ answer' = SubSeq(answer, n + 1, Len(answer))
  BY <1>0
<1>4. e \in EnvelopeSet /\ e.rows \in Seq(Row)
  <2>1. first \in Seq(Row)
    BY <1>2
  <2> HIDE DEF first
  <2>2. e \in EnvelopeSet
    BY <2>1, EnvelopeFacts
  <2> QED BY <2>2 DEF EnvelopeSet
<1>5. spent' \in SpentSet /\ spent'.attempts = spent.attempts
  BY <1>3, FaultFacts
<1>6. segment.state = "open" /\ Operating /\ host.result = None /\ request \in Requests
  BY <1>1, OpenFacts DEF CollectionInv, Phases
<1>7. /\ conn' \in ConnSet /\ conn'.state = conn.state /\ conn'.error = conn.error /\ conn'.result = conn.result
      /\ conn'.sent = conn.sent \o e.rows
  <2>1. conn.sent \in Seq(Row) /\ conn.batches \in Nat
    BY <1>2 DEF ConnSet
  <2>2. conn.sent \o e.rows \in Seq(Row) /\ conn.batches + 1 \in Nat
    BY <1>4, <2>1
  <2>3. conn' = [conn EXCEPT !.sent = conn.sent \o e.rows, !.batches = conn.batches + 1]
    BY <1>2, <1>3 DEF ConnSet
  <2>4. conn' \in ConnSet
    BY <1>2, <2>2, <2>3 DEF ConnSet
  <2> QED BY <1>2, <2>3, <2>4 DEF ConnSet
<1>8. Types'
  <2>1. answer' \in Seq(Row)
    BY <1>2, <1>3
  <2>2. ipc' \in Seq(EnvelopeSet) /\ Len(ipc') = Len(ipc) + 1 /\ Len(ipc) \in Nat
    BY <1>2, <1>3, <1>4
  <2>3. Len(ipc') <= IpcCapacity
    BY <1>1, <2>2, CollectionAssumption
  <2> QED BY <1>1, <1>5, <1>7, <2>1, <2>2, <2>3 DEF CollectionInv, Types
<1>9. Phases'
  BY <1>1, <1>6, <1>7 DEF CollectionInv, Phases, Running, Operating
<1> DEFINE sent == conn.sent
           all == conn.sent \o e.rows
<1>10. /\ sent \in Seq(Row) /\ Len(sent) \in Nat /\ all \in Seq(Row) /\ Len(all) \in Nat /\ Len(sent) <= Len(all)
       /\ \A k \in 1 .. Len(sent) : all[k] = sent[k]
  <2>1. sent \in Seq(Row)
    BY <1>2 DEF ConnSet
  <2> HIDE DEF sent
  <2>2. \A s, t \in Seq(Row) : /\ s \o t \in Seq(Row) /\ Len(s) \in Nat /\ Len(s \o t) = Len(s) + Len(t) /\ Len(t) \in Nat
                               /\ \A k \in 1 .. Len(s) : (s \o t)[k] = s[k]
    OBVIOUS
  <2>3. all = sent \o e.rows
    BY DEF sent
  <2> QED BY <1>4, <2>1, <2>2, <2>3
<1>11. /\ mat.rows \in Nat /\ Len(mat.envelope) \in Nat /\ Len(lines) \in Nat /\ Len(segment.events) \in Nat
  BY <1>2 DEF MatSet, SegmentSet
<1>12. Healthy' => Healthy
  BY <1>1 DEF Healthy
<1>13. ASSUME Healthy
       PROVE  /\ mat.rows = Len(segment.events) + Len(lines) /\ mat.rows + Len(mat.envelope) <= request.maxRows
              /\ mat.rows + Len(mat.envelope) <= Len(sent)
              /\ \A k \in 1 .. Len(segment.events) : segment.events[k].row = sent[k]
              /\ \A k \in 1 .. Len(lines) : lines[k] = sent[Len(segment.events) + k]
              /\ \A k \in 1 .. Len(mat.envelope) : mat.envelope[k] = sent[mat.rows + k]
              /\ Queued(ipc, sent, mat.rows + Len(mat.envelope))
  BY <1>13 DEF CollectionInv, Flow
<1>14. ASSUME Healthy
       PROVE  /\ \A k \in 1 .. Len(segment.events) : k \in 1 .. Len(sent)
              /\ \A k \in 1 .. Len(lines) : Len(segment.events) + k \in 1 .. Len(sent)
              /\ \A k \in 1 .. Len(mat.envelope) : mat.rows + k \in 1 .. Len(sent)
              /\ \A k \in 1 .. mat.rows : k \in 1 .. Len(sent) /\ (k > 1 => k - 1 \in 1 .. Len(sent))
              /\ mat.rows # 0 => mat.rows \in 1 .. Len(sent)
  <2>1. /\ mat.rows = Len(segment.events) + Len(lines) /\ mat.rows + Len(mat.envelope) <= Len(sent)
        /\ Len(sent) \in Nat /\ mat.rows \in Nat /\ Len(mat.envelope) \in Nat
        /\ Len(lines) \in Nat /\ Len(segment.events) \in Nat
    BY <1>10, <1>11, <1>13, <1>14
  <2> QED BY <2>1, Places
<1>15. Queued(ipc, sent, mat.rows + Len(mat.envelope)) => Queued(ipc', all, mat.rows + Len(mat.envelope))
  BY <1>2, <1>3, <1>4, <1>10, QueuedAppend
<1> HIDE DEF sent, all
<1>16. conn'.sent = all /\ conn.sent = sent
  BY <1>7 DEF all, sent
<1>17. Flow'
  <2>1. ASSUME Healthy PROVE mat.rows + Len(mat.envelope) <= Len(all)
    <3>1. mat.rows + Len(mat.envelope) <= Len(sent)
      BY <1>13, <2>1
    <3> QED BY ONLY <1>10, <1>11, <3>1
  <2> QED BY <1>1, <1>10, <1>12, <1>13, <1>14, <1>15, <1>16, <2>1 DEF Flow
<1>18. Rises'
  BY <1>1, <1>10, <1>12, <1>14, <1>16 DEF CollectionInv, Rises, Rising
<1>19. Results'
  BY <1>1, <1>6, <1>7, NoResult DEF CollectionInv, Results
<1>20. Sealed'
  <2>1. segment.outcome = None /\ None \notin {"connector", "accounting", "metadata"}
    BY <1>6, CollectionAssumption DEF CollectionInv, Phases, Outcome
  <2> QED BY <1>1, <1>6, <2>1 DEF Sealed, CauseIsFirst
<1>21. Identified'
  BY <1>1, <1>5 DEF CollectionInv, Identified, EventId, Rising
<1> QED BY <1>8, <1>9, <1>17, <1>18, <1>19, <1>20, <1>21 DEF CollectionInv

(* A batch is admitted, or the materializer fails.                         *)
LEMMA ReceiveEnvelopeStep ==
  ASSUME CollectionInv, ReceiveEnvelope
  PROVE  CollectionInv'
<1>1. /\ mat.state = "receiving" /\ ipc # <<>>
      /\ UNCHANGED <<request, answer, conn, host, spool, cancelled, segment, history, spent>>
  BY DEF ReceiveEnvelope
<1>2. CASE MaterializerFails
  BY <1>1, <1>2, MaterializerFailsStep
<1> DEFINE r == Head(ipc).rows
<1>3. CASE /\ EnvelopeAdmitted(Head(ipc))
           /\ mat' = [mat EXCEPT !.state = "rows", !.envelope = r]
           /\ ipc' = Tail(ipc) /\ lines' = lines
  <2>1. /\ conn \in ConnSet /\ mat \in MatSet /\ segment \in SegmentSet /\ ipc \in Seq(EnvelopeSet)
        /\ Len(ipc) <= IpcCapacity /\ lines \in Seq(Row)
    BY DEF CollectionInv, Types
  <2>2. segment.state = "open" /\ Operating /\ host.result = None /\ request \in Requests
    BY <1>1, OpenFacts DEF CollectionInv, Phases
  <2>3. mat.envelope = <<>> /\ Len(mat.envelope) = 0 /\ mat.rows \in Nat
    BY <1>1, <2>1 DEF CollectionInv, Phases, MatSet
  <2>4. r \in Seq(Row) /\ Len(r) \in Nat
    <3>1. Head(ipc) \in EnvelopeSet
      BY <1>1, <2>1
    <3> QED BY <3>1 DEF EnvelopeSet
  <2>5. mat.rows + Len(r) <= request.maxRows
    BY <1>3 DEF EnvelopeAdmitted
  <2>6. Queued(ipc, conn.sent, mat.rows + Len(mat.envelope)) =>
          /\ mat.rows + Len(r) <= Len(conn.sent) /\ \A k \in 1 .. Len(r) : r[k] = conn.sent[mat.rows + k]
          /\ Queued(Tail(ipc), conn.sent, mat.rows + Len(r))
    <3>1. mat.rows + Len(mat.envelope) = mat.rows /\ conn.sent \in Seq(Row)
      BY <2>1, <2>3 DEF ConnSet
    <3> QED BY <1>1, <2>1, <3>1, QueuedTail
  <2> HIDE DEF r
  <2>7. /\ mat' \in MatSet /\ mat'.state = "rows" /\ mat'.envelope = r /\ mat'.rows = mat.rows
        /\ mat'.last = mat.last /\ mat'.candidate = mat.candidate
    BY <1>3, <2>1, <2>4 DEF MatSet, MatState
  <2>8. Types'
    <3>1. ipc' \in Seq(EnvelopeSet) /\ Len(ipc') <= IpcCapacity
      <4>1. Tail(ipc) \in Seq(EnvelopeSet) /\ Len(Tail(ipc)) = Len(ipc) - 1 /\ Len(ipc) \in Nat
        BY <1>1, <2>1
      <4>2. Len(Tail(ipc)) <= IpcCapacity
        BY <2>1, <4>1, CollectionAssumption
      <4> QED BY <1>3, <4>1, <4>2
    <3> QED BY <1>1, <1>3, <2>7, <3>1 DEF CollectionInv, Types
  <2>9. Phases'
    BY <1>1, <1>3, <2>2, <2>7 DEF CollectionInv, Phases, Running, Operating
  <2>10. Healthy' => Healthy
    BY <1>1 DEF Healthy
  <2>11. Flow'
    BY <1>1, <1>3, <2>3, <2>5, <2>6, <2>7, <2>10 DEF CollectionInv, Flow
  <2>12. Rises'
    BY <1>1, <2>7, <2>10 DEF CollectionInv, Rises, Rising, Greater
  <2>13. Results'
    BY <1>1, <2>2, <2>7, NoResult DEF CollectionInv, Results
  <2>14. Sealed'
    <3>1. segment.outcome = None /\ None \notin {"connector", "accounting", "metadata"}
      BY <2>2, CollectionAssumption DEF CollectionInv, Phases, Outcome
    <3> QED BY <1>1, <2>2, <3>1 DEF Sealed, CauseIsFirst
  <2>15. Identified'
    BY <1>1 DEF CollectionInv, Identified, EventId, Rising
  <2> QED BY <2>8, <2>9, <2>11, <2>12, <2>13, <2>14, <2>15 DEF CollectionInv
<1> QED BY <1>1, <1>2, <1>3 DEF ReceiveEnvelope

(* Sequences at their ends.                                                *)
LEMMA HeadFacts ==
  ASSUME NEW S, NEW s \in Seq(S), s # <<>>
  PROVE  /\ Head(s) \in S /\ s[1] = Head(s) /\ Tail(s) \in Seq(S) /\ Len(s) \in Nat /\ Len(s) # 0
         /\ Len(Tail(s)) = Len(s) - 1 /\ 1 \in 1 .. Len(s)
         /\ \A k \in 1 .. (Len(s) - 1) : Tail(s)[k] = s[k + 1] /\ k + 1 \in 1 .. Len(s)
<1>1. /\ Head(s) \in S /\ s[1] = Head(s) /\ Tail(s) \in Seq(S) /\ Len(s) \in Nat /\ Len(s) # 0
      /\ Len(Tail(s)) = Len(s) - 1
  OBVIOUS
<1>2. \A k \in 1 .. (Len(s) - 1) : Tail(s)[k] = s[k + 1]
  OBVIOUS
<1>3. \A k \in 1 .. (Len(s) - 1) : k + 1 \in 1 .. Len(s)
  BY <1>1
<1> QED BY <1>1, <1>2, <1>3

LEMMA AppendFacts ==
  ASSUME NEW S, NEW s \in Seq(S), NEW x \in S
  PROVE  /\ Append(s, x) \in Seq(S) /\ Len(s) \in Nat /\ Len(Append(s, x)) = Len(s) + 1
         /\ Append(s, x)[Len(s) + 1] = x /\ \A k \in 1 .. Len(s) : Append(s, x)[k] = s[k]
OBVIOUS

LEMMA LastPlace ==
  ASSUME NEW n \in Nat, NEW k \in 1 .. (n + 1)
  PROVE  k \in 1 .. n \/ k = n + 1
OBVIOUS

(* The tracker's candidate is the greater of what is committed and the last row. *)
LEMMA GreaterFacts ==
  ASSUME NEW c \in Position, NEW row \in Nat, NEW last \in Nat, row > last
  PROVE  /\ Greater(c, row) \in Position /\ Greater(None, Greater(c, row)) = Greater(c, row)
         /\ Greater(Greater(c, last), Greater(c, row)) = Greater(c, row)
<1>1. row # None /\ last # None
  BY CollectionAssumption
<1>2. CASE c = None
  BY <1>1, <1>2 DEF Greater, Position
<1>3. CASE c # None
  <2>1. c \in Nat
    BY <1>3 DEF Position
  <2>2. Greater(c, row) = (IF row > c THEN row ELSE c) /\ Greater(c, last) = (IF last > c THEN last ELSE c)
    BY <1>1, <1>3 DEF Greater
  <2>3. Greater(c, row) \in Nat /\ Greater(c, last) \in Nat /\ Greater(c, row) # None /\ Greater(c, last) # None
    BY <2>1, <2>2, CollectionAssumption
  <2>4. Greater(Greater(c, last), Greater(c, row)) =
          IF Greater(c, row) > Greater(c, last) THEN Greater(c, row) ELSE Greater(c, last)
    BY <2>3 DEF Greater
  <2>5. ~(Greater(c, row) > Greater(c, last)) => Greater(c, row) = Greater(c, last)
    BY <2>1, <2>2
  <2>6. Greater(None, Greater(c, row)) = Greater(c, row)
    BY DEF Greater
  <2> QED BY <2>3, <2>4, <2>5, <2>6 DEF Position
<1> QED BY <1>2, <1>3

LEMMA GreaterType ==
  ASSUME NEW c \in Position, NEW row \in Nat
  PROVE  Greater(c, row) \in Position
BY DEF Greater, Position

(* A row that is admitted goes from the batch to the row channel.          *)
LEMMA SendRowStep ==
  ASSUME CollectionInv, SendRow
  PROVE  CollectionInv'
<1> DEFINE row == Head(mat.envelope)
<1>1. /\ mat.state = "rows" /\ mat.envelope # <<>>
      /\ UNCHANGED <<request, answer, conn, host, spool, cancelled, segment, history, spent>>
  BY DEF SendRow
<1>2. CASE MaterializerFails
  BY <1>1, <1>2, MaterializerFailsStep
<1>3. CASE /\ RowAdmitted(row) /\ spool.state = "writing" /\ Len(lines) < RowCapacity
           /\ mat' = [RecordEmitted(row) EXCEPT !.envelope = Tail(@), !.rows = @ + 1,
                                                !.bytes = @ + LineBytes(row)]
           /\ lines' = Append(lines, row) /\ ipc' = ipc
  <2>1. /\ conn \in ConnSet /\ mat \in MatSet /\ segment \in SegmentSet /\ lines \in Seq(Row) /\ ipc \in Seq(EnvelopeSet)
    BY DEF CollectionInv, Types
  <2>2. segment.state = "open" /\ Operating /\ host.result = None /\ request \in Requests
    BY <1>1, OpenFacts DEF CollectionInv, Phases
  <2> DEFINE env == mat.envelope
             sent == conn.sent
             w == Len(segment.events)
             l == Len(lines)
             r == mat.rows
             v == Len(env)
  <2>3. /\ env \in Seq(Row) /\ sent \in Seq(Row) /\ w \in Nat /\ l \in Nat /\ r \in Nat /\ v \in Nat /\ Len(sent) \in Nat
        /\ mat.bytes \in Nat /\ mat.last \in Position /\ mat.candidate \in Position
    BY <2>1 DEF MatSet, ConnSet, SegmentSet
  <2>4. /\ row \in Row /\ env[1] = row /\ Tail(env) \in Seq(Row) /\ v # 0 /\ Len(Tail(env)) = v - 1 /\ 1 \in 1 .. v
        /\ \A k \in 1 .. (v - 1) : Tail(env)[k] = env[k + 1] /\ k + 1 \in 1 .. v
    BY <1>1, <2>3, HeadFacts
  <2>5. /\ Append(lines, row) \in Seq(Row) /\ Len(Append(lines, row)) = l + 1 /\ Append(lines, row)[l + 1] = row
        /\ \A k \in 1 .. l : Append(lines, row)[k] = lines[k]
    BY <2>1, <2>4, AppendFacts
  <2>6. /\ Rising => /\ row \in Nat
                     /\ request.bound # None => row > request.bound
                     /\ mat.last # None => row > mat.last
    BY <1>3, <2>4, CollectionAssumption DEF RowAdmitted
  <2>7. request.committed \in Position
    BY <2>2, CollectionAssumption
  <2> DEFINE last == IF Rising THEN row ELSE None
             candidate == IF Rising THEN Greater(mat.candidate, Greater(request.committed, row)) ELSE None
  <2>8. last \in Position /\ candidate \in Position
    <3>1. CASE Rising
      <4>1. row \in Nat /\ Greater(request.committed, row) \in Position
        BY <2>6, <2>7, <3>1, GreaterType
      <4>2. \A a, b \in Position : Greater(a, b) \in Position
        BY DEF Greater
      <4> QED BY <2>3, <3>1, <4>1, <4>2 DEF Position
    <3>2. CASE ~Rising
      BY <3>2 DEF Position
    <3> QED BY <3>1, <3>2
  <2>9. Healthy
    BY <1>1, <1>3, <2>2 DEF Healthy
  <2>10. /\ r = w + l /\ r + v <= request.maxRows /\ r + v <= Len(sent)
         /\ \A k \in 1 .. w : segment.events[k].row = sent[k]
         /\ \A k \in 1 .. l : lines[k] = sent[w + k]
         /\ \A k \in 1 .. v : env[k] = sent[r + k]
         /\ Queued(ipc, sent, r + v)
    BY <2>9 DEF CollectionInv, Flow
  <2> HIDE DEF row, env, sent, w, l, r, v
  <2> DEFINE m == [mat EXCEPT !.last = last, !.candidate = candidate]
  <2>11. m \in MatSet /\ m.state = "rows" /\ m.envelope = env /\ m.rows = r /\ m.bytes = mat.bytes /\ m.last = last /\ m.candidate = candidate
    <3> HIDE DEF last, candidate
    <3>1. m \in MatSet
      BY <2>1, <2>8 DEF MatSet
    <3>2. /\ m.state = "rows" /\ m.envelope = env /\ m.rows = r /\ m.bytes = mat.bytes
          /\ m.last = last /\ m.candidate = candidate
      BY <1>1, <2>1 DEF MatSet, env, r
    <3> QED BY <3>1, <3>2
  <2>12. RecordEmitted(row) = m
    BY <2>1 DEF RecordEmitted, MatSet
  <2> HIDE DEF m, last, candidate
  <2>13. mat' = [m EXCEPT !.envelope = Tail(env), !.rows = r + 1, !.bytes = mat.bytes + LineBytes(row)]
    BY <1>3, <2>11, <2>12 DEF MatSet
  <2>14. /\ mat' \in MatSet /\ mat'.state = "rows" /\ mat'.envelope = Tail(env) /\ mat'.rows = r + 1
         /\ mat'.last = last /\ mat'.candidate = candidate
    <3>1. r + 1 \in Nat /\ mat.bytes + LineBytes(row) \in Nat
      BY <2>3, <2>4, CollectionAssumption
    <3>2. mat' \in MatSet
      BY <2>4, <2>11, <2>13, <3>1 DEF MatSet
    <3>3. /\ mat'.state = "rows" /\ mat'.envelope = Tail(env) /\ mat'.rows = r + 1
          /\ mat'.last = last /\ mat'.candidate = candidate
      BY <2>11, <2>13 DEF MatSet
    <3> QED BY <3>2, <3>3
  <2>15. lines' \in Seq(Row) /\ Len(lines') = l + 1 /\ lines'[l + 1] = row /\ \A k \in 1 .. l : lines'[k] = lines[k]
    BY <1>3, <2>5 DEF row
  <2>16. Types'
    <3>1. Len(lines') <= RowCapacity
      <4>1. l < RowCapacity
        BY <1>3 DEF l
      <4> QED BY <2>3, <2>15, <4>1, CollectionAssumption
    <3> QED BY <1>1, <1>3, <2>14, <2>15, <3>1 DEF CollectionInv, Types
  <2>17. Phases'
    BY <1>1, <1>3, <2>2, <2>14 DEF CollectionInv, Phases, Running, Operating
  <2>18. sent[r + 1] = row /\ r + 1 = w + (l + 1) /\ (r + 1) + (v - 1) = r + v
    <3>1. sent[r + 1] = row
      BY <2>4, <2>10
    <3>2. r + 1 = w + (l + 1) /\ (r + 1) + (v - 1) = r + v
      <4>1. r = w + l
        BY <2>10
      <4> QED BY <2>3, <4>1
    <3> QED BY <3>1, <3>2
  <2>19. Flow'
    <3>1. ASSUME NEW k \in 1 .. (l + 1) PROVE lines'[k] = sent[w + k]
      <4>1. CASE k \in 1 .. l
        BY <2>10, <2>15, <4>1
      <4>2. CASE k = l + 1
        BY <2>15, <2>18, <4>2
      <4> QED BY <2>3, <4>1, <4>2, LastPlace
    <3>2. ASSUME NEW k \in 1 .. (v - 1) PROVE Tail(env)[k] = sent[(r + 1) + k]
      <4>1. Tail(env)[k] = sent[r + (k + 1)]
        BY <2>4, <2>10
      <4>2. r + (k + 1) = (r + 1) + k
        BY <2>3
      <4> QED BY <4>1, <4>2
    <3>3. segment' = segment /\ conn' = conn /\ ipc' = ipc /\ request' = request
      BY <1>1, <1>3
    <3>4. /\ segment'.events = segment.events /\ Len(segment'.events) = w /\ conn'.sent = sent
          /\ Len(mat'.envelope) = v - 1 /\ mat'.rows + Len(mat'.envelope) = r + v
      BY <2>4, <2>14, <2>18, <3>3 DEF w, sent
    <3>5. mat'.rows = Len(segment'.events) + Len(lines')
      BY <2>14, <2>15, <2>18, <3>4
    <3>6. /\ mat'.rows + Len(mat'.envelope) <= request'.maxRows /\ mat'.rows + Len(mat'.envelope) <= Len(conn'.sent)
          /\ Queued(ipc', conn'.sent, mat'.rows + Len(mat'.envelope))
      BY <2>10, <3>3, <3>4
    <3>7. \A k \in 1 .. Len(segment'.events) : segment'.events[k].row = conn'.sent[k]
      BY <2>10, <3>4
    <3>8. \A k \in 1 .. Len(lines') : lines'[k] = conn'.sent[Len(segment'.events) + k]
      BY <2>15, <3>1, <3>4
    <3>9. \A k \in 1 .. Len(mat'.envelope) : mat'.envelope[k] = conn'.sent[mat'.rows + k]
      BY <2>14, <3>2, <3>4
    <3> QED BY <3>5, <3>6, <3>7, <3>8, <3>9 DEF Flow
  <2>20. Rises'
    <3> SUFFICES ASSUME Rising
                 PROVE  /\ \A k \in 1 .. mat'.rows : /\ conn'.sent[k] \in Nat
                                                     /\ request'.bound # None => conn'.sent[k] > request'.bound
                                                     /\ k > 1 => conn'.sent[k] > conn'.sent[k - 1]
                        /\ mat'.last = IF mat'.rows = 0 THEN None ELSE conn'.sent[mat'.rows]
                        /\ mat'.candidate = IF mat'.rows = 0 THEN None ELSE Greater(request'.committed, mat'.last)
      <4>1. Rising' = Rising
        BY <1>1 DEF Rising
      <4> QED BY <4>1 DEF Rises, Greater
    <3>1. conn' = conn /\ request' = request /\ mat'.rows = r + 1 /\ r + 1 # 0 /\ mat'.last = row /\ conn.sent = sent
      BY <1>1, <2>3, <2>14 DEF last, sent
    <3>2. /\ \A k \in 1 .. r : /\ sent[k] \in Nat /\ (request.bound # None => sent[k] > request.bound)
                               /\ k > 1 => sent[k] > sent[k - 1]
          /\ mat.last = IF r = 0 THEN None ELSE sent[r]
          /\ mat.candidate = IF r = 0 THEN None ELSE Greater(request.committed, mat.last)
      BY <2>9 DEF CollectionInv, Rises, r, sent
    <3>3. row \in Nat /\ (request.bound # None => row > request.bound) /\ (mat.last # None => row > mat.last)
      BY <2>6
    <3>4. r # 0 => r \in 1 .. r /\ mat.last = sent[r] /\ mat.last \in Nat /\ row > mat.last
      <4>1. r # 0 => r \in 1 .. r
        BY <2>3
      <4> QED BY <3>2, <3>3, <4>1, CollectionAssumption
    <3>5. ASSUME NEW k \in 1 .. (r + 1)
          PROVE  /\ sent[k] \in Nat /\ (request.bound # None => sent[k] > request.bound)
                 /\ k > 1 => sent[k] > sent[k - 1]
      <4>1. CASE k \in 1 .. r
        BY <3>2, <4>1
      <4>2. CASE k = r + 1
        <5>1. sent[k] = row
          BY <2>18, <4>2
        <5>2. k > 1 => r # 0 /\ k - 1 = r
          BY <2>3, <4>2
        <5> QED BY <3>3, <3>4, <5>1, <5>2
      <4> QED BY <2>3, <4>1, <4>2, LastPlace
    <3>6. candidate = Greater(request.committed, row)
      <4>1. candidate = Greater(mat.candidate, Greater(request.committed, row))
        BY DEF candidate
      <4>2. CASE r = 0
        BY <3>2, <4>1, <4>2 DEF Greater
      <4>3. CASE r # 0
        BY <2>7, <3>2, <3>3, <3>4, <4>1, <4>3, GreaterFacts
      <4> QED BY <4>2, <4>3
    <3> QED BY <2>14, <2>18, <3>1, <3>5, <3>6
  <2>21. Results'
    BY <1>1, <2>2, <2>14, NoResult DEF CollectionInv, Results
  <2>22. Sealed'
    <3>1. segment.outcome = None /\ None \notin {"connector", "accounting", "metadata"}
      BY <2>2, CollectionAssumption DEF CollectionInv, Phases, Outcome
    <3> QED BY <1>1, <2>2, <3>1 DEF Sealed, CauseIsFirst
  <2>23. Identified'
    BY <1>1 DEF CollectionInv, Identified, EventId, Rising
  <2> QED BY <2>16, <2>17, <2>19, <2>20, <2>21, <2>22, <2>23 DEF CollectionInv
<1> QED BY <1>1, <1>2, <1>3 DEF SendRow

(* The worker writes the next line, with the identity of its row, or fails. *)
LEMMA SpoolRowStep ==
  ASSUME CollectionInv, SpoolRow
  PROVE  CollectionInv'
<1>1. /\ spool.state = "writing" /\ lines # <<>> /\ UNCHANGED <<request, answer, conn, ipc, mat, host, cancelled, history>>
  BY DEF SpoolRow
<1>2. /\ conn \in ConnSet /\ mat \in MatSet /\ segment \in SegmentSet /\ lines \in Seq(Row) /\ spool \in SpoolSet
      /\ spool.rows = Len(segment.events) /\ spent \in SpentSet /\ Len(lines) <= RowCapacity
  BY DEF CollectionInv, Types
<1>3. segment.state = "open" /\ request \in Requests /\ segment.outcome = None
  BY <1>1, OpenFacts DEF CollectionInv, Phases
<1>4. None \notin {"connector", "accounting", "metadata"}
  BY CollectionAssumption DEF Outcome
<1>5. CASE spool' = [spool EXCEPT !.state = "failed"] /\ lines' = <<>> /\ Fault /\ segment' = segment
  <2>1. spool' \in SpoolSet /\ spool'.state = "failed" /\ spool'.rows = spool.rows
    BY <1>2, <1>5 DEF SpoolSet, SpoolState
  <2>2. spent' \in SpentSet /\ spent'.attempts = spent.attempts
    BY <1>5, FaultFacts
  <2>3. lines' \in Seq(Row) /\ Len(lines') = 0 /\ 0 <= RowCapacity
    BY <1>5, CollectionAssumption
  <2>4. Types'
    BY <1>1, <1>5, <2>1, <2>2, <2>3 DEF CollectionInv, Types
  <2>5. Phases'
    BY <1>1, <1>3, <1>5, <2>1 DEF CollectionInv, Phases, Running, Operating
  <2>6. Flow' /\ Rises'
    BY <2>1 DEF Flow, Rises, Healthy
  <2>7. Results'
    BY <1>1 DEF CollectionInv, Results, Rising
  <2>8. Sealed'
    BY <1>3, <1>4, <1>5 DEF Sealed, CauseIsFirst
  <2>9. Identified'
    BY <1>1, <1>5, <2>2 DEF CollectionInv, Identified, EventId, Rising
  <2> QED BY <2>4, <2>5, <2>6, <2>7, <2>8, <2>9 DEF CollectionInv
<1>6. CASE /\ segment' = [segment EXCEPT !.events =
                            Append(@, [row |-> Head(lines), id |-> EventId(Head(lines), spool.rows + 1)])]
           /\ spool' = [spool EXCEPT !.rows = @ + 1] /\ lines' = Tail(lines) /\ spent' = spent
  <2> DEFINE row == Head(lines)
             w == Len(segment.events)
             event == [row |-> row, id |-> EventId(row, w + 1)]
             written == Append(segment.events, event)
             l == Len(lines)
  <2>1. /\ row \in Row /\ lines[1] = row /\ lines' \in Seq(Row) /\ l \in Nat /\ l # 0 /\ Len(lines') = l - 1
        /\ 1 \in 1 .. l /\ \A k \in 1 .. (l - 1) : lines'[k] = lines[k + 1] /\ k + 1 \in 1 .. l
    BY <1>1, <1>2, <1>6, HeadFacts
  <2>2. w \in Nat /\ segment.events \in Seq(Event)
    BY <1>2 DEF SegmentSet
  <2>3. event \in Event
    <3>1. EventId(row, w + 1) \in Id
      <4>1. request.input \in Inputs /\ request.lineage \in Lineages /\ spent.attempts \in Nat /\ w + 1 \in Nat
        BY <1>2, <1>3, <2>2 DEF Inputs, Lineages, SpentSet
      <4> QED BY <2>1, <4>1 DEF EventId, Id
    <3> QED BY <2>1, <3>1 DEF Event
  <2>4. event.row = row /\ event.id = EventId(row, w + 1)
    OBVIOUS
  <2> HIDE DEF event
  <2>5. /\ written \in Seq(Event) /\ Len(written) = w + 1 /\ written[w + 1] = event
        /\ \A k \in 1 .. w : written[k] = segment.events[k]
    BY <2>2, <2>3, AppendFacts
  <2>6. segment' = [segment EXCEPT !.events = written]
    BY <1>2, <1>6 DEF event, SegmentSet
  <2> HIDE DEF written, row, w, l
  <2>7. /\ segment' \in SegmentSet /\ segment'.state = segment.state /\ segment'.events = written
        /\ segment'.outcome = segment.outcome /\ segment'.facts = segment.facts
    BY <1>2, <2>5, <2>6 DEF SegmentSet
  <2>8. spool' \in SpoolSet /\ spool'.state = "writing" /\ spool'.rows = w + 1
    BY <1>1, <1>2, <1>6 DEF SpoolSet, w
  <2>9. Types'
    <3>1. Len(lines') <= RowCapacity
      <4>1. l <= RowCapacity
        BY <1>2 DEF l
      <4> QED BY <2>1, <4>1, CollectionAssumption
    <3> QED BY <1>1, <1>6, <2>1, <2>5, <2>7, <2>8, <3>1 DEF CollectionInv, Types
  <2>10. Phases'
    BY <1>1, <1>3, <2>7, <2>8 DEF CollectionInv, Phases, Running, Operating
  <2>11. Healthy' => Healthy
    BY <1>1, <1>3, <2>7, <2>8 DEF Healthy
  <2>12. Flow'
    <3> DEFINE sent == conn.sent
    <3> SUFFICES ASSUME Healthy
                 PROVE  /\ mat'.rows = Len(segment'.events) + Len(lines')
                        /\ mat'.rows + Len(mat'.envelope) <= request'.maxRows
                        /\ mat'.rows + Len(mat'.envelope) <= Len(conn'.sent)
                        /\ \A k \in 1 .. Len(segment'.events) : segment'.events[k].row = conn'.sent[k]
                        /\ \A k \in 1 .. Len(lines') : lines'[k] = conn'.sent[Len(segment'.events) + k]
                        /\ \A k \in 1 .. Len(mat'.envelope) : mat'.envelope[k] = conn'.sent[mat'.rows + k]
                        /\ Queued(ipc', conn'.sent, mat'.rows + Len(mat'.envelope))
      BY <2>11 DEF Flow
    <3>1. /\ mat.rows = w + l /\ mat.rows + Len(mat.envelope) <= request.maxRows
          /\ mat.rows + Len(mat.envelope) <= Len(sent)
          /\ \A k \in 1 .. w : segment.events[k].row = sent[k]
          /\ \A k \in 1 .. l : lines[k] = sent[w + k]
          /\ \A k \in 1 .. Len(mat.envelope) : mat.envelope[k] = sent[mat.rows + k]
          /\ Queued(ipc, sent, mat.rows + Len(mat.envelope))
      BY DEF CollectionInv, Flow, w, l
    <3> HIDE DEF sent
    <3>2. /\ mat' = mat /\ conn'.sent = sent /\ ipc' = ipc /\ request' = request
          /\ Len(segment'.events) = w + 1 /\ Len(lines') = l - 1
      BY <1>1, <2>1, <2>5, <2>7 DEF sent
    <3>3. w + l = (w + 1) + (l - 1)
      BY <2>1, <2>2 DEF w
    <3>4. ASSUME NEW k \in 1 .. (w + 1) PROVE written[k].row = sent[k]
      <4>1. CASE k \in 1 .. w
        BY <2>5, <3>1, <4>1
      <4>2. CASE k = w + 1
        BY <2>1, <2>4, <2>5, <3>1, <4>2
      <4> QED BY <2>2, <4>1, <4>2, LastPlace DEF w
    <3>5. ASSUME NEW k \in 1 .. (l - 1) PROVE lines'[k] = sent[(w + 1) + k]
      <4>1. lines'[k] = sent[w + (k + 1)]
        BY <2>1, <3>1
      <4>2. w \in Nat /\ k \in Nat
        BY <2>2 DEF w
      <4>3. w + (k + 1) = (w + 1) + k
        BY ONLY <4>2
      <4> QED BY <4>1, <4>3
    <3>6. mat'.rows = Len(segment'.events) + Len(lines')
      BY <3>1, <3>2, <3>3
    <3> QED BY <2>7, <3>1, <3>2, <3>4, <3>5, <3>6
  <2>13. Rises'
    BY <1>1, <2>11 DEF CollectionInv, Rises, Rising, Greater
  <2>14. Results'
    BY <1>1 DEF CollectionInv, Results, Rising
  <2>15. Sealed'
    BY <1>3, <1>4, <2>7 DEF Sealed, CauseIsFirst
  <2>16. Identified'
    <3>1. ASSUME NEW k \in 1 .. (w + 1) PROVE written[k].id = EventId(written[k].row, k)
      <4>1. CASE k \in 1 .. w
        <5>1. segment.events[k].id = EventId(segment.events[k].row, k)
          BY <1>3, <4>1 DEF CollectionInv, Identified, w
        <5> QED BY <2>5, <4>1, <5>1
      <4>2. CASE k = w + 1
        BY <2>4, <2>5, <4>2
      <4> QED BY <2>2, <4>1, <4>2, LastPlace DEF w
    <3>2. request' = request /\ spent' = spent /\ history' = history
      BY <1>1, <1>6
    <3>3. \A k \in 1 .. Len(written) : written[k].id = EventId(written[k].row, k)
      BY <2>5, <3>1
    <3>4. \A k \in 1 .. Len(segment'.events) : segment'.events[k].id = EventId(segment'.events[k].row, k)
      BY <2>7, <3>3
    <3> QED BY <3>2, <3>4 DEF CollectionInv, Identified, EventId, Rising
  <2> QED BY <2>9, <2>10, <2>12, <2>13, <2>14, <2>15, <2>16 DEF CollectionInv
<1> QED BY <1>5, <1>6 DEF SpoolRow

(* The rows are all there when the operation succeeded and the spool is done. *)
LEMMA WholeFacts ==
  ASSUME CollectionInv, segment.state \in {"open", "ready"}, mat.state = "succeeded",
         spool.state \in {"done", "off"}
  PROVE  /\ mat.rows = Len(segment.events) /\ Len(conn.sent) = mat.rows /\ mat.rows <= request.maxRows
         /\ \A k \in 1 .. mat.rows : segment.events[k].row = conn.sent[k]
<1>1. lines = <<>> /\ ipc = <<>> /\ mat.envelope = <<>> /\ Healthy
  BY DEF CollectionInv, Phases, Healthy
<1>2. /\ mat.rows = Len(segment.events) + Len(lines) /\ mat.rows + Len(mat.envelope) <= request.maxRows
      /\ \A k \in 1 .. Len(segment.events) : segment.events[k].row = conn.sent[k]
      /\ Queued(ipc, conn.sent, mat.rows + Len(mat.envelope))
  BY <1>1 DEF CollectionInv, Flow
<1>3. Len(<<>>) = 0 /\ mat.rows \in Nat /\ Len(segment.events) \in Nat /\ conn.sent \in Seq(Row)
  BY DEF CollectionInv, Types, MatSet, SegmentSet, ConnSet
<1>4. mat.rows + Len(mat.envelope) = mat.rows /\ mat.rows = Len(segment.events)
  BY <1>1, <1>2, <1>3
<1>5. mat.rows = Len(conn.sent)
  BY <1>1, <1>2, <1>3, <1>4, QueuedNone
<1> QED BY <1>2, <1>4, <1>5

(* An attempt that is over without a segment, for a cause that was its first. *)
LEMMA AbortedStep ==
  ASSUME CollectionInv, segment.state = "open", host.state = "returned", spool.state \in {"done", "failed"},
         UNCHANGED <<request, answer, conn, ipc, mat, lines, cancelled, history>>,
         spool' = [spool EXCEPT !.state = "off"], host' = [host EXCEPT !.state = "idle"],
         spent' \in SpentSet,
         NEW o \in Outcome, segment' = [segment EXCEPT !.state = "aborted", !.outcome = o],
         o = "connector" => conn.error = "own", o \notin {"accounting", "metadata"}
  PROVE  CollectionInv'
<1>1. /\ conn \in ConnSet /\ mat \in MatSet /\ segment \in SegmentSet /\ spool \in SpoolSet /\ host \in HostSet
  BY DEF CollectionInv, Types
<1>2. /\ segment' \in SegmentSet /\ segment'.state = "aborted" /\ segment'.outcome = o
      /\ segment'.events = segment.events
  BY <1>1 DEF SegmentSet, SegmentState
<1>3. spool' \in SpoolSet /\ spool'.state = "off" /\ spool'.rows = spool.rows
  BY <1>1 DEF SpoolSet, SpoolState
<1>4. host' \in HostSet /\ host'.state = "idle" /\ host'.result = host.result
  BY <1>1 DEF HostSet, HostState
<1>5. Types'
  BY <1>2, <1>3, <1>4, OpenFacts DEF CollectionInv, Types
<1>6. Phases'
  BY <1>2, <1>3, <1>4 DEF CollectionInv, Phases, Running, Operating
<1>7. Flow' /\ Rises'
  BY <1>2 DEF Flow, Rises, Healthy
<1>8. Results'
  BY <1>4 DEF CollectionInv, Results, Rising
<1>9. Sealed'
  BY <1>2 DEF Sealed, CauseIsFirst
<1>10. Identified'
  BY <1>2 DEF CollectionInv, Identified
<1> QED BY <1>5, <1>6, <1>7, <1>8, <1>9, <1>10 DEF CollectionInv

(* The segment is published with what collect_json_rows returned. *)
LEMMA SealedStep ==
  ASSUME CollectionInv, segment.state = "open", host.state = "returned", spool.state = "done",
         UNCHANGED <<request, answer, conn, ipc, mat, lines, cancelled, spent>>,
         spool' = [spool EXCEPT !.state = "off"], host' = [host EXCEPT !.state = "idle"],
         NEW r \in Success, host.result = r, Rising => r.rows # 0,
         segment' = [segment EXCEPT !.state = "ready", !.outcome = "ok",
                                    !.facts = [rows |-> r.rows, truncated |-> r.truncated,
                                               candidate |-> r.candidate, resume |-> r.resume]],
         history' = history \cup {[event |-> segment.events[k], rising |-> Rising,
                                   source |-> <<request.input, request.lineage>>,
                                   of |-> <<spent.attempts, k>>] : k \in DOMAIN segment.events}
  PROVE  CollectionInv'
<1> DEFINE facts == [rows |-> r.rows, truncated |-> r.truncated, candidate |-> r.candidate, resume |-> r.resume]
<1>1. /\ conn \in ConnSet /\ mat \in MatSet /\ segment \in SegmentSet /\ spool \in SpoolSet /\ host \in HostSet
      /\ spent \in SpentSet
  BY DEF CollectionInv, Types
<1>2. facts \in Facts /\ facts.candidate = r.candidate /\ facts.resume = r.resume
  BY DEF Facts, Success
<1>3. segment' = [segment EXCEPT !.state = "ready", !.outcome = "ok", !.facts = facts]
  OBVIOUS
<1> HIDE DEF facts
<1>4. /\ segment' \in SegmentSet /\ segment'.state = "ready" /\ segment'.outcome = "ok"
      /\ segment'.events = segment.events /\ segment'.facts = facts
  BY <1>1, <1>2, <1>3 DEF SegmentSet, SegmentState, Outcome
<1>5. spool' \in SpoolSet /\ spool'.state = "off" /\ spool'.rows = spool.rows
  BY <1>1 DEF SpoolSet, SpoolState
<1>6. host' \in HostSet /\ host'.state = "idle" /\ host'.result = host.result
  BY <1>1 DEF HostSet, HostState
<1>7. Types'
  BY <1>4, <1>5, <1>6, OpenFacts DEF CollectionInv, Types
<1>8. Phases'
  BY <1>4, <1>5, <1>6 DEF CollectionInv, Phases, Running, Operating
<1>9. Flow' /\ Rises'
  <2>1. UNCHANGED flow
    BY <1>4 DEF flow
  <2>2. Healthy' => Healthy
    BY <1>4 DEF Healthy
  <2> QED BY <2>1, <2>2, FlowStays DEF CollectionInv
<1>10. Results'
  BY <1>6 DEF CollectionInv, Results, Rising
<1>11. Sealed'
  <2>1. /\ mat.state = "succeeded" /\ conn.state = "succeeded" /\ conn.result.rows = mat.rows
        /\ r.rows = mat.rows /\ r.candidate = mat.candidate /\ r.resume = mat.last
    BY DEF CollectionInv, Results
  <2> QED BY <1>2, <1>4, <2>1 DEF Sealed, CauseIsFirst, Rising
<1>12. Identified'
  <2>1. request \in Requests /\ request.rising \in BOOLEAN
    BY OpenFacts, CollectionAssumption
  <2>2. ASSUME NEW k \in DOMAIN segment.events,
               NEW h, h = [event |-> segment.events[k], rising |-> Rising,
                           source |-> <<request.input, request.lineage>>, of |-> <<spent.attempts, k>>]
        PROVE  /\ h.rising \in BOOLEAN /\ h.source \in Inputs \X Lineages /\ h.of \in Nat \X Nat
               /\ h.event.id = IF h.rising THEN <<"rising", h.source[1], h.source[2], h.event.row>>
                               ELSE <<"batch", h.source[1], h.of[1], h.of[2]>>
    <3>1. k \in 1 .. Len(segment.events) /\ k \in Nat /\ spent.attempts \in Nat
      BY <1>1 DEF SegmentSet, SpentSet
    <3>2. segment.events[k].id = EventId(segment.events[k].row, k)
      BY <3>1 DEF CollectionInv, Identified
    <3>3. request.input \in Inputs /\ request.lineage \in Lineages
      BY <2>1 DEF Inputs, Lineages
    <3>4. /\ h.rising = Rising /\ h.source = <<request.input, request.lineage>> /\ h.of = <<spent.attempts, k>>
          /\ h.event = segment.events[k]
      BY <2>2
    <3> QED BY <2>1, <3>1, <3>2, <3>3, <3>4 DEF EventId, Rising
  <2> QED BY <1>4, <2>2 DEF CollectionInv, Identified
<1> QED BY <1>7, <1>8, <1>9, <1>10, <1>11, <1>12 DEF CollectionInv

LEMMA FinalizeStep ==
  ASSUME CollectionInv, Finalize
  PROVE  CollectionInv'
<1> DEFINE r == host.result
<1>1. /\ segment.state = "open" /\ host.state = "returned" /\ spool.state \in {"done", "failed"}
      /\ UNCHANGED <<request, answer, conn, ipc, mat, lines, cancelled>>
      /\ spool' = [spool EXCEPT !.state = "off"] /\ host' = [host EXCEPT !.state = "idle"]
  BY DEF Finalize
<1>2. /\ spent \in SpentSet /\ r \in Fail \cup Success /\ r.cause \in Cause \cup {None}
      /\ r.cause = None => r \in Success
      /\ r \in Success => r.cause = None
  <2>1. spent \in SpentSet /\ r \in Fail \cup Success
    BY <1>1 DEF CollectionInv, Types, Phases, HostSet
  <2>2. None \notin Cause
    BY CollectionAssumption DEF Cause, Outcome
  <2> QED BY <2>1, <2>2 DEF Fail, Success
<1>3. ASSUME NEW o \in Outcome, Abort(o), o = "connector" => conn.error = "own", o \notin {"accounting", "metadata"}
      PROVE  CollectionInv'
  <2>1. /\ segment' = [segment EXCEPT !.state = "aborted", !.outcome = o] /\ history' = history /\ spent' = spent
    BY <1>3 DEF Abort
  <2> QED BY <1>1, <1>2, <1>3, <2>1, AbortedStep
<1>4. CASE spool.state = "failed" /\ Abort("spool")
  <2>1. "spool" \in Outcome
    BY DEF Outcome
  <2> QED BY <1>3, <1>4, <2>1
<1>5. CASE spool.state # "failed" /\ r.cause # None /\ Abort(r.cause)
  <2>1. r \in Fail /\ r.cause \in Cause /\ r.cause \in Outcome
    BY <1>2, <1>5 DEF Cause, Outcome
  <2>2. r.cause = "connector" => conn.error = "own"
    BY <1>1, <2>1 DEF CollectionInv, Results
  <2>3. r.cause \notin {"accounting", "metadata"}
    BY <2>1 DEF Cause
  <2> QED BY <1>3, <1>5, <2>1, <2>2, <2>3
<1>6. CASE spool.state # "failed" /\ r.cause = None
  <2>1. /\ spool.state = "done" /\ r \in Success /\ mat.state = "succeeded"
        /\ r.rows = mat.rows /\ r.truncated = conn.result.truncated /\ r.candidate = mat.candidate
        /\ r.resume = mat.last /\ (Rising /\ conn.result.truncated => mat.last # None)
    BY <1>1, <1>2, <1>6 DEF CollectionInv, Results
  <2>2. r.rows = spool.rows
    BY <1>1, <2>1, WholeFacts DEF CollectionInv, Types
  <2>3. CASE Rising /\ r.rows = 0
    <3>1. Healthy
      BY <1>1, <2>1 DEF Healthy
    <3>2. mat.last = None /\ mat.candidate = None
      BY <2>1, <2>3, <3>1 DEF CollectionInv, Rises
    <3>3. r.truncated \in BOOLEAN
      BY <2>1 DEF Success
    <3>4. EmptyPageValid(r)
      BY <2>1, <2>3, <3>2, <3>3 DEF EmptyPageValid
    <3>5. Abort("empty")
      BY <1>6, <2>2, <2>3, <3>4 DEF Finalize
    <3>6. "empty" \in Outcome
      BY DEF Outcome
    <3> QED BY <1>3, <3>5, <3>6
  <2>4. CASE ~(Rising /\ r.rows = 0)
    <3>1. Seal(r)
      BY <1>6, <2>2, <2>4 DEF Finalize
    <3>2. CASE /\ segment' = [segment EXCEPT !.state = "ready", !.outcome = "ok",
                                  !.facts = [rows |-> r.rows, truncated |-> r.truncated,
                                             candidate |-> r.candidate, resume |-> r.resume]]
               /\ history' = history \cup {[event |-> segment.events[k], rising |-> Rising,
                                            source |-> <<request.input, request.lineage>>,
                                            of |-> <<spent.attempts, k>>] : k \in DOMAIN segment.events}
               /\ UNCHANGED spent
      BY <1>1, <2>1, <2>4, <3>2, SealedStep
    <3>3. CASE /\ segment' = [segment EXCEPT !.state = "aborted", !.outcome = "spool"]
               /\ Fault /\ UNCHANGED history
      <4>1. "spool" \in Outcome /\ spent' \in SpentSet
        BY <1>2, <3>3, FaultFacts DEF Outcome
      <4> QED BY <1>1, <3>3, <4>1, AbortedStep
    <3> QED BY <3>1, <3>2, <3>3 DEF Seal
  <2> QED BY <2>3, <2>4
<1> QED BY <1>4, <1>5, <1>6 DEF Finalize

(* A stuttering step. *)
LEMMA SameStep ==
  ASSUME CollectionInv, UNCHANGED vars
  PROVE  CollectionInv'
<1>1. /\ request' = request /\ answer' = answer /\ conn' = conn /\ ipc' = ipc /\ mat' = mat /\ lines' = lines
      /\ host' = host /\ spool' = spool /\ cancelled' = cancelled /\ segment' = segment
      /\ history' = history /\ spent' = spent
  BY DEF vars
<1>2. Types'
  BY <1>1 DEF CollectionInv, Types
<1>3. Phases'
  BY <1>1 DEF CollectionInv, Phases, Running, Operating
<1>4. Flow' /\ Rises'
  <2>1. UNCHANGED flow /\ (Healthy' => Healthy)
    BY <1>1 DEF flow, Healthy
  <2> QED BY <2>1, FlowStays DEF CollectionInv
<1>5. Results'
  BY <1>1 DEF CollectionInv, Results, Rising
<1>6. Sealed'
  BY <1>1 DEF CollectionInv, Sealed, CauseIsFirst, Rising
<1>7. Identified'
  BY <1>1 DEF CollectionInv, Identified, EventId, Rising
<1> QED BY <1>2, <1>3, <1>4, <1>5, <1>6, <1>7 DEF CollectionInv

LEMMA CollectionInit == Init => CollectionInv
<1> SUFFICES ASSUME Init PROVE CollectionInv
  OBVIOUS
<1>1. conn \in ConnSet /\ conn.state = "off" /\ conn.error = None
  BY DEF Init, NotStarted, ConnSet, ConnState
<1>2. mat \in MatSet /\ mat.state = "off" /\ mat.envelope = <<>>
  BY DEF Init, NoMaterializer, MatSet, MatState, Position
<1>3. host \in HostSet /\ host.state = "idle" /\ host.result = None
  BY DEF Init, HostSet, HostState
<1>4. spool \in SpoolSet /\ spool.state = "off" /\ spool.rows = 0
  BY DEF Init, SpoolSet, SpoolState
<1>5. segment \in SegmentSet /\ segment.state = "none" /\ segment.events = <<>> /\ segment.outcome = None
  BY DEF Init, SegmentSet, SegmentState
<1>6. spent \in SpentSet /\ ipc \in Seq(EnvelopeSet) /\ lines \in Seq(Row) /\ answer \in Seq(Row)
  BY DEF Init, SpentSet
<1>7. Len(<<>>) = 0
  OBVIOUS
<1>8. Types
  <2>1. /\ request = None /\ ipc = <<>> /\ lines = <<>> /\ cancelled = FALSE
    BY DEF Init
  <2>2. 0 <= IpcCapacity /\ 0 <= RowCapacity
    BY CollectionAssumption
  <2> QED BY <1>1, <1>2, <1>3, <1>4, <1>5, <1>6, <1>7, <2>1, <2>2 DEF Types
<1>9. Phases
  BY <1>1, <1>2, <1>3, <1>4, <1>5 DEF Init, Phases, Running, Operating
<1>10. Flow /\ Rises
  BY <1>5 DEF Flow, Rises, Healthy
<1>11. Results
  <2>1. None \notin {"receiver", "cancelled"}
    BY CollectionAssumption DEF Failure
  <2> QED BY <1>1, <1>3, <2>1, NoResult DEF Results
<1>12. Sealed
  <2>1. None \notin {"connector", "accounting", "metadata"}
    BY CollectionAssumption DEF Outcome
  <2> QED BY <1>5, <2>1 DEF Sealed, CauseIsFirst
<1>13. Identified
  BY <1>5 DEF Init, Identified
<1> QED BY <1>8, <1>9, <1>10, <1>11, <1>12, <1>13 DEF CollectionInv

LEMMA CollectionStep == CollectionInv /\ [Next]_vars => CollectionInv'
<1> SUFFICES ASSUME CollectionInv, [Next]_vars PROVE CollectionInv'
  OBVIOUS
<1>1. CASE Begin
  BY <1>1, BeginStep
<1>2. CASE Connector
  BY <1>2, PreparedStep, ConnectorFailsStep, ConnectorSendsStep, ConnectorFinishesStep DEF Connector
<1>3. CASE Host
  BY <1>3, ReceiveEnvelopeStep, SendRowStep, MaterializerStep, OperationEndsStep, HostReturnsStep, GraceEndsStep
     DEF Host
<1>4. CASE Deadline \/ Cancelled
  BY <1>4, DeadlineStep
<1>5. CASE Worker
  BY <1>5, SpoolRowStep, SpoolEndsStep, FinalizeStep DEF Worker
<1>6. CASE Cancel
  BY <1>6, CancelStep
<1>7. CASE UNCHANGED vars
  BY <1>7, SameStep
<1> QED BY <1>1, <1>2, <1>3, <1>4, <1>5, <1>6, <1>7 DEF Next

LEMMA CollectionAlways == Spec => []CollectionInv
<1>1. Init => CollectionInv
  BY CollectionInit
<1>2. CollectionInv /\ [Next]_vars => CollectionInv'
  BY CollectionStep
<1> QED BY <1>1, <1>2, PTL DEF Spec

-----------------------------------------------------------------------------
(* The properties.                                                         *)

LEMMA InvTypes == CollectionInv => TypeOK
BY DEF CollectionInv, Types, Phases, TypeOK, ConnSet, ConnState, MatSet, MatState, HostSet, HostState, SpoolSet,
       SpoolState, SegmentSet, SegmentState

(* A published segment was sealed by a collection that had come to its end. *)
LEMMA ReadyFacts ==
  ASSUME CollectionInv, segment.state = "ready"
  PROVE  /\ mat.state = "succeeded" /\ conn.state = "succeeded" /\ conn.result.rows = mat.rows
         /\ mat.rows = Len(segment.events) /\ Len(conn.sent) = mat.rows /\ mat.rows <= request.maxRows
         /\ \A k \in 1 .. mat.rows : segment.events[k].row = conn.sent[k]
         /\ segment.events \in Seq(Event) /\ conn.sent \in Seq(Row)
         /\ Rising => mat.rows # 0
<1>1. /\ mat.state = "succeeded" /\ conn.state = "succeeded" /\ conn.result.rows = mat.rows
      /\ Rising => mat.rows # 0
  BY DEF CollectionInv, Sealed
<1>2. spool.state = "off"
  <2>1. spool.state \in SpoolState
    BY DEF CollectionInv, Types, SpoolSet
  <2> QED BY <2>1 DEF CollectionInv, Phases, SpoolState
<1>3. segment.events \in Seq(Event) /\ conn.sent \in Seq(Row)
  BY DEF CollectionInv, Types, SegmentSet, ConnSet
<1> QED BY <1>1, <1>2, <1>3, WholeFacts

LEMMA InvWhole == CollectionInv => SealedIsWhole
<1> SUFFICES ASSUME CollectionInv, segment.state = "ready"
             PROVE  /\ RowsOf(segment.events) = conn.sent
                    /\ conn.state = "succeeded" /\ conn.result.rows = Len(segment.events)
                    /\ Len(segment.events) <= request.maxRows
  BY DEF SealedIsWhole
<1> DEFINE events == segment.events
           sent == conn.sent
           n == mat.rows
<1>1. /\ conn.state = "succeeded" /\ conn.result.rows = n /\ n = Len(events) /\ Len(sent) = n
      /\ n <= request.maxRows /\ \A k \in 1 .. n : events[k].row = sent[k]
      /\ events \in Seq(Event) /\ sent \in Seq(Row)
  BY ReadyFacts
<1> HIDE DEF events, sent, n
<1>2. DOMAIN events = 1 .. n /\ sent = [k \in 1 .. n |-> sent[k]]
  BY <1>1
<1>3. RowsOf(events) = sent
  BY <1>1, <1>2 DEF RowsOf
<1> QED BY <1>1, <1>3 DEF events, sent, n

LEMMA InvPosition == CollectionInv => SealedPosition
<1> SUFFICES ASSUME CollectionInv, segment.state = "ready", Rising
             PROVE  SealedPosition
  BY DEF SealedPosition
<1> DEFINE sent == conn.sent
           n == mat.rows
           rows == RowsOf(segment.events)
<1>1. rows = sent
  BY InvWhole DEF SealedIsWhole
<1>2. n # 0 /\ Len(sent) = n /\ sent \in Seq(Row) /\ mat.state = "succeeded" /\ n = Len(segment.events)
  BY ReadyFacts
<1>3. /\ \A k \in 1 .. n : /\ sent[k] \in Nat
                           /\ request.bound # None => sent[k] > request.bound
                           /\ k > 1 => sent[k] > sent[k - 1]
      /\ mat.last = sent[n] /\ mat.candidate = Greater(request.committed, mat.last)
  <2>1. spool.state = "off"
    <3>1. spool.state \in SpoolState
      BY DEF CollectionInv, Types, SpoolSet
    <3> QED BY <3>1 DEF CollectionInv, Phases, SpoolState
  <2>2. Healthy
    BY <1>2, <2>1 DEF Healthy
  <2> QED BY <1>2, <2>2 DEF CollectionInv, Rises
<1>4. segment.facts.candidate = mat.candidate /\ segment.facts.resume = mat.last
  BY DEF CollectionInv, Sealed
<1> HIDE DEF rows, sent, n
<1>5. rows # <<>> /\ Last(rows) = sent[n] /\ DOMAIN rows = 1 .. n
  BY <1>1, <1>2 DEF Last
<1> QED BY <1>1, <1>3, <1>4, <1>5 DEF SealedPosition, rows

(***************************************************************************)
(* finalize_spooled_collection and collect_json_rows: a published segment  *)
(* holds every row the connector sent and reported, once and in order; a   *)
(* rising page rises strictly from above its bound and says truly where    *)
(* the scan resumes and what it may commit; an error is the connector's    *)
(* only when it was its own; the worker's accounting never disagrees.      *)
(***************************************************************************)
THEOREM PublishedIsSound == Spec => []SealedIsSound
<1>1. CollectionInv => SealedIsSound
  BY InvTypes, InvWhole, InvPosition DEF SealedIsSound, CollectionInv, Sealed
<1> QED BY <1>1, CollectionAlways, PTL

Identity(rising, source, of, row) ==
  IF rising THEN <<"rising", source[1], source[2], row>> ELSE <<"batch", source[1], of[1], of[2]>>

LEMMA IdentityFacts ==
  ASSUME NEW r \in BOOLEAN, NEW s \in Inputs \X Lineages, NEW o \in Nat \X Nat, NEW x,
         NEW r2 \in BOOLEAN, NEW s2 \in Inputs \X Lineages, NEW o2 \in Nat \X Nat, NEW x2
  PROVE  /\ Identity(r, s, o, x) = Identity(r2, s2, o2, x2) =>
              IF r THEN r2 /\ s = s2 /\ x = x2 ELSE o = o2
         /\ r /\ r2 /\ s = s2 /\ x = x2 => Identity(r, s, o, x) = Identity(r2, s2, o2, x2)
<1>1. PICK i \in Inputs, l \in Lineages : s = <<i, l>>
  OBVIOUS
<1>2. PICK i2 \in Inputs, l2 \in Lineages : s2 = <<i2, l2>>
  OBVIOUS
<1>3. PICK m \in Nat, n \in Nat : o = <<m, n>>
  OBVIOUS
<1>4. PICK m2 \in Nat, n2 \in Nat : o2 = <<m2, n2>>
  OBVIOUS
<1>5. /\ Identity(r, s, o, x) = IF r THEN <<"rising", i, l, x>> ELSE <<"batch", i, m, n>>
      /\ Identity(r2, s2, o2, x2) = IF r2 THEN <<"rising", i2, l2, x2>> ELSE <<"batch", i2, m2, n2>>
  BY <1>1, <1>2, <1>3, <1>4 DEF Identity
<1>6. CASE r /\ r2
  <2>1. Identity(r, s, o, x) = <<"rising", i, l, x>> /\ Identity(r2, s2, o2, x2) = <<"rising", i2, l2, x2>>
    BY <1>5, <1>6
  <2>2. <<"rising", i, l, x>> = <<"rising", i2, l2, x2>> <=> i = i2 /\ l = l2 /\ x = x2
    OBVIOUS
  <2>3. s = s2 <=> i = i2 /\ l = l2
    BY <1>1, <1>2
  <2>4. Identity(r, s, o, x) = Identity(r2, s2, o2, x2) <=> s = s2 /\ x = x2
    BY ONLY <2>1, <2>2, <2>3
  <2> QED BY ONLY <1>6, <2>4
<1>7. CASE ~r /\ ~r2
  BY <1>3, <1>4, <1>5, <1>7
<1>8. CASE r /\ ~r2
  BY <1>5, <1>8
<1>9. CASE ~r /\ r2
  BY <1>5, <1>9
<1> QED BY <1>6, <1>7, <1>8, <1>9

(***************************************************************************)
(* deterministic_rising_event_id, deterministic_event_id: two events of    *)
(* published segments have one identity exactly when they are the same     *)
(* row of the same lineage, or the same place of the same batch.           *)
(***************************************************************************)
THEOREM EventsKeepTheirIdentity == Spec => []EventIdentity
<1>1. CollectionInv => EventIdentity
  <2> SUFFICES ASSUME CollectionInv, NEW a \in history, NEW b \in history
               PROVE  /\ a.event.id = b.event.id =>
                           IF a.rising THEN b.rising /\ a.source = b.source /\ a.event.row = b.event.row
                           ELSE a.of = b.of
                      /\ a.rising /\ b.rising /\ a.source = b.source /\ a.event.row = b.event.row
                           => a.event.id = b.event.id
    BY DEF EventIdentity
  <2>1. \A h \in history :
          /\ h.rising \in BOOLEAN /\ h.source \in Inputs \X Lineages /\ h.of \in Nat \X Nat
          /\ h.event.id = IF h.rising THEN <<"rising", h.source[1], h.source[2], h.event.row>>
                          ELSE <<"batch", h.source[1], h.of[1], h.of[2]>>
    BY DEF CollectionInv, Identified
  <2>2. /\ a.rising \in BOOLEAN /\ a.source \in Inputs \X Lineages /\ a.of \in Nat \X Nat
        /\ b.rising \in BOOLEAN /\ b.source \in Inputs \X Lineages /\ b.of \in Nat \X Nat
        /\ a.event.id = Identity(a.rising, a.source, a.of, a.event.row)
        /\ b.event.id = Identity(b.rising, b.source, b.of, b.event.row)
    BY <2>1 DEF Identity
  <2> QED BY <2>2, IdentityFacts
<1> QED BY <1>1, CollectionAlways, PTL

=============================================================================
