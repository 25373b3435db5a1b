------------------------------ MODULE Delivery ------------------------------
(***************************************************************************)
(* Sealed segments on their way to Splunk: the drain of                    *)
(* crates/dbx-rs-daemon/src/worker.rs over the HTTP Event Collector client *)
(* of hec.rs.  One delivery runs at a time: the daemon's loop reconciles   *)
(* the rising inputs and then drains the batch segments.  Splunk loses     *)
(* requests and responses, indexes late, and forgets what it had not       *)
(* indexed, and its acknowledgment numbers, when it restarts.              *)
(*                                                                         *)
(* Simplifications: an event is its place in its segment and its encoded   *)
(* length; the revision fingerprint, which covers every setting of the     *)
(* [hec] stanza (prepared.rs, revision_fingerprint), is a model value that *)
(* fixes the limits and the acknowledgment mode; the HEC token and CA are  *)
(* files that prepare_hec reads at each start and reload, which no         *)
(* fingerprint covers, and are left out; what a rising input does with a   *)
(* delivered segment is RisingScan's; segments are read undamaged.         *)
(***************************************************************************)
EXTENDS Naturals, Sequences, FiniteSets

CONSTANTS
  Segment,        \* segments, totally ordered by SortKey
  InputKey,       \* inputs
  Revision,       \* configurations
  Initial,        \* the configuration at the start
  SortKey(_),     \* the order of list_ready
  MaxEvents(_), MaxBytes(_), MaxEventBytes(_), \* the limits of a revision
  UseAck(_),      \* whether a revision asks for indexer acknowledgment
  HecEnabled(_),  \* whether a revision enables HEC output
  EventLists,     \* bound: the event lengths of a segment
  MaxFaults,      \* bound: lost messages, late acknowledgments, restarts
  MaxEdits,       \* bound: configuration edits
  None            \* no file, no segment

Kind == {"batch", "rising"}
Life == {"ready", "delivered", "compacted"}

SegmentFile == [input: InputKey, fingerprint: [kind: Kind, revision: Revision],
                events: EventLists, life: Life]

ASSUME DeliveryAssumption ==
  /\ Initial \in Revision
  /\ \A r \in Revision : /\ MaxEvents(r) \in Nat \ {0} /\ UseAck(r) \in BOOLEAN /\ HecEnabled(r) \in BOOLEAN
                         /\ MaxEventBytes(r) \in Nat \ {0} /\ MaxBytes(r) \in Nat
                         /\ MaxEventBytes(r) <= MaxBytes(r)
  /\ \A s, t \in Segment : SortKey(s) \in Nat /\ (SortKey(s) = SortKey(t) => s = t)
  /\ EventLists \subseteq Seq(Nat)
  /\ None \notin Nat /\ None \notin Kind /\ None \notin SegmentFile

VARIABLES
  file,       \* per segment: its contents and life, or None
  config,     \* the active configuration: its revision and the kind of each input, or None
  pc,         \* where the delivery is
  queue,      \* the segments left to deliver, the current one first
  next,       \* the next event the reader yields
  batch,      \* the events in the request being built or sent
  delivered,  \* delivered_rows
  ack,        \* the acknowledgment waited for, or None
  cancelled,  \* the cancellation token
  splunk,     \* the receiver: next ack number, requests accepted and not indexed, acks
  indexed,    \* events that can be searched
  wire,       \* ghost: the events this delivery of the segment has sent, in order
  budget      \* faults and edits so far

delivery == <<queue, next, batch, delivered, ack, wire>>
vars == <<file, config, pc, delivery, cancelled, splunk, indexed, budget>>

EmptyChannel == [next |-> 0, pending |-> {}, acked |-> {}]

\* A new client has a new request channel: what was accepted on the old one can still be indexed.
NewChannel ==
  [next |-> 0, pending |-> {[ack |-> None, events |-> p.events] : p \in splunk.pending}, acked |-> {}]

Init ==
  /\ file = [s \in Segment |-> None]
  /\ config \in [revision: {Initial}, kind: [InputKey -> Kind]]
  /\ pc = "idle" /\ queue = <<>> /\ next = 1 /\ batch = <<>> /\ delivered = 0
  /\ ack = None /\ wire = <<>> /\ cancelled = FALSE
  /\ splunk = EmptyChannel /\ indexed = {}
  /\ budget = [faults |-> 0, edits |-> 0]

\* The locals of a delivery at its start, and when it returns
Fresh == next' = 1 /\ batch' = <<>> /\ delivered' = 0 /\ ack' = None /\ wire' = <<>>

Current == Head(queue)
Events(s) == file[s].events
Present(life) == {s \in Segment : file[s] # None /\ file[s].life = life}
Has(kind) == {i \in InputKey : config.kind[i] = kind}
Fault == budget.faults < MaxFaults /\ budget' = [budget EXCEPT !.faults = @ + 1]

\* The length of a request body with these events of a segment: they, and a newline between each
\* two.
BodyBytes(lengths, events) ==
  LET upTo[n \in 0 .. Len(events)] ==
        IF n = 0 THEN 0
        ELSE upTo[n - 1] + (IF n = 1 THEN 0 ELSE 1) + lengths[events[n]]
  IN upTo[Len(events)]

-----------------------------------------------------------------------------
(* The rest of the daemon: a worker seals a segment, whose events           *)
(* encode_event has admitted; the configuration is edited and reloaded      *)
(* between deliveries.                                                      *)

\* encode_event: no event of the segment is longer than max_event_bytes.
Encodable(events) == \A k \in DOMAIN events : events[k] <= MaxEventBytes(config.revision)

\* The active revision fingerprint of an input; a rising one is derived from the cursor too.
Fingerprint(i) == [kind |-> config.kind[i], revision |-> config.revision]
RevisionOf(s) == file[s].fingerprint.revision
KindOf(s) == file[s].fingerprint.kind

Seal(s) ==
  /\ pc = "idle" /\ file[s] = None /\ ~cancelled
  /\ \A t \in Segment : SortKey(t) < SortKey(s) => file[t] # None
  /\ \E i \in InputKey, events \in EventLists :
       /\ config.kind[i] # None /\ Encodable(events)
       /\ file' = [file EXCEPT ![s] =
                     [input |-> i, fingerprint |-> Fingerprint(i),
                      events |-> events, life |-> "ready"]]
  /\ UNCHANGED <<config, pc, delivery, cancelled, splunk, indexed, budget>>

\* A reload builds a new client, hence a new request channel.
EditConfiguration ==
  /\ pc = "idle" /\ budget.edits < MaxEdits
  /\ config' \in [revision: Revision, kind: [InputKey -> Kind \cup {None}]]
  /\ budget' = [budget EXCEPT !.edits = @ + 1]
  /\ splunk' = NewChannel
  /\ UNCHANGED <<file, pc, delivery, cancelled, indexed>>

-----------------------------------------------------------------------------
(* The drain: what may be delivered.                                       *)

\* Mutant: only the input is looked up.
AdmittedByInput(s) == config.kind[file[s].input] # None

\* validate_replay_header
Admitted(s) ==
  LET i == file[s].input IN
    \/ config.kind[i] = "batch" /\ file[s].fingerprint = Fingerprint(i)
    \/ config.kind[i] = "rising"

\* Segments in the order of list_ready.
Ordered(segments) ==
  CHOOSE q \in [1 .. Cardinality(segments) -> segments] :
    \A j, k \in DOMAIN q : j < k => SortKey(q[j]) < SortKey(q[k])

\* A delivered segment that carries recovery metadata stops the drain unless its input is rising.
Stray(s) == KindOf(s) = "rising" /\ config.kind[file[s].input] # "rising"
Leftover == {s \in Present("delivered") : config.kind[file[s].input] # "rising"}

\* What drain_ready_segments_sync goes on to deliver
Selected == {s \in Present("ready") : config.kind[file[s].input] = "batch"}

Refuse == pc' = "idle" /\ UNCHANGED <<file, delivery>>

\* The leftovers that the drain compacts before it reaches a stray one
Compactable == {s \in Leftover : \A t \in Leftover : Stray(t) => SortKey(s) < SortKey(t)}

\* drain_ready_segments_sync: inventory and fences, compaction of what an earlier
\* drain delivered, and the choice of what to deliver now
BeginDrain ==
  /\ pc = "idle" /\ ~cancelled
  /\ \/ /\ \E s \in Present("ready") : ~Admitted(s)
        /\ Refuse
     \/ /\ \A s \in Present("ready") : Admitted(s)
        /\ Compactable # {} \/ Selected # {}
        /\ file' = [s \in Segment |->
                      IF s \in Compactable THEN [file[s] EXCEPT !.life = "compacted"] ELSE file[s]]
        /\ IF (\E s \in Leftover : Stray(s)) \/ Selected = {} \/ ~HecEnabled(config.revision)
           THEN UNCHANGED <<pc, delivery>>
           ELSE /\ pc' = "reading" /\ queue' = Ordered(Selected)
                /\ Fresh
  /\ UNCHANGED <<config, cancelled, splunk, indexed, budget>>

\* reconcile_rising_backlog, deliver_rising_segment: the segment of a rising input at
\* its own revision
BeginRising(s) ==
  /\ pc = "idle" /\ ~cancelled /\ s \in Present("ready")
  /\ config.kind[file[s].input] = "rising" /\ file[s].fingerprint = Fingerprint(file[s].input)
  /\ HecEnabled(config.revision)
  /\ pc' = "reading" /\ queue' = <<s>> /\ Fresh
  /\ UNCHANGED <<file, config, cancelled, splunk, indexed, budget>>

-----------------------------------------------------------------------------
(* deliver_ready_segment_sync.                                             *)

AbortDelivery == pc' = "idle" /\ queue' = <<>> /\ Fresh

\* ensure_delivery_active fails between two steps of the loop.
StopCancelled ==
  /\ pc \in {"reading", "flush", "sent", "mark"} /\ cancelled
  /\ AbortDelivery
  /\ UNCHANGED <<file, config, cancelled, splunk, indexed, budget>>

\* The next event does not fit the request being built.
Overflows ==
  \/ Len(batch) = MaxEvents(config.revision)
  \/ BodyBytes(Events(Current), Append(batch, next)) > MaxBytes(config.revision)

\* Ends the delivery with an error.
TooLong == next <= Len(Events(Current)) /\ Events(Current)[next] > MaxBytes(config.revision)

\* The reader yields an event; it joins the request, or waits until the request is sent.
ReadEvent ==
  /\ pc = "reading" /\ ~cancelled /\ next <= Len(Events(Current)) /\ ~TooLong
  /\ IF Overflows
     THEN pc' = "flush" /\ UNCHANGED <<next, batch>>
     ELSE batch' = Append(batch, next) /\ next' = next + 1 /\ UNCHANGED pc
  /\ UNCHANGED <<file, config, queue, delivered, ack, wire, cancelled, splunk, indexed, budget>>

\* Mutant: the last, partly filled request is not sent.
LastEventDropsBatch ==
  /\ pc = "reading" /\ ~cancelled /\ next > Len(Events(Current))
  /\ pc' = "mark" /\ delivered' = Len(Events(Current))
  /\ UNCHANGED <<file, config, queue, next, batch, ack, wire, cancelled, splunk, indexed, budget>>

\* The reader is at its end: the last request, if any, is sent.
LastEvent ==
  /\ pc = "reading" /\ ~cancelled /\ next > Len(Events(Current))
  /\ pc' = IF batch = <<>> THEN "mark" ELSE "flush"
  /\ UNCHANGED <<file, config, delivery, cancelled, splunk, indexed, budget>>

Payload == {<<Current, batch[k]>> : k \in DOMAIN batch}

\* Splunk takes the request.
Received ==
  [next |-> splunk.next + 1, acked |-> splunk.acked,
   pending |-> splunk.pending \cup {[ack |-> splunk.next, events |-> Payload]}]

\* send_once, when Splunk takes the request and its answer arrives with code 0
Accepted ==
  /\ splunk' = Received
  /\ IF UseAck(config.revision)
     THEN pc' = "acking" /\ ack' = splunk.next
     ELSE pc' = "sent" /\ ack' = None
  /\ wire' = wire \o batch
  /\ UNCHANGED <<budget, queue, next, batch, delivered>>

\* The request is lost or rejected, or the answer to an accepted one is lost or unreadable.
Unanswered ==
  /\ Fault
  /\ UNCHANGED splunk \/ splunk' = Received
  /\ AbortDelivery

\* send_batch, send_once
SendBatch ==
  /\ pc = "flush" /\ ~cancelled
  /\ Accepted \/ Unanswered
  /\ UNCHANGED <<file, config, cancelled, indexed>>

\* Mutant: an answer to the poll is taken for the acknowledgment.
PollAnyAck ==
  /\ pc = "acking"
  /\ pc' = "sent" /\ ack' = None
  /\ UNCHANGED <<file, config, queue, next, batch, delivered, wire, cancelled, splunk, indexed, budget>>

\* wait_for_ack: a poll that finds the acknowledgment
PollAck ==
  /\ pc = "acking" /\ ack \in splunk.acked
  /\ pc' = "sent" /\ ack' = None
  /\ UNCHANGED <<file, config, queue, next, batch, delivered, wire, cancelled, splunk, indexed, budget>>

\* Mutant: the poll has no deadline.
AckNeverTimesOut == FALSE

\* The deadline passes, or a poll fails.  It passes without a fault only when the
\* acknowledgment can no longer come.
AckTimeout ==
  /\ pc = "acking" /\ ack \notin splunk.acked
  /\ \/ Fault
     \/ UNCHANGED budget /\ \A p \in splunk.pending : p.ack # ack
  /\ AbortDelivery
  /\ UNCHANGED <<file, config, cancelled, splunk, indexed>>

\* The request was answered: its rows are counted and the next one is begun.
CountSent ==
  /\ pc = "sent" /\ ~cancelled
  /\ delivered' = delivered + Len(batch) /\ batch' = <<>> /\ pc' = "reading"
  /\ UNCHANGED <<file, config, queue, next, ack, wire, cancelled, splunk, indexed, budget>>

\* Every row is accounted for: mark_delivered, then compact_delivered, unless a rising
\* input still needs its segment; the drain goes on to the next one.
MarkDelivered ==
  /\ pc = "mark" /\ ~cancelled /\ delivered = Len(Events(Current))
  /\ \E life \in (IF KindOf(Current) = "batch" THEN {"delivered", "compacted"} ELSE {"delivered"}) :
       /\ file' = [file EXCEPT ![Current].life = life]
       /\ IF life = "delivered" \/ Len(queue) = 1
          THEN pc' = "idle" /\ queue' = <<>>
          ELSE pc' = "reading" /\ queue' = Tail(queue)
  /\ Fresh
  /\ UNCHANGED <<config, cancelled, splunk, indexed, budget>>

-----------------------------------------------------------------------------
(* Splunk, and the end of the process.                                     *)

Index ==
  /\ \E p \in splunk.pending :
       /\ splunk' = [next |-> splunk.next, pending |-> splunk.pending \ {p},
                     acked |-> splunk.acked \cup ({p.ack} \ {None})]
       /\ indexed' = indexed \cup p.events
  /\ UNCHANGED <<file, config, pc, delivery, cancelled, budget>>

\* What was accepted and not indexed is lost; acknowledgment numbers start again.
SplunkRestart ==
  /\ Fault /\ splunk' = EmptyChannel
  /\ UNCHANGED <<file, config, pc, delivery, cancelled, indexed>>

Cancel ==
  /\ pc # "idle" /\ ~cancelled /\ cancelled' = TRUE /\ Fault
  /\ UNCHANGED <<file, config, pc, delivery, splunk, indexed>>

\* The process ends, by a crash or after a cancellation, and starts again with a new client.
Restart ==
  /\ cancelled \/ pc # "idle"
  /\ IF cancelled /\ pc = "idle" THEN UNCHANGED budget ELSE Fault
  /\ AbortDelivery /\ cancelled' = FALSE
  /\ splunk' = NewChannel
  /\ UNCHANGED <<file, config, indexed>>

Deliver ==
  \/ BeginDrain \/ \E s \in Segment : BeginRising(s)
  \/ StopCancelled \/ ReadEvent \/ LastEvent \/ SendBatch
  \/ PollAck \/ AckTimeout \/ CountSent \/ MarkDelivered
Next ==
  \/ Deliver \/ \E s \in Segment : Seal(s)
  \/ EditConfiguration \/ Index \/ SplunkRestart \/ Cancel \/ Restart

\* The daemon's loop keeps draining and the delivery runs on a thread of its own;
\* Splunk goes on indexing; a cancelled daemon is started again.
Fairness == WF_vars(Deliver) /\ WF_vars(Index) /\ WF_vars(Restart /\ cancelled /\ pc = "idle")
Spec == Init /\ [][Next]_vars /\ Fairness
-----------------------------------------------------------------------------
(* Properties.                                                             *)

TypeOK ==
  /\ \A s \in Segment : file[s] # None =>
       /\ file[s].input \in InputKey /\ file[s].events \in EventLists /\ file[s].life \in Life
       /\ RevisionOf(s) \in Revision /\ KindOf(s) \in Kind
  /\ config \in [revision: Revision, kind: [InputKey -> Kind \cup {None}]]
  /\ pc \in {"idle", "reading", "flush", "acking", "sent", "mark"}
  /\ (pc = "idle") = (queue = <<>>) /\ (pc = "acking") = (ack # None)
  /\ cancelled \in BOOLEAN

\* mark_delivered is reached only when every event of the segment is searchable: with
\* indexer acknowledgment no lost request, lost answer, late or reused acknowledgment
\* number, cancellation or restart makes the daemon drop rows Splunk does not have.
DeliveredIsIndexed ==
  \A s \in Present("delivered") \cup Present("compacted") :
    UseAck(RevisionOf(s)) => \A k \in DOMAIN Events(s) : <<s, k>> \in indexed

\* send_batch never refuses a request of the worker: none is empty, none has more events
\* or more bytes, separators included, than the configuration allows.
RequestFits ==
  pc = "flush" => /\ batch # <<>> /\ Len(batch) <= MaxEvents(config.revision)
                  /\ BodyBytes(Events(Current), batch) <= MaxBytes(config.revision)

\* A delivery sends each event once, in the order of the segment, and has sent them all
\* when it marks the segment.
SentOnceInOrder ==
  /\ \A k \in DOMAIN wire : wire[k] = k
  /\ pc = "mark" => Len(wire) = Len(Events(Current))

\* The two errors the worker has for its own books are unreachable: the rows it counted
\* are the rows of the segment, and no event is longer than a request, because a segment
\* collected under other limits has another fingerprint and is not read at all.
BooksBalance ==
  /\ pc = "mark" => delivered = Len(Events(Current))
  /\ pc = "reading" => ~TooLong

\* What one delivery puts on the wire.
SendingIsSound == TypeOK /\ RequestFits /\ SentOnceInOrder /\ BooksBalance

\* A segment is sent only under the configuration it was collected with: one that a crash
\* or an edit left behind is neither sent with another index, source type or HEC stanza nor
\* removed, whatever is configured meanwhile.  The token is not part of what a segment is
\* fenced to: it is a file, and one that was replaced is used for what is left.
SentUnderOwnRevision ==
  [][/\ pc = "flush" => file[Current].fingerprint = Fingerprint(file[Current].input)
     /\ \A s \in Present("ready") : file'[s] # file[s] =>
          file[s].fingerprint = Fingerprint(file[s].input)]_vars

Settled ==
  /\ \A s \in Present("ready") : file[s].fingerprint = Fingerprint(file[s].input)
  /\ \A s \in Leftover : ~Stray(s)
  /\ HecEnabled(config.revision)

\* Every delivery ends, a lost answer, a missing acknowledgment and a cancellation included,
\* and a ready segment whose configuration is in force, or is restored, reaches Splunk.
ReadyIsDelivered ==
  /\ pc # "idle" ~> pc = "idle"
  /\ <>[]Settled => <>[](Present("ready") = {})
=============================================================================
