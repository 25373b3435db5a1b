------------------------------ MODULE ScanState -----------------------------
(***************************************************************************)
(* The durable state of one rising input and the rules under which the     *)
(* state store accepts a replacement of it: crates/dbx-rs-state/src/       *)
(* model.rs (what a valid state is) and store.rs (which change is an       *)
(* ordinary transition).                                                   *)
(*                                                                         *)
(* Simplifications: the input, source-lineage and cursor identities never  *)
(* change through this API and are left out; a configuration fence, the    *)
(* hash of fingerprint and generation, is the pair itself; a segment       *)
(* reference's digest is implied by its identity.  u64 counters of pages,  *)
(* sequences and rows are naturals: each grows by one page's worth per     *)
(* durable write, so none reaches 2^64; the checkpoint generation and the  *)
(* number of retained segments keep their limits.                          *)
(***************************************************************************)
EXTENDS Coordinator, SequencesExt

CONSTANTS
  Fingerprint,   \* configuration revisions
  SegmentId,     \* segment identities
  MaxSegments    \* MAX_SEGMENTS_PER_SCAN, scaled down

\* configuration_fence_id
ConfigurationFence(fingerprint, generation) == <<fingerprint, generation>>

\* SegmentReference, ActiveScan, DurableInputState
Reference == [id: SegmentId, sequence: Nat, page: Nat, rows: Nat]
Scan == [attempt: AttemptId, base: OptCursor, resume: OptCursor, maximum: OptCursor,
         compacted: Nat, compactedRows: Nat, nextPage: Nat, complete: BOOLEAN,
         segments: Seq(Reference), delivered: Nat]
InputState == [fingerprint: Fingerprint, configGeneration: Nat, coordinator: Snapshot,
               scan: Scan \cup {None}]

ASSUME ScanNoneAssumption == None \notin Scan /\ None \notin InputState

RowsOf(segments) == SumFunction([i \in DOMAIN segments |-> segments[i].rows])

\* sealed_rows, segment_count
SealedRows(scan) == scan.compactedRows + RowsOf(scan.segments)
SegmentCount(scan) == scan.compacted + Len(scan.segments)

-----------------------------------------------------------------------------
(* Validity.                                                               *)

ValidReceipts(scan) ==
  /\ Len(scan.segments) <= MaxSegments
  /\ scan.compacted <= scan.delivered
  /\ scan.delivered <= SegmentCount(scan)
  /\ scan.compacted = 0 <=> scan.compactedRows = 0

ValidScanCursors(scan) ==
  /\ IF SegmentCount(scan) = 0
     THEN scan.nextPage = 1 /\ scan.resume = NoCursor /\ scan.maximum = NoCursor
     ELSE scan.resume # NoCursor
  /\ scan.maximum # NoCursor => scan.maximum >= scan.resume /\ scan.maximum >= scan.base
  /\ SealedRows(scan) > 0 => scan.maximum # NoCursor

\* References are numbered consecutively after the compacted prefix.
ValidReferences(scan) ==
  /\ \A i \in DOMAIN scan.segments :
       LET ref == scan.segments[i] IN
       ref.sequence = scan.compacted + i /\ ref.page = ref.sequence /\ ref.rows > 0
  /\ IsInjective([i \in DOMAIN scan.segments |-> scan.segments[i].id])
  /\ scan.nextPage = SegmentCount(scan) + 1

\* Scan completion and delivery agree with what the coordinator has recorded.
ValidProgress(scan, active) ==
  /\ IF active.collection.state = "Completed"
     THEN /\ scan.complete
          /\ active.collection.rows = SealedRows(scan)
          /\ active.collection.candidate = scan.maximum
     ELSE ~scan.complete
  /\ active.delivery.state = "Confirmed" =>
       /\ scan.complete
       /\ scan.delivered = SegmentCount(scan)
       /\ active.delivery.rows = SealedRows(scan)

\* ActiveScan::validate
ValidScan(scan, s) ==
  /\ s.active # None
  /\ s.active.fence.attempt = scan.attempt
  /\ scan.base = s.committed
  /\ ValidReceipts(scan)
  /\ ValidScanCursors(scan)
  /\ ValidReferences(scan)
  /\ ValidProgress(scan, s.active)

\* DurableInputState::validate
ValidState(st) ==
  /\ st.configGeneration # 0
  /\ Validate(st.coordinator)
  /\ st.coordinator.config = ConfigurationFence(st.fingerprint, st.configGeneration)
  /\ IF st.scan = None THEN st.coordinator.active = None
                       ELSE ValidScan(st.scan, st.coordinator)

-----------------------------------------------------------------------------
(* Ordinary transitions.                                                   *)

\* snapshot_after
Yields(reply, next) == reply.outcome # "Error" /\ reply.snap = next

StartsAttempt(c, n) == n.active # None /\ Yields(StartAttempt(c, n.active.fence), n)

CompletesCollection(c, n) ==
  /\ n.active # None
  /\ n.active.collection.state = "Completed"
  /\ Yields(CollectionCompleted(c, n.active.fence, n.active.collection.rows,
                                n.active.collection.candidate), n)

FailsCollection(c, n) ==
  /\ n.active # None
  /\ n.active.collection.state = "Failed"
  /\ Yields(CollectionFailed(c, n.active.fence), n)

ChangesDelivery(c, n) ==
  /\ n.active # None
  /\ \/ /\ n.active.delivery.state = "Confirmed"
        /\ Yields(DeliveryConfirmed(c, n.active.fence, n.active.delivery.rows), n)
     \/ /\ n.active.delivery.state \in {"Failed", "Uncertain"}
        /\ Yields(DeliveryTerminal(c, n.active.fence, n.active.delivery.state), n)

Commits(c, n) == c.active # None /\ Yields(Commit(c, c.active.fence), n)

FullReceipt(scan) == scan.complete /\ scan.delivered = SegmentCount(scan)

\* validate_initial_scan
InitialScan(scan) ==
  /\ scan.nextPage = 1 /\ ~scan.complete /\ scan.segments = <<>>
  /\ scan.resume = NoCursor /\ scan.maximum = NoCursor
  /\ scan.compacted = 0 /\ scan.compactedRows = 0 /\ scan.delivered = 0

\* validate_scan_append: at most one page more, and never another kind of progress with it.
\* cursor_strictly_advances and cursor_regresses are > and >=: NoCursor is below every position.
ScanAppend(cur, next, completes) ==
  /\ ~cur.complete
  /\ next.complete = completes
  /\ next = [cur EXCEPT !.complete = completes, !.segments = next.segments,
                        !.nextPage = next.nextPage, !.resume = next.resume,
                        !.maximum = next.maximum]
  /\ IsPrefix(cur.segments, next.segments)
  /\ \/ /\ next.segments = cur.segments
        /\ completes
        /\ next = [cur EXCEPT !.complete = TRUE]
     \/ /\ Len(next.segments) = Len(cur.segments) + 1
        /\ next.nextPage = cur.nextPage + 1
        /\ next.resume > cur.resume
        /\ next.maximum >= cur.maximum

\* validate_delivery_receipt_advance
ReceiptAdvance(cur, next) ==
  /\ cur.delivered + 1 <= SegmentCount(cur)
  /\ next = [cur EXCEPT !.delivered = @ + 1]

\* validate_scan_compaction
ScanCompaction(cur, next) ==
  LET removed == next.compacted - cur.compacted IN
  /\ next.compacted > cur.compacted
  /\ next.compacted <= cur.delivered
  /\ removed <= Len(cur.segments)
  /\ next = [cur EXCEPT !.compacted = next.compacted,
                        !.compactedRows = @ + RowsOf(SubSeq(cur.segments, 1, removed)),
                        !.segments = SubSeq(@, removed + 1, Len(@))]

\* The coordinator is unchanged: a receipt, a compaction or an incomplete page, one at a time.
ScanProgress(cur, next) ==
  /\ cur.scan # None /\ next.scan # None
  /\ IF cur.scan.delivered # next.scan.delivered THEN ReceiptAdvance(cur.scan, next.scan)
     ELSE IF \/ cur.scan.compacted # next.scan.compacted
             \/ cur.scan.compactedRows # next.scan.compactedRows
          THEN ScanCompaction(cur.scan, next.scan)
     ELSE /\ cur.coordinator.active.collection.state = "InProgress"
          /\ ScanAppend(cur.scan, next.scan, FALSE)

\* validate_transition with classify_checkpoint_transition and validate_scan_transition
ValidTransition(cur, next) ==
  LET c == cur.coordinator
      n == next.coordinator IN
  /\ next.fingerprint = cur.fingerprint
  /\ next.configGeneration = cur.configGeneration
  /\ IF c = n THEN ScanProgress(cur, next)
     ELSE \/ StartsAttempt(c, n) /\ cur.scan = None /\ next.scan # None /\ InitialScan(next.scan)
          \/ /\ CompletesCollection(c, n)
             /\ cur.scan # None /\ next.scan # None
             /\ ScanAppend(cur.scan, next.scan, TRUE)
          \/ FailsCollection(c, n) /\ cur.scan # None /\ next.scan = cur.scan
          \/ /\ ChangesDelivery(c, n)
             /\ cur.scan # None /\ next.scan = cur.scan
             /\ n.active.delivery.state = "Confirmed" => FullReceipt(next.scan)
          \/ Commits(c, n) /\ cur.scan # None /\ next.scan = None /\ FullReceipt(cur.scan)

\* The checks of FileCheckpointStore::compare_exchange beyond the token.
Accepts(cur, next) == ValidState(next) /\ ValidTransition(cur, next)

-----------------------------------------------------------------------------
(* Configuration activation, the one change of fence.                      *)

Activatable(st, fingerprint) ==
  st.fingerprint # fingerprint /\ st.scan = None /\ st.coordinator.active = None

\* The state FileCheckpointStore::activate_configuration writes.
Activated(st, fingerprint) ==
  LET generation == st.configGeneration + 1 IN
  [fingerprint |-> fingerprint, configGeneration |-> generation,
   coordinator |-> NewSnapshot(ConfigurationFence(fingerprint, generation),
                               st.coordinator.generation, st.coordinator.committed),
   scan |-> None]

=============================================================================
