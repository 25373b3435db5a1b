----------------------------- MODULE RisingScan -----------------------------
(***************************************************************************)
(* One rising input, end to end: the orchestration of                      *)
(* crates/dbx-rs-daemon/src/rising.rs over the durable state (ScanState),  *)
(* the spool's segment files, the worker that collects a page (worker.rs)  *)
(* and the loop of runtime.rs that reconciles before it collects.          *)
(*                                                                         *)
(* A step is one durable write (a state replacement, a file rename or      *)
(* removal) or one external exchange (a query, an accepted HEC request),   *)
(* so a crash between two steps is a crash between two durable effects.    *)
(* One daemon runs at a time (InstanceGuard) and its loop never reconciles *)
(* while a worker runs, so its control is one program counter.  The plan   *)
(* reconcile derives from the inventory is recomputed at each step: no one *)
(* else moves the input's files in between.                                *)
(*                                                                         *)
(* A fault is a crash, an I/O error before or after a write took effect, a *)
(* failed or cancelled query, or an HEC exchange that failed or whose      *)
(* acknowledgment was lost; each makes the operation return early.         *)
(***************************************************************************)
EXTENDS ScanState, FiniteSets

CONSTANTS
  Row,         \* positions of source rows
  PageSize,    \* max_rows of a page
  BatchEvents, \* max_events of one HEC request
  Overlap,     \* the cursor overlap, in positions
  MaxFaults,   \* bound: faults
  MaxEdits,    \* bound: configuration edits
  MaxInserts,  \* bound: rows the source ever holds
  MaxScans     \* bound: scans started

\* A segment file of the input, with the recovery metadata the inventory reads.
Segment ==
  [id: SegmentId, life: {"open", "ready", "delivered"}, fingerprint: Fingerprint,
   configGeneration: Nat, attempt: AttemptId, generation: Generation, page: Nat,
   rows: SUBSET Row, truncated: BOOLEAN, request: OptCursor \X OptCursor,
   candidate: OptCursor, resume: OptCursor]

ASSUME SizeAssumption ==
  /\ PageSize \in Nat /\ BatchEvents \in Nat /\ Overlap \in Nat
  /\ MaxSegments \in Nat \ {0} /\ SegmentId # {}
ASSUME BoundAssumption ==
  /\ MaxFaults \in Nat /\ MaxEdits \in Nat /\ MaxInserts \in Nat
  /\ MaxScans \in 0 .. MaxGeneration
ASSUME ValueAssumption ==
  /\ 1 .. MaxInserts \subseteq Row /\ Row \subseteq Position /\ 0 .. MaxInserts \subseteq RowCount
  /\ Fingerprint \X (1 .. (MaxEdits + 1)) \subseteq ConfigurationId
ASSUME SegmentNoneAssumption == None \notin Segment /\ \A rows \in SUBSET Row : rows # None

VARIABLES
  state,       \* the current envelope's value, or None before the input is created
  files,       \* the input's .open, .ready and .delivered segments
  quarantined, \* whether quarantine holds a segment of this input
  daemon,      \* volatile: program counter, loaded revision, page in flight, unsent rows
  configured,  \* the revision in the configuration files
  source, inserted, \* the rows present, and the highest ever inserted
  indexed,     \* the rows Splunk accepted at least once
  refused,     \* whether the store ever refused a proposed transition
  receipts,    \* <<checkpoint generation, row>> of every row whose page was receipted
  faults, edits

durable == <<state, files, quarantined>>
world == <<configured, source, inserted, indexed, edits>>
ghosts == <<refused, receipts>>
vars == <<durable, daemon, world, ghosts, faults>>

CurrentFence == [attempt    |-> state.coordinator.active.fence.attempt,
                 config     |-> state.coordinator.config,
                 generation |-> state.coordinator.generation]
Committed == IF state = None THEN NoCursor ELSE state.coordinator.committed

NoScan == IF state = None THEN TRUE ELSE state.scan = None

Listed == {f \in files : f.life # "open"}

\* input_spool_is_nonempty: stored and reserved bytes, quarantined bytes included.
SpoolNonempty == quarantined \/ files # {}

-----------------------------------------------------------------------------
(* The inventory: which files a durable state accounts for.                *)

\* validate_common_segment
InFence(f, st) ==
  /\ st.coordinator.active # None
  /\ f.fingerprint = st.fingerprint
  /\ f.configGeneration = st.configGeneration
  /\ f.attempt = st.coordinator.active.fence.attempt
  /\ f.generation = st.coordinator.generation
  /\ f.page # 0
  /\ f.rows # {}

\* validate_reference
MatchesReference(f, ref, scan) ==
  /\ f.page = ref.page /\ f.id = ref.id /\ Cardinality(f.rows) = ref.rows
  /\ (ref.sequence < SegmentCount(scan) \/ ~scan.complete) => f.truncated

Referenced(scan) == {scan.segments[i].id : i \in DOMAIN scan.segments}
Orphans(scan) == {f \in Listed : f.id \notin Referenced(scan)}

\* adoptable_orphan
Adoptable(scan) ==
  /\ Cardinality(Orphans(scan)) <= 1
  /\ \A f \in Orphans(scan) : f.life = "ready" /\ ~scan.complete /\ f.page = scan.nextPage

\* validate_inventory with index_inventory
InventoryAccepted(st) ==
  IF st.scan = None THEN Listed = {}
  ELSE /\ \A f \in Listed : InFence(f, st)
       /\ \A i \in DOMAIN st.scan.segments :
            LET ref == st.scan.segments[i]
                located == {f \in Listed : f.id = ref.id} IN
            /\ \A f \in located : MatchesReference(f, ref, st.scan)
            /\ IF ref.sequence <= st.scan.delivered
               THEN \A f \in located : f.life = "delivered"
               ELSE located # {}
       /\ Adoptable(st.scan)

\* Mutant: the next unreceipted segment counts as receipted.
ReceiptedFilesAndNext(scan) ==
  {f \in Listed : \E i \in DOMAIN scan.segments :
                    scan.segments[i].id = f.id /\ scan.segments[i].sequence <= scan.delivered + 1}

\* The receipted_delivered of the plan.
ReceiptedFiles(scan) ==
  {f \in Listed : \E i \in DOMAIN scan.segments :
                    scan.segments[i].id = f.id /\ scan.segments[i].sequence <= scan.delivered}

-----------------------------------------------------------------------------
(* The proposals of rising.rs.                                             *)

\* initial_state
InitialState(fingerprint) ==
  [fingerprint |-> fingerprint, configGeneration |-> 1,
   coordinator |-> NewSnapshot(ConfigurationFence(fingerprint, 1), 0, NoCursor),
   scan |-> None]

\* start_or_resume_page's new attempt
StartProposal(attempt) ==
  LET fence == [attempt |-> attempt, config |-> state.coordinator.config,
                generation |-> state.coordinator.generation] IN
  [state EXCEPT !.coordinator = StartAttempt(@, fence).snap,
                !.scan = [attempt |-> attempt, base |-> state.coordinator.committed,
                          resume |-> NoCursor, maximum |-> NoCursor, compacted |-> 0,
                          compactedRows |-> 0, nextPage |-> 1, complete |-> FALSE,
                          segments |-> <<>>, delivered |-> 0]]

\* collection_completed on the coordinator, when the scan is complete
WithCompletion(st) ==
  IF ~st.scan.complete THEN st
  ELSE [st EXCEPT !.coordinator =
          CollectionCompleted(@, CurrentFence, SealedRows(st.scan), st.scan.maximum).snap]

\* record_empty_completion
EmptyProposal == WithCompletion([state EXCEPT !.scan.complete = TRUE])

\* Mutant: the page's resume position is taken for the scan's maximum candidate.
AdoptProposalResumeAsMaximum(f) ==
  LET ref == [id |-> f.id, sequence |-> SegmentCount(state.scan) + 1,
              page |-> state.scan.nextPage, rows |-> Cardinality(f.rows)] IN
  WithCompletion([state EXCEPT !.scan.segments = Append(@, ref), !.scan.resume = f.resume,
                               !.scan.maximum = f.resume, !.scan.nextPage = @ + 1,
                               !.scan.complete = ~f.truncated])

\* adopt_orphan
AdoptProposal(f) ==
  LET ref == [id |-> f.id, sequence |-> SegmentCount(state.scan) + 1,
              page |-> state.scan.nextPage, rows |-> Cardinality(f.rows)] IN
  WithCompletion([state EXCEPT !.scan.segments = Append(@, ref), !.scan.resume = f.resume,
                               !.scan.maximum = f.candidate, !.scan.nextPage = @ + 1,
                               !.scan.complete = ~f.truncated])

ReceiptProposal == [state EXCEPT !.scan.delivered = @ + 1]

\* prune_compacted_prefix
Removable(scan) == Cardinality({i \in DOMAIN scan.segments : scan.segments[i].sequence <= scan.delivered})
PruneProposal ==
  LET k == Removable(state.scan) IN
  [state EXCEPT !.scan.compacted = state.scan.segments[k].sequence,
                !.scan.compactedRows = @ + RowsOf(SubSeq(state.scan.segments, 1, k)),
                !.scan.segments = SubSeq(@, k + 1, Len(@))]

ConfirmProposal ==
  [state EXCEPT !.coordinator = DeliveryConfirmed(@, CurrentFence, SealedRows(state.scan)).snap]

CommitProposal ==
  [state EXCEPT !.coordinator = Commit(@, CurrentFence).snap, !.scan = None]

\* compare_exchange: a refused proposal changes nothing and is remembered.
CompareExchange(next) ==
  IF Accepts(state, next) THEN state' = next /\ UNCHANGED refused
                          ELSE refused' = TRUE /\ UNCHANGED state

-----------------------------------------------------------------------------
(* Starting, and the configuration.                                        *)

Idle(d) == [d EXCEPT !.pc = "idle", !.page = None, !.unsent = None]
Down(d) == [d EXCEPT !.pc = "down", !.page = None, !.unsent = None]

\* ensure_input for an existing state: nothing to do, an activation, or an error.
RevisionCurrent(fingerprint) == state.fingerprint = fingerprint
RevisionActivatable(fingerprint) == Activatable(state, fingerprint) /\ ~SpoolNonempty

\* Spool::open moves every .open file to quarantine, whatever happens next.
OpenSpool ==
  /\ files' = Listed
  /\ quarantined' = (quarantined \/ files # Listed)

\* preflight_startup, evaluated after the spool is open.
StartDaemon ==
  /\ daemon.pc = "down"
  /\ OpenSpool
  /\ IF state = None
     THEN ~(quarantined' \/ files' # {}) /\ UNCHANGED state
     ELSE \/ RevisionCurrent(configured) /\ UNCHANGED state
          \/ /\ Activatable(state, configured) /\ ~(quarantined' \/ files' # {})
             /\ state' = Activated(state, configured)
  /\ daemon' = [daemon EXCEPT !.pc = "idle", !.prepared = configured]
  /\ UNCHANGED <<world, ghosts, faults>>

\* Startup under a revision that durable work is not fenced to fails closed.
StartRefused ==
  /\ daemon.pc = "down"
  /\ state # None /\ ~RevisionCurrent(configured)
  /\ ~Activatable(state, configured) \/ SpoolNonempty
  /\ OpenSpool
  /\ UNCHANGED <<state, daemon, world, ghosts, faults>>

Crash ==
  /\ daemon.pc # "down"
  /\ faults < MaxFaults
  /\ faults' = faults + 1
  /\ daemon' = Down(daemon)
  /\ UNCHANGED <<durable, world, ghosts>>

EditConfiguration ==
  /\ edits < MaxEdits
  /\ edits' = edits + 1
  /\ \E fingerprint \in Fingerprint \ {configured} : configured' = fingerprint
  /\ UNCHANGED <<durable, daemon, source, inserted, indexed, ghosts, faults>>

\* apply_reload once the old revision's reconcile succeeded and left nothing to collect.
Reload ==
  /\ daemon.pc = "wave"
  /\ configured # daemon.prepared
  /\ NoScan
  /\ daemon' = [Idle(daemon) EXCEPT !.prepared = configured]
  /\ UNCHANGED <<durable, world, ghosts, faults>>

-----------------------------------------------------------------------------
(* Reconcile: at the loop's turn, before any collection.                   *)

\* ensure_input at the head of reconcile
ActivateRevision ==
  /\ daemon.pc = "idle"
  /\ state # None /\ RevisionActivatable(daemon.prepared)
  /\ state' = Activated(state, daemon.prepared)
  /\ UNCHANGED <<files, quarantined, daemon, world, ghosts, faults>>

\* The error of ensure_input: every later turn of the loop meets it again.
ReconcileRefused ==
  /\ daemon.pc = "idle"
  /\ state # None
  /\ ~RevisionCurrent(daemon.prepared) /\ ~RevisionActivatable(daemon.prepared)
  /\ UNCHANGED vars

BeginReconcile ==
  /\ daemon.pc = "idle"
  /\ IF state = None THEN ~SpoolNonempty
     ELSE RevisionCurrent(daemon.prepared) /\ InventoryAccepted(state)
  /\ daemon' = [daemon EXCEPT !.pc = IF NoScan THEN "wave" ELSE "reconcile"]
  /\ UNCHANGED <<durable, world, ghosts, faults>>

\* compact_delivered of a receipted segment
CompactDelivered ==
  /\ daemon.pc = "reconcile"
  /\ \E f \in ReceiptedFiles(state.scan) : files' = files \ {f}
  /\ UNCHANGED <<state, quarantined, daemon, world, ghosts, faults>>

Prune ==
  /\ daemon.pc = "reconcile"
  /\ ReceiptedFiles(state.scan) = {}
  /\ Removable(state.scan) > 0
  /\ CompareExchange(PruneProposal)
  /\ UNCHANGED <<files, quarantined, daemon, world, receipts, faults>>

\* The receipted prefix is gone from the spool and from the scan.
PrefixPruned == ReceiptedFiles(state.scan) = {} /\ Removable(state.scan) = 0

AdoptOrphan ==
  /\ daemon.pc = "reconcile"
  /\ PrefixPruned
  /\ \E f \in Orphans(state.scan) :
       /\ f.request = <<state.coordinator.committed, state.scan.resume>>
       /\ CompareExchange(AdoptProposal(f))
  /\ UNCHANGED <<files, quarantined, daemon, world, receipts, faults>>

\* The file of the first unreceipted reference, once nothing comes before its delivery.
NextDelivery(life) ==
  {f \in Listed : /\ f.life = life
                  /\ Orphans(state.scan) = {}
                  /\ PrefixPruned
                  /\ \E i \in DOMAIN state.scan.segments :
                       /\ state.scan.segments[i].id = f.id
                       /\ state.scan.segments[i].sequence = state.scan.delivered + 1}

\* Mutant: the query orders its rows downwards.
Largest(rows, n) == {r \in rows : Cardinality({q \in rows : q > r}) < n}

\* The first n rows of the ordered result.
Smallest(rows, n) == {r \in rows : Cardinality({q \in rows : q < r}) < n}

\* deliver_ready_segment_sync: one HEC request of the segment, accepted and acknowledged.
SendBatch ==
  /\ daemon.pc = "reconcile"
  /\ \E f \in NextDelivery("ready") :
       LET unsent == IF daemon.unsent = None THEN f.rows ELSE daemon.unsent
           batch == Smallest(unsent, BatchEvents) IN
       /\ batch # {}
       /\ indexed' = indexed \cup batch
       /\ daemon' = [daemon EXCEPT !.unsent = unsent \ batch]
  /\ UNCHANGED <<durable, configured, source, inserted, edits, ghosts, faults>>

MarkDelivered ==
  /\ daemon.pc = "reconcile"
  /\ daemon.unsent = {}
  /\ \E f \in NextDelivery("ready") :
       files' = (files \ {f}) \cup {[f EXCEPT !.life = "delivered"]}
  /\ daemon' = [daemon EXCEPT !.unsent = None]
  /\ UNCHANGED <<state, quarantined, world, ghosts, faults>>

Receipt ==
  /\ daemon.pc = "reconcile"
  /\ \E f \in NextDelivery("delivered") :
       receipts' = receipts \cup ({f.generation} \X f.rows)
  /\ CompareExchange(ReceiptProposal)
  /\ UNCHANGED <<files, quarantined, daemon, world, faults>>

\* Mutant: a receipted segment may still be in the spool.
PrefixFinishedUnpruned ==
  Orphans(state.scan) = {} /\ state.scan.delivered = SegmentCount(state.scan)

\* Every page of the scan so far is delivered, receipted, compacted and pruned.
PrefixFinished ==
  PrefixPruned /\ Orphans(state.scan) = {} /\ state.scan.delivered = SegmentCount(state.scan)

\* finish_reconciled_scan: more pages to collect, or confirm, or commit.
NeedsCollection ==
  /\ daemon.pc = "reconcile"
  /\ PrefixFinished /\ ~state.scan.complete
  /\ daemon' = [daemon EXCEPT !.pc = "wave"]
  /\ UNCHANGED <<durable, world, ghosts, faults>>

ConfirmDelivery ==
  /\ daemon.pc = "reconcile"
  /\ PrefixFinished /\ state.scan.complete
  /\ state.coordinator.active.delivery.state = "InProgress"
  /\ CompareExchange(ConfirmProposal)
  /\ UNCHANGED <<files, quarantined, daemon, world, receipts, faults>>

\* Mutant: only a scan that saw rows is committed.
CommitScanWithRows ==
  /\ daemon.pc = "reconcile"
  /\ PrefixFinished /\ state.scan.complete
  /\ state.scan.maximum # NoCursor
  /\ state.coordinator.active.delivery = DeliveryConfirmedState(SealedRows(state.scan))
  /\ CompareExchange(CommitProposal)
  /\ daemon' = [daemon EXCEPT !.pc = "wave"]
  /\ UNCHANGED <<files, quarantined, world, receipts, faults>>

CommitScan ==
  /\ daemon.pc = "reconcile"
  /\ PrefixFinished /\ state.scan.complete
  /\ state.coordinator.active.delivery = DeliveryConfirmedState(SealedRows(state.scan))
  /\ CompareExchange(CommitProposal)
  /\ daemon' = [daemon EXCEPT !.pc = "wave"]
  /\ UNCHANGED <<files, quarantined, world, receipts, faults>>

\* Reconcile returns an error: before or after the write it was about to make.
AbortReconcile ==
  /\ daemon.pc = "reconcile"
  /\ faults < MaxFaults
  /\ faults' = faults + 1
  /\ daemon' = Idle(daemon)
  /\ UNCHANGED <<durable, world, ghosts>>

-----------------------------------------------------------------------------
(* Collection: after a reconcile that succeeded.                           *)

\* The loop sleeps and reconciles again; the input was not due.
Poll ==
  /\ daemon.pc = "wave"
  /\ daemon' = Idle(daemon)
  /\ UNCHANGED <<durable, world, ghosts, faults>>

\* start_or_resume_page: ensure_input creates the state of a new input.
CreateState ==
  /\ daemon.pc = "wave"
  /\ state = None /\ ~SpoolNonempty
  /\ state' = InitialState(daemon.prepared)
  /\ UNCHANGED <<files, quarantined, daemon, world, ghosts, faults>>

\* fresh_attempt_id differs from the last committed one.
FreshAttempt ==
  {a \in AttemptId : state.coordinator.last = None \/ state.coordinator.last.fence.attempt # a}

BeginAttempt ==
  /\ daemon.pc = "wave"
  /\ state # None /\ state.coordinator.active = None
  /\ Listed = {}
  /\ state.coordinator.generation < MaxScans
  /\ \E a \in FreshAttempt : CompareExchange(StartProposal(a))
  /\ UNCHANGED <<files, quarantined, daemon, world, receipts, faults>>

\* The page context, and the worker's reserved open segment under it.
BeginPage ==
  /\ daemon.pc = "wave"
  /\ state # None /\ state.scan # None
  /\ Listed = {}
  /\ ~state.scan.complete /\ state.scan.delivered = SegmentCount(state.scan)
  /\ state.coordinator.active.collection.state = "InProgress"
  /\ state.coordinator.active.delivery.state = "InProgress"
  /\ state.scan.resume # NoCursor => state.scan.resume + Overlap >= state.coordinator.committed
  /\ LET segment ==
           [id |-> CHOOSE i \in SegmentId : i \notin Referenced(state.scan) \cup {f.id : f \in files},
            life |-> "open",
            fingerprint |-> daemon.prepared, configGeneration |-> state.configGeneration,
            attempt |-> CurrentFence.attempt, generation |-> state.coordinator.generation,
            page |-> state.scan.nextPage, rows |-> {}, truncated |-> FALSE,
            request |-> <<state.coordinator.committed, state.scan.resume>>,
            candidate |-> NoCursor, resume |-> NoCursor] IN
     /\ files' = files \cup {segment}
     /\ daemon' = [daemon EXCEPT !.pc = "page", !.page = segment]
  /\ UNCHANGED <<state, quarantined, world, ghosts, faults>>

\* Mutants: the resume position itself is read again; the position after a bound is not read.
InBoundInclusive(r, request) ==
  IF request[2] # NoCursor THEN r >= request[2]
  ELSE IF request[1] = NoCursor THEN TRUE
  ELSE IF Overlap = 0 THEN r > request[1] ELSE r + Overlap >= request[1]
InBoundPastNext(r, request) ==
  IF request[2] # NoCursor THEN r > request[2] + 1
  ELSE IF request[1] = NoCursor THEN TRUE
  ELSE IF Overlap = 0 THEN r > request[1] + 1 ELSE r + Overlap >= request[1]

\* effective_bound: exclusive after the resume cursor, else the committed cursor less the overlap.
InBound(r, request) ==
  IF request[2] # NoCursor THEN r > request[2]
  ELSE IF request[1] = NoCursor THEN TRUE
  ELSE IF Overlap = 0 THEN r > request[1] ELSE r + Overlap >= request[1]

\* The connector's page and the CursorTracker's candidate and resume for it.
CollectPage ==
  /\ daemon.pc = "page"
  /\ LET available == {r \in source : InBound(r, daemon.page.request)}
         rows == Smallest(available, PageSize)
         empty == rows = {} IN
     daemon' = [daemon EXCEPT !.pc = "collected",
                  !.page.rows = rows,
                  !.page.truncated = (rows # available),
                  !.page.resume = IF empty THEN NoCursor ELSE Max(rows),
                  !.page.candidate = IF empty THEN NoCursor
                                     ELSE Max(rows \cup ({daemon.page.request[1]} \ {NoCursor}))]
  /\ UNCHANGED <<durable, world, ghosts, faults>>

\* finalize_spooled_collection: a page with rows is sealed with its recovery metadata.
SealPage ==
  /\ daemon.pc = "collected"
  /\ daemon.page.rows # {}
  /\ files' = Listed \cup {[daemon.page EXCEPT !.life = "ready"]}
  /\ daemon' = Idle(daemon)
  /\ UNCHANGED <<state, quarantined, world, ghosts, faults>>

\* An empty page's segment is aborted; the completion is recorded afterwards.
AbortEmptyPage ==
  /\ daemon.pc = "collected"
  /\ daemon.page.rows = {}
  /\ files' = Listed
  /\ daemon' = [daemon EXCEPT !.pc = "empty"]
  /\ UNCHANGED <<state, quarantined, world, ghosts, faults>>

\* validate_page_context
PageContextCurrent ==
  /\ state.scan # None
  /\ daemon.page.fingerprint = daemon.prepared
  /\ daemon.page.configGeneration = state.configGeneration
  /\ daemon.page.generation = state.coordinator.generation
  /\ daemon.page.attempt = CurrentFence.attempt
  /\ daemon.page.page = state.scan.nextPage
  /\ daemon.page.request = <<state.coordinator.committed, state.scan.resume>>

RecordEmpty ==
  /\ daemon.pc = "empty"
  /\ PageContextCurrent /\ Listed = {}
  /\ CompareExchange(EmptyProposal)
  /\ daemon' = Idle(daemon)
  /\ UNCHANGED <<files, quarantined, world, receipts, faults>>

\* Connector error, timeout, cancellation or row mismatch: the worker aborts its open segment.
FailPage ==
  /\ daemon.pc \in {"page", "collected", "empty"}
  /\ faults < MaxFaults
  /\ faults' = faults + 1
  /\ files' = Listed
  /\ daemon' = Idle(daemon)
  /\ UNCHANGED <<state, quarantined, world, ghosts>>

\* apply_reload stops the workers before it asks whether a scan is active: the page, or an
\* empty page's unrecorded completion, is lost, and the reload waits for the next interval.
CancelForReload ==
  /\ daemon.pc \in {"page", "collected", "empty"}
  /\ configured # daemon.prepared
  /\ files' = Listed
  /\ daemon' = Idle(daemon)
  /\ UNCHANGED <<state, quarantined, world, ghosts, faults>>

-----------------------------------------------------------------------------
(* The source (external): rows appear in cursor order and may be deleted.  *)

InsertRow ==
  /\ inserted < MaxInserts
  /\ inserted' = inserted + 1
  /\ source' = source \cup {inserted + 1}
  /\ UNCHANGED <<durable, daemon, configured, indexed, edits, ghosts, faults>>

DeleteRow ==
  /\ \E r \in source : source' = source \ {r}
  /\ UNCHANGED <<durable, daemon, configured, inserted, indexed, edits, ghosts, faults>>

-----------------------------------------------------------------------------
Init ==
  /\ state = None /\ files = {} /\ quarantined = FALSE
  /\ \E fingerprint \in Fingerprint :
       /\ configured = fingerprint
       /\ daemon = [pc |-> "down", prepared |-> fingerprint, page |-> None, unsent |-> None]
  /\ source = {} /\ inserted = 0 /\ indexed = {}
  /\ refused = FALSE /\ receipts = {}
  /\ faults = 0 /\ edits = 0

Reconcile ==
  \/ CompactDelivered \/ Prune \/ AdoptOrphan \/ SendBatch \/ MarkDelivered \/ Receipt
  \/ NeedsCollection \/ ConfirmDelivery \/ CommitScan

Collect == CollectPage \/ SealPage \/ AbortEmptyPage \/ RecordEmpty

Next ==
  \/ StartDaemon \/ StartRefused \/ Crash \/ EditConfiguration \/ Reload
  \/ ActivateRevision \/ ReconcileRefused \/ BeginReconcile \/ Reconcile \/ AbortReconcile
  \/ Poll \/ CreateState \/ BeginAttempt \/ BeginPage \/ Collect \/ FailPage \/ CancelForReload
  \/ InsertRow \/ DeleteRow

\* The loop keeps turning, a restarted daemon is started again (Splunk supervises it with
\* interval = 0), and an input whose scan is active or due is launched again and again.
Fairness ==
  /\ WF_vars(StartDaemon) /\ WF_vars(ActivateRevision) /\ WF_vars(BeginReconcile)
  /\ WF_vars(Reconcile) /\ WF_vars(Collect) /\ WF_vars(Poll)
  /\ SF_vars(CreateState) /\ SF_vars(BeginAttempt) /\ SF_vars(BeginPage) /\ SF_vars(Reload)

Spec == Init /\ [][Next]_vars
FairSpec == Spec /\ Fairness

-----------------------------------------------------------------------------
(* Properties.                                                             *)

\* The variables' types: where the daemon is, and what it holds there.
TypeOK ==
  /\ state \in InputState \cup {None} /\ files \subseteq Segment
  /\ daemon \in [pc: {"down", "idle", "reconcile", "wave", "page", "collected", "empty"},
                 prepared: Fingerprint, page: Segment \cup {None}, unsent: {None} \cup SUBSET Row]
  /\ daemon.page # None <=> daemon.pc \in {"page", "collected", "empty"}
  /\ daemon.unsent # None => daemon.pc = "reconcile"
  /\ source \cup indexed \subseteq 1 .. inserted

\* The durable cursor never passes a row that Splunk has not accepted, whatever crashed,
\* failed or was replayed in between.
NoRowSkipped == \A r \in source : r <= Committed => r \in indexed

\* A row the scan's resume cursor has passed, and that no later page will read again, is
\* accepted by Splunk or sealed in a segment that is still in the spool: neither compaction nor
\* the abort of an open segment loses the only copy.
NothingLost ==
  state # None /\ state.scan # None =>
    \A r \in source : r <= state.scan.resume => r \in indexed \/ \E f \in Listed : r \in f.rows

\* At least once: every row that is behind the committed cursor is in Splunk, and every row that
\* is behind the open scan's resume cursor is in Splunk or in the spool.
NoRowLost == NoRowSkipped /\ NothingLost

\* Only one segment of the input exists at a time and at most one reference is retained, so
\* a scan of any length meets neither MAX_SEGMENTS_PER_SCAN nor more than one segment of quota.
OneSegmentInFlight ==
  /\ Cardinality(files) <= 1
  /\ state # None /\ state.scan # None => Len(state.scan.segments) <= 1

\* Between scans no file is left, an incomplete one included, unless it is in quarantine.
IdleSpoolIsClean == state # None /\ state.scan = None => files = {}

\* At every instant, so after a crash at any instant, the durable state is one the store can
\* load and the spool inventory is one reconcile accepts, within one segment: under the revision the
\* state is fenced to, no write, failed page or aborted segment leaves the input wedged.  Another
\* revision is a different matter.  ensure_input refuses it while a scan is open, and for good once
\* quarantine holds bytes of the input; between scans it refuses for nothing else.
AlwaysRecoverable ==
  /\ TypeOK
  /\ IF state = None THEN files = {} ELSE ValidState(state) /\ InventoryAccepted(state)
  /\ OneSegmentInFlight
  /\ IdleSpoolIsClean

\* The store never refuses a transition the orchestration proposes: the two sets of rules,
\* written apart, agree on every reachable state.
NeverRefused == ~refused

\* Once a row's page is receipted, the scan holds it in no segment that is still to be sent: a
\* crash or restart repeats at most the page in flight, and only a later scan's overlap
\* reads a row again.
NoResendAfterReceipt ==
  \A f \in Listed : f.life = "ready" => \A r \in f.rows : <<f.generation, r>> \notin receipts

\* The promise this orchestration keeps.
Promise == INSTANCE GatedCursor WITH cursor <- Committed
ImplementsPromise == Promise!Spec

\* Under a configuration that stays the same, every scan that starts ends in a commit.
ScanCompletes ==
  (state # None /\ state.scan # None) ~> (state # None /\ state.scan = None)

\* A row present when a scan makes its first read reaches Splunk, in this scan or after any
\* number of failed pages, failed deliveries and restarts, unless the source deletes it.
FirstReadAhead ==
  /\ state # None /\ state.scan # None
  /\ state.scan.nextPage = 1 /\ ~state.scan.complete /\ Listed = {}
  /\ daemon.pc \notin {"collected", "empty"}
RowsReachSplunk ==
  \A r \in Row : r \in source /\ FirstReadAhead ~> r \in indexed \/ r \notin source

\* A configuration that stays on disk is loaded: a reload that an active scan blocks is
\* applied once the scan completes.
ReloadApplied == configured # daemon.prepared ~> configured = daemon.prepared

=============================================================================
