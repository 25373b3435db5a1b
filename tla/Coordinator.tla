----------------------------- MODULE Coordinator ----------------------------
(***************************************************************************)
(* The operations of the checkpoint coordinator of                         *)
(* crates/dbx-rs-checkpoint/src/lib.rs: a snapshot lets the committed      *)
(* cursor advance only when one attempt's collection and its delivery both *)
(* succeeded under one fence.                                              *)
(*                                                                         *)
(* Every operation of the crate is an operator from a snapshot and the     *)
(* call's arguments to [snap, outcome]; an error leaves the snapshot as it *)
(* is.                                                                     *)
(*                                                                         *)
(* Simplifications: a TimestampIdCursor is its position in the total order *)
(* position_cmp (1, 2, ...) and None is the position 0; attempt and        *)
(* configuration identities are opaque; the snapshot's format version is   *)
(* the constant the code writes.                                           *)
(***************************************************************************)
EXTENDS Naturals, Sequences

CONSTANTS
  AttemptId,       \* 16-byte attempt identities
  ConfigurationId, \* 32-byte configuration fences
  Position,        \* cursor positions, a set of positive naturals
  RowCount,        \* the row counts calls may report
  MaxGeneration,   \* u64::MAX, scaled down
  None             \* the absent Option

NoCursor == 0
Generation == 0 .. MaxGeneration
OptCursor == Position \cup {NoCursor}

Fence == [attempt: AttemptId, config: ConfigurationId, generation: Generation]

CollectionState ==
  [state: {"InProgress", "Completed", "Failed"}, rows: RowCount, candidate: OptCursor]
DeliveryState ==
  [state: {"InProgress", "Confirmed", "Failed", "Uncertain"}, rows: RowCount]

ActiveAttempt == [fence: Fence, collection: CollectionState, delivery: DeliveryState]
CommittedAttempt == [fence: Fence, resulting: Generation]

Snapshot ==
  [config: ConfigurationId, generation: Generation, committed: OptCursor,
   active: ActiveAttempt \cup {None}, last: CommittedAttempt \cup {None}]

ASSUME PositionAssumption == Position \subseteq Nat \ {0}
ASSUME RowCountAssumption == RowCount \subseteq Nat /\ 0 \in RowCount
ASSUME GenerationAssumption == MaxGeneration \in Nat
ASSUME NoneAssumption == None \notin ActiveAttempt /\ None \notin CommittedAttempt

CollectionInProgress == [state |-> "InProgress", rows |-> 0, candidate |-> NoCursor]
CollectionFailedState == [state |-> "Failed", rows |-> 0, candidate |-> NoCursor]
CollectionCompletedState(rows, candidate) ==
  [state |-> "Completed", rows |-> rows, candidate |-> candidate]
DeliveryIn(state) == [state |-> state, rows |-> 0]
DeliveryConfirmedState(rows) == [state |-> "Confirmed", rows |-> rows]

-----------------------------------------------------------------------------
(* The coordinator's checks.                                               *)

\* Snapshot::new
NewSnapshot(config, generation, committed) ==
  [config |-> config, generation |-> generation, committed |-> committed,
   active |-> None, last |-> None]

\* Mutant: a candidate behind the committed cursor is accepted.
ValidCandidateUnordered(committed, rows, candidate) ==
  IF rows = 0 THEN candidate = NoCursor ELSE candidate # NoCursor

\* validate_candidate: a candidate exactly when there were rows, not behind the cursor.
ValidCandidate(committed, rows, candidate) ==
  IF rows = 0 THEN candidate = NoCursor
              ELSE candidate # NoCursor /\ candidate >= committed

ValidActive(s) ==
  s.active # None =>
    /\ s.active.fence.config = s.config
    /\ s.active.fence.generation = s.generation
    /\ s.active.collection.state = "Completed" =>
         ValidCandidate(s.committed, s.active.collection.rows, s.active.collection.candidate)

ValidLast(s) ==
  s.last # None =>
    /\ s.last.fence.generation < MaxGeneration
    /\ s.last.fence.config = s.config
    /\ s.last.fence.generation + 1 = s.last.resulting
    /\ s.last.resulting = s.generation

\* Snapshot::validate
Validate(s) == ValidActive(s) /\ ValidLast(s)

\* Mutant: the checkpoint generation is not part of the fence.
InContextAnyGeneration(s, config, generation) == config = s.config

\* require_snapshot_context, require_current_context
InContext(s, config, generation) == config = s.config /\ generation = s.generation

\* require_active_fence
HoldsFence(s, f) ==
  /\ InContext(s, f.config, f.generation)
  /\ s.active # None
  /\ s.active.fence.attempt = f.attempt

Reply(s, outcome) == [snap |-> s, outcome |-> outcome]
Reject(s) == Reply(s, "Error")

-----------------------------------------------------------------------------
(* The coordinator's operations.                                           *)

StartAttempt(s, f) ==
  IF ~Validate(s) \/ ~InContext(s, f.config, f.generation) THEN Reject(s)
  ELSE IF s.active = None
       THEN Reply([s EXCEPT !.active = [fence |-> f, collection |-> CollectionInProgress,
                                        delivery |-> DeliveryIn("InProgress")]], "Started")
       ELSE IF s.active.fence.attempt = f.attempt THEN Reply(s, "AlreadyActive")
                                                  ELSE Reject(s)

\* The three-way match that ends every record of a collection or delivery fact:
\* the first terminal fact is kept, a repetition is harmless, a contradiction an error.
RecordCollection(s, fact) ==
  IF s.active.collection.state = "InProgress"
  THEN Reply([s EXCEPT !.active.collection = fact], "Recorded")
  ELSE IF s.active.collection = fact THEN Reply(s, "Unchanged") ELSE Reject(s)

\* Mutant: the latest delivery report replaces an earlier one.
RecordLatestDelivery(s, fact) == Reply([s EXCEPT !.active.delivery = fact], "Recorded")

RecordDelivery(s, fact) ==
  IF s.active.delivery.state = "InProgress"
  THEN Reply([s EXCEPT !.active.delivery = fact], "Recorded")
  ELSE IF s.active.delivery = fact THEN Reply(s, "Unchanged") ELSE Reject(s)

CollectionCompleted(s, f, rows, candidate) ==
  IF Validate(s) /\ HoldsFence(s, f) /\ ValidCandidate(s.committed, rows, candidate)
  THEN RecordCollection(s, CollectionCompletedState(rows, candidate))
  ELSE Reject(s)

CollectionFailed(s, f) ==
  IF Validate(s) /\ HoldsFence(s, f)
  THEN RecordCollection(s, CollectionFailedState) ELSE Reject(s)

DeliveryConfirmed(s, f, rows) ==
  IF Validate(s) /\ HoldsFence(s, f)
  THEN RecordDelivery(s, DeliveryConfirmedState(rows)) ELSE Reject(s)

\* delivery_failed, delivery_uncertain through record_delivery_terminal
DeliveryTerminal(s, f, terminal) ==
  IF Validate(s) /\ HoldsFence(s, f)
  THEN RecordDelivery(s, DeliveryIn(terminal)) ELSE Reject(s)

ReadyToCommit(active) ==
  /\ active.collection.state = "Completed"
  /\ active.delivery.state = "Confirmed"
  /\ active.collection.rows = active.delivery.rows

\* The snapshot commit installs: the candidate, if there is one, under the next generation.
Promoted(s, f) ==
  [config     |-> s.config,
   generation |-> s.generation + 1,
   committed  |-> IF s.active.collection.candidate = NoCursor
                  THEN s.committed ELSE s.active.collection.candidate,
   active     |-> None,
   last       |-> [fence |-> f, resulting |-> s.generation + 1]]

\* Mutant: the committed attempt stays active.
CommitKeepsAttempt(s, f) ==
  IF Validate(s) /\ HoldsFence(s, f) /\ ReadyToCommit(s.active) /\ s.generation < MaxGeneration
  THEN Reply([Promoted(s, f) EXCEPT !.active = s.active], "Committed") ELSE Reject(s)

Commit(s, f) ==
  IF ~Validate(s) THEN Reject(s)
  ELSE IF s.last # None /\ s.last.fence = f THEN Reply(s, "AlreadyCommitted")
  ELSE IF HoldsFence(s, f) /\ ReadyToCommit(s.active) /\ s.generation < MaxGeneration
       THEN Reply(Promoted(s, f), "Committed")
       ELSE Reject(s)

\* recover, with recovery_disposition: commit what is fully confirmed, replay the rest.
Recover(s, config, generation) ==
  IF ~Validate(s) \/ ~InContext(s, config, generation) THEN Reject(s)
  ELSE IF s.active = None THEN Reply(s, "StartNewAttempt")
  ELSE IF ReadyToCommit(s.active) THEN Commit(s, s.active.fence)
  ELSE Reply([s EXCEPT !.active = None], "ReplayFromCommitted")

=============================================================================
