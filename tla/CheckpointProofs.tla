-------------------------- MODULE CheckpointProofs --------------------------
(***************************************************************************)
(* Proofs about the checkpoint coordinator, for every set of attempts,     *)
(* configurations, cursor positions and row counts, and every width of the *)
(* generation.  Each operator is shown to keep a snapshot typed, valid and *)
(* not behind the one it was given; the temporal theorems follow.          *)
(***************************************************************************)
EXTENDS Checkpoint, TLAPS

(* What every operation preserves.                                         *)
Good(s) == s \in Snapshot /\ Validate(s)

\* t may follow s: the cursor and the generation never move backwards, and the cursor moves
\* only with the generation.
Follows(s, t) ==
  /\ t.committed >= s.committed
  /\ t.generation \in {s.generation, s.generation + 1}
  /\ t.generation = s.generation => t.committed = s.committed

USE PositionAssumption, RowCountAssumption, GenerationAssumption, NoneAssumption

(* A snapshot that does not change follows itself.                         *)
LEMMA FollowsReflexive == ASSUME NEW s \in Snapshot PROVE Follows(s, s)
<1>1. s.committed \in Nat
  BY DEF Snapshot, OptCursor, NoCursor
<1> QED BY <1>1 DEF Follows

(* start_attempt keeps a good snapshot good and moves no cursor.           *)
LEMMA StartAttemptGood ==
  ASSUME NEW s, Good(s), NEW f \in Fence
  PROVE  Good(StartAttempt(s, f).snap) /\ Follows(s, StartAttempt(s, f).snap)
<1> DEFINE a == [fence |-> f, collection |-> CollectionInProgress, delivery |-> DeliveryIn("InProgress")]
           t == [s EXCEPT !.active = a]
<1>1. a \in ActiveAttempt /\ a # None
  BY DEF ActiveAttempt, CollectionState, DeliveryState, CollectionInProgress, DeliveryIn,
         OptCursor, NoCursor
<1>2. CASE StartAttempt(s, f).snap = s
  BY <1>2, FollowsReflexive DEF Good
<1>3. CASE StartAttempt(s, f).snap = t /\ InContext(s, f.config, f.generation)
  <2>1. t \in Snapshot /\ Follows(s, t)
    BY <1>1 DEF Good, Snapshot, Follows, OptCursor, NoCursor, Generation
  <2>2. ValidActive(t)
    BY <1>1, <1>3 DEF ValidActive, InContext, Good, Snapshot, CollectionInProgress
  <2>3. ValidLast(t)
    BY DEF ValidLast, Good, Validate, Snapshot
  <2> QED BY <1>3, <2>1, <2>2, <2>3 DEF Good, Validate
<1> QED BY <1>2, <1>3 DEF StartAttempt, Reply, Reject

(* Recording a collection or a delivery fact of the active attempt.        *)
LEMMA RecordCollectionGood ==
  ASSUME NEW s, Good(s), s.active # None, NEW fact \in CollectionState,
         fact.state = "Completed" => ValidCandidate(s.committed, fact.rows, fact.candidate)
  PROVE  Good(RecordCollection(s, fact).snap) /\ Follows(s, RecordCollection(s, fact).snap)
<1> DEFINE a == [s.active EXCEPT !.collection = fact]
           t == [s EXCEPT !.active = a]
<1>1. s.active \in ActiveAttempt
  BY DEF Good, Snapshot
<1>2. a \in ActiveAttempt /\ a # None /\ a.fence = s.active.fence /\ a.collection = fact
  BY <1>1 DEF ActiveAttempt
<1>3. t \in Snapshot /\ Follows(s, t)
  BY <1>2 DEF Good, Snapshot, Follows, OptCursor, NoCursor, Generation
<1>4. ValidActive(t)
  BY <1>2 DEF ValidActive, Good, Validate, Snapshot
<1>5. ValidLast(t)
  BY DEF ValidLast, Good, Validate, Snapshot
<1>6. RecordCollection(s, fact).snap \in {s, t}
  BY DEF RecordCollection, Reply, Reject
<1> QED BY <1>3, <1>4, <1>5, <1>6, FollowsReflexive DEF Good, Validate

LEMMA RecordDeliveryGood ==
  ASSUME NEW s, Good(s), s.active # None, NEW fact \in DeliveryState
  PROVE  Good(RecordDelivery(s, fact).snap) /\ Follows(s, RecordDelivery(s, fact).snap)
<1> DEFINE a == [s.active EXCEPT !.delivery = fact]
           t == [s EXCEPT !.active = a]
<1>1. s.active \in ActiveAttempt
  BY DEF Good, Snapshot
<1>2. a \in ActiveAttempt /\ a # None /\ a.fence = s.active.fence
      /\ a.collection = s.active.collection
  BY <1>1 DEF ActiveAttempt
<1>3. t \in Snapshot /\ Follows(s, t)
  BY <1>2 DEF Good, Snapshot, Follows, OptCursor, NoCursor, Generation
<1>4. ValidActive(t)
  BY <1>2 DEF ValidActive, Good, Validate, Snapshot
<1>5. ValidLast(t)
  BY DEF ValidLast, Good, Validate, Snapshot
<1>6. RecordDelivery(s, fact).snap \in {s, t}
  BY DEF RecordDelivery, Reply, Reject
<1> QED BY <1>3, <1>4, <1>5, <1>6, FollowsReflexive DEF Good, Validate

(* commit keeps a good snapshot good and its cursor does not regress: the  *)
(* candidate was validated against the cursor it replaces.                 *)
LEMMA CommitGood ==
  ASSUME NEW s, Good(s), NEW f \in Fence
  PROVE  Good(Commit(s, f).snap) /\ Follows(s, Commit(s, f).snap)
<1> DEFINE c == s.active.collection
           t == Promoted(s, f)
<1>1. CASE Commit(s, f).snap = s
  BY <1>1, FollowsReflexive DEF Good
<1>2. CASE /\ Commit(s, f).snap = t
           /\ HoldsFence(s, f)
           /\ ReadyToCommit(s.active)
           /\ s.generation < MaxGeneration
  <2>1. s.active \in ActiveAttempt /\ c \in CollectionState /\ c.state = "Completed"
    BY <1>2 DEF Good, Snapshot, HoldsFence, ReadyToCommit, ActiveAttempt
  <2>2. ValidCandidate(s.committed, c.rows, c.candidate)
    BY <1>2, <2>1 DEF Good, Validate, ValidActive, HoldsFence
  <2>3. s.committed \in Nat /\ c.candidate \in OptCursor /\ s.committed \in OptCursor
        /\ s.generation \in Generation
    BY <2>1 DEF Good, Snapshot, CollectionState, OptCursor, NoCursor
  <2>4. t.committed \in OptCursor /\ t.committed >= s.committed
    BY <2>2, <2>3 DEF ValidCandidate, OptCursor, NoCursor, Promoted
  <2>5. s.generation + 1 \in Generation /\ s.generation \in Nat
    BY <1>2, <2>3 DEF Generation
  <2>6. t.last \in CommittedAttempt /\ t.last # None
    BY <2>5 DEF CommittedAttempt, Promoted
  <2>7. t \in Snapshot
    BY <2>4, <2>5, <2>6 DEF Good, Snapshot, Promoted
  <2>8. Follows(s, t)
    BY <2>4, <2>5 DEF Follows, Promoted
  <2>9. ValidActive(t)
    BY DEF ValidActive, Promoted
  <2>10. ValidLast(t)
    BY <1>2, <2>5, <2>6 DEF ValidLast, HoldsFence, InContext, Promoted
  <2> QED BY <1>2, <2>7, <2>8, <2>9, <2>10 DEF Good, Validate
<1> QED BY <1>1, <1>2 DEF Commit, Reply, Reject

(* recover keeps a good snapshot good, whether it commits or replays.      *)
LEMMA RecoverGood ==
  ASSUME NEW s, Good(s), NEW config, NEW generation
  PROVE  Good(Recover(s, config, generation).snap) /\ Follows(s, Recover(s, config, generation).snap)
<1> DEFINE t == [s EXCEPT !.active = None]
<1>1. t \in Snapshot /\ Follows(s, t) /\ ValidActive(t) /\ ValidLast(t)
  BY DEF Good, Snapshot, Follows, OptCursor, NoCursor, Generation, ValidActive, ValidLast, Validate
<1>2. CASE Recover(s, config, generation).snap \in {s, t}
  BY <1>1, <1>2, FollowsReflexive DEF Good, Validate
<1>3. CASE s.active # None /\ Recover(s, config, generation) = Commit(s, s.active.fence)
  <2>1. s.active.fence \in Fence
    BY <1>3 DEF Good, Snapshot, ActiveAttempt
  <2> QED BY <1>3, <2>1, CommitGood
<1> QED BY <1>2, <1>3 DEF Recover, Reply, Reject

(* Every call keeps the snapshot good and lets it only move forward.       *)
LEMMA NextGood ==
  ASSUME Good(snapshot), Next
  PROVE  Good(snapshot') /\ Follows(snapshot, snapshot')
<1>1. ASSUME NEW f \in Fence, CallStart(f)
      PROVE  Good(snapshot') /\ Follows(snapshot, snapshot')
  BY <1>1, StartAttemptGood DEF CallStart
<1>2. ASSUME NEW f \in Fence, NEW rows \in RowCount, NEW candidate \in OptCursor,
             CallCollectionCompleted(f, rows, candidate)
      PROVE  Good(snapshot') /\ Follows(snapshot, snapshot')
  <2> DEFINE fact == CollectionCompletedState(rows, candidate)
  <2>1. fact \in CollectionState /\ fact.rows = rows /\ fact.candidate = candidate
    BY DEF CollectionState, CollectionCompletedState
  <2>2. CASE HoldsFence(snapshot, f) /\ ValidCandidate(snapshot.committed, rows, candidate)
    BY <1>2, <2>1, <2>2, RecordCollectionGood, FollowsReflexive
       DEF CallCollectionCompleted, Report, CollectionCompleted, HoldsFence, Reply, Reject, Good
  <2>3. CASE ~(HoldsFence(snapshot, f) /\ ValidCandidate(snapshot.committed, rows, candidate))
    BY <1>2, <2>3, FollowsReflexive
       DEF CallCollectionCompleted, Report, CollectionCompleted, Reply, Reject, Good
  <2> QED BY <2>2, <2>3
<1>3. ASSUME NEW f \in Fence, NEW rows \in RowCount, CallDeliveryConfirmed(f, rows)
      PROVE  Good(snapshot') /\ Follows(snapshot, snapshot')
  <2>1. DeliveryConfirmedState(rows) \in DeliveryState
    BY DEF DeliveryState, DeliveryConfirmedState
  <2> QED BY <1>3, <2>1, RecordDeliveryGood, FollowsReflexive
       DEF CallDeliveryConfirmed, Report, DeliveryConfirmed, HoldsFence, Reply, Reject, Good
<1>4. ASSUME NEW f \in Fence, CallCollectionFailed(f)
      PROVE  Good(snapshot') /\ Follows(snapshot, snapshot')
  <2>1. CollectionFailedState \in CollectionState /\ CollectionFailedState.state = "Failed"
    BY DEF CollectionState, CollectionFailedState, OptCursor, NoCursor
  <2> QED BY <1>4, <2>1, RecordCollectionGood, FollowsReflexive
       DEF CallCollectionFailed, Report, CollectionFailed, HoldsFence, Reply, Reject, Good
<1>5. ASSUME NEW f \in Fence, NEW terminal \in {"Failed", "Uncertain"},
             CallDeliveryTerminal(f, terminal)
      PROVE  Good(snapshot') /\ Follows(snapshot, snapshot')
  <2>1. DeliveryIn(terminal) \in DeliveryState
    BY DEF DeliveryState, DeliveryIn
  <2> QED BY <1>5, <2>1, RecordDeliveryGood, FollowsReflexive
       DEF CallDeliveryTerminal, Report, DeliveryTerminal, HoldsFence, Reply, Reject, Good
<1>6. ASSUME NEW f \in Fence, CallCommit(f)
      PROVE  Good(snapshot') /\ Follows(snapshot, snapshot')
  BY <1>6, CommitGood DEF CallCommit
<1>7. ASSUME NEW config, NEW generation, CallRecover(config, generation)
      PROVE  Good(snapshot') /\ Follows(snapshot, snapshot')
  BY <1>7, RecoverGood DEF CallRecover
<1> QED BY <1>1, <1>2, <1>3, <1>4, <1>5, <1>6, <1>7 DEF Next

(* A new snapshot is good.                                                 *)
LEMMA InitGood == Init => Good(snapshot)
  BY DEF Init, NewSnapshot, Good, Snapshot, Generation, Validate, ValidActive, ValidLast

(* No call sequence takes the coordinator out of its type or builds a      *)
(* snapshot that its own validate refuses.                                 *)
THEOREM SnapshotStaysGood == Spec => [](TypeOK /\ SnapshotValid)
<1>1. Init => Good(snapshot)
  BY InitGood
<1>2. Good(snapshot) /\ [Next]_vars => Good(snapshot)'
  BY NextGood DEF vars, Good, Validate, ValidActive, ValidLast
<1>3. Good(snapshot) => TypeOK /\ SnapshotValid
  BY DEF Good, TypeOK, SnapshotValid
<1> QED BY <1>1, <1>2, <1>3, PTL DEF Spec

(* The committed cursor and the generation never regress.                  *)
THEOREM CursorIsMonotone == Spec => CursorMonotone
<1> DEFINE Step == Follows(snapshot, snapshot')
<1>1. Init => Good(snapshot)
  BY InitGood
<1>2. Good(snapshot) /\ [Next]_vars => Good(snapshot)' /\ [Step]_vars
  BY NextGood DEF vars, Good, Validate, ValidActive, ValidLast
<1>3. Spec => [][Step]_vars
  BY <1>1, <1>2, PTL DEF Spec
<1> QED BY <1>3, PTL DEF CursorMonotone, Follows

-----------------------------------------------------------------------------
(* What was reported, and what was committed.  The evidence is exactly     *)
(* what the active attempt has recorded, so a commit logs one success of   *)
(* each kind; and every committed fence lies in an earlier generation, in  *)
(* the order of the commits, the latest one being last.                    *)

CollectedFacts(a) ==
  IF a.collection.state = "InProgress" THEN {}
  ELSE {<<"collected", a.collection.state, a.collection.rows, a.collection.candidate>>}
DeliveredFacts(a) ==
  IF a.delivery.state = "InProgress" THEN {}
  ELSE {<<"delivered", a.delivery.state, a.delivery.rows, NoCursor>>}
EvidenceOf(s) == IF s.active = None THEN {} ELSE CollectedFacts(s.active) \cup DeliveredFacts(s.active)

\* One entry of the log.
CommitEntry(e) ==
  /\ e.fence \in Fence
  /\ \E rows \in RowCount, candidate \in OptCursor :
       /\ e.evidence = {<<"collected", "Completed", rows, candidate>>,
                        <<"delivered", "Confirmed", rows, NoCursor>>}
       /\ e.to = IF candidate = NoCursor THEN e.from ELSE candidate

\* The log against the snapshot.
LogSound(log, s) ==
  /\ \A i \in DOMAIN log : CommitEntry(log[i]) /\ log[i].fence.generation < s.generation
  /\ \A i, j \in DOMAIN log : i < j => log[i].fence.generation < log[j].fence.generation
  /\ log # <<>> => s.last # None /\ s.last.fence = log[Len(log)].fence

Fact == {"collected", "delivered"} \X {"Completed", "Confirmed"} \X RowCount \X OptCursor
Entry == [fence: Fence, evidence: SUBSET Fact, from: OptCursor, to: OptCursor]

\* The inductive invariant.
LogInv ==
  /\ Good(snapshot)
  /\ evidence = EvidenceOf(snapshot)
  /\ commits \in Seq(Entry)
  /\ LogSound(commits, snapshot)

(* An operation that moves neither the generation nor the last committed   *)
(* attempt leaves the log as sound as it was.                              *)
LEMMA LogKept ==
  ASSUME NEW log, NEW s, NEW t, LogSound(log, s), t.generation = s.generation, t.last = s.last
  PROVE  LogSound(log, t)
BY DEF LogSound

(* start_attempt records no evidence yet.                                  *)
LEMMA StartEvidence ==
  ASSUME NEW s, Good(s), NEW f \in Fence
  PROVE  LET r == StartAttempt(s, f) IN
         /\ r.snap.generation = s.generation /\ r.snap.last = s.last
         /\ EvidenceOf(r.snap) = IF r.outcome = "Started" THEN {} ELSE EvidenceOf(s)
<1> DEFINE a == [fence |-> f, collection |-> CollectionInProgress, delivery |-> DeliveryIn("InProgress")]
           t == [s EXCEPT !.active = a]
<1>1. a \in ActiveAttempt /\ a # None
  BY DEF ActiveAttempt, CollectionState, DeliveryState, CollectionInProgress, DeliveryIn,
         OptCursor, NoCursor
<1>2. t.active = a /\ t.generation = s.generation /\ t.last = s.last
  BY DEF Good, Snapshot
<1>3. EvidenceOf(t) = {}
  BY <1>1, <1>2 DEF EvidenceOf, CollectedFacts, DeliveredFacts, CollectionInProgress, DeliveryIn
<1> QED BY <1>2, <1>3 DEF StartAttempt, Reply, Reject

(* A collection or delivery fact that is recorded, or found unchanged, is  *)
(* evidence from then on; one that is refused is not.                      *)
LEMMA RecordCollectionEvidence ==
  ASSUME NEW s, Good(s), s.active # None, NEW fact \in CollectionState, fact.state # "InProgress"
  PROVE  LET r == RecordCollection(s, fact) IN
         /\ r.snap.generation = s.generation /\ r.snap.last = s.last
         /\ EvidenceOf(r.snap) =
              IF r.outcome \in {"Recorded", "Unchanged"}
              THEN EvidenceOf(s) \cup {<<"collected", fact.state, fact.rows, fact.candidate>>}
              ELSE EvidenceOf(s)
<1> DEFINE a == [s.active EXCEPT !.collection = fact]
           t == [s EXCEPT !.active.collection = fact]
<1>1. s.active \in ActiveAttempt
  BY DEF Good, Snapshot
<1>2. a \in ActiveAttempt /\ a # None /\ a.collection = fact /\ a.delivery = s.active.delivery
  BY <1>1 DEF ActiveAttempt
<1>3. t.active = a /\ t.generation = s.generation /\ t.last = s.last
  BY DEF Good, Snapshot
<1>4. CASE s.active.collection.state = "InProgress"
  BY <1>2, <1>3, <1>4 DEF RecordCollection, Reply, EvidenceOf, CollectedFacts, DeliveredFacts
<1>5. CASE s.active.collection.state # "InProgress" /\ s.active.collection = fact
  BY <1>5 DEF RecordCollection, Reply, EvidenceOf, CollectedFacts, DeliveredFacts
<1>6. CASE s.active.collection.state # "InProgress" /\ s.active.collection # fact
  BY <1>6 DEF RecordCollection, Reply, Reject
<1> QED BY <1>4, <1>5, <1>6

LEMMA RecordDeliveryEvidence ==
  ASSUME NEW s, Good(s), s.active # None, NEW fact \in DeliveryState, fact.state # "InProgress"
  PROVE  LET r == RecordDelivery(s, fact) IN
         /\ r.snap.generation = s.generation /\ r.snap.last = s.last
         /\ EvidenceOf(r.snap) =
              IF r.outcome \in {"Recorded", "Unchanged"}
              THEN EvidenceOf(s) \cup {<<"delivered", fact.state, fact.rows, NoCursor>>}
              ELSE EvidenceOf(s)
<1> DEFINE a == [s.active EXCEPT !.delivery = fact]
           t == [s EXCEPT !.active.delivery = fact]
<1>1. s.active \in ActiveAttempt
  BY DEF Good, Snapshot
<1>2. a \in ActiveAttempt /\ a # None /\ a.delivery = fact /\ a.collection = s.active.collection
  BY <1>1 DEF ActiveAttempt
<1>3. t.active = a /\ t.generation = s.generation /\ t.last = s.last
  BY DEF Good, Snapshot
<1>4. CASE s.active.delivery.state = "InProgress"
  BY <1>2, <1>3, <1>4 DEF RecordDelivery, Reply, EvidenceOf, CollectedFacts, DeliveredFacts
<1>5. CASE s.active.delivery.state # "InProgress" /\ s.active.delivery = fact
  BY <1>5 DEF RecordDelivery, Reply, EvidenceOf, CollectedFacts, DeliveredFacts
<1>6. CASE s.active.delivery.state # "InProgress" /\ s.active.delivery # fact
  BY <1>6 DEF RecordDelivery, Reply, Reject
<1> QED BY <1>4, <1>5, <1>6

(* A commit appends one entry: the success of both kinds that the evidence *)
(* holds, under a fence of the generation it closes.                       *)
LEMMA CommitLogged ==
  ASSUME LogInv, NEW f \in Fence, Commit(snapshot, f).outcome = "Committed",
         snapshot' = Commit(snapshot, f).snap, Log(Commit(snapshot, f)), evidence' = {}
  PROVE  LogInv'
<1> DEFINE a == snapshot.active
           t == Promoted(snapshot, f)
           e == [fence |-> f, evidence |-> evidence, from |-> snapshot.committed, to |-> t.committed]
<1>1. /\ snapshot' = t
      /\ HoldsFence(snapshot, f) /\ ReadyToCommit(a) /\ snapshot.generation < MaxGeneration
  BY DEF Commit, Reply, Reject
<1>2. a \in ActiveAttempt /\ a # None
  BY <1>1 DEF LogInv, Good, Snapshot, HoldsFence
<1>3. Good(snapshot')
  BY CommitGood DEF LogInv
<1>4. /\ t.active = None /\ t.last # None /\ t.last.fence = f
      /\ t.generation = snapshot.generation + 1 /\ snapshot.generation \in Nat
      /\ t.committed \in OptCursor
      /\ t.committed = IF a.collection.candidate = NoCursor
                       THEN snapshot.committed ELSE a.collection.candidate
  <2>1. t.last \in CommittedAttempt
    BY <1>1, <1>3 DEF Good, Snapshot, Promoted, CommittedAttempt, LogInv, Generation
  <2>2. snapshot.generation \in Nat /\ snapshot.committed \in OptCursor
        /\ a.collection.candidate \in OptCursor
    BY <1>2 DEF LogInv, Good, Snapshot, Generation, ActiveAttempt, CollectionState
  <2> QED BY <2>1, <2>2 DEF Promoted
<1>5. f.generation = snapshot.generation
  BY <1>1 DEF HoldsFence, InContext
<1>6. /\ a.collection.rows \in RowCount /\ a.collection.candidate \in OptCursor
      /\ evidence = {<<"collected", "Completed", a.collection.rows, a.collection.candidate>>,
                     <<"delivered", "Confirmed", a.collection.rows, NoCursor>>}
  <2>1. a.collection.rows \in RowCount /\ a.collection.candidate \in OptCursor
    BY <1>2 DEF ActiveAttempt, CollectionState
  <2>2. evidence = CollectedFacts(a) \cup DeliveredFacts(a)
    BY <1>2 DEF LogInv, EvidenceOf
  <2> QED BY <1>1, <2>1, <2>2 DEF CollectedFacts, DeliveredFacts, ReadyToCommit
<1>7. e \in Entry /\ CommitEntry(e)
  <2>1. snapshot.committed \in OptCursor
    BY DEF LogInv, Good, Snapshot
  <2>2. CommitEntry(e)
    BY <1>4, <1>6 DEF CommitEntry
  <2>3. evidence \in SUBSET Fact
    <3>1. NoCursor \in OptCursor
      BY DEF OptCursor
    <3>2. ASSUME NEW rows \in RowCount, NEW candidate \in OptCursor
          PROVE  /\ <<"collected", "Completed", rows, candidate>> \in Fact
                 /\ <<"delivered", "Confirmed", rows, NoCursor>> \in Fact
      BY <3>1 DEF Fact
    <3> QED BY <1>6, <3>2
  <2> QED BY <1>4, <2>1, <2>2, <2>3 DEF Entry
<1>8. commits' = Append(commits, e)
  BY <1>1, <1>4 DEF Log
<1>9. commits' \in Seq(Entry)
  BY <1>7, <1>8 DEF LogInv
<1>10. /\ Len(commits') = Len(commits) + 1 /\ commits'[Len(commits')] = e
       /\ DOMAIN commits = 1 .. Len(commits) /\ DOMAIN commits' = 1 .. Len(commits')
       /\ \A i \in DOMAIN commits : commits'[i] = commits[i]
       /\ Len(commits) \in Nat
  BY <1>7, <1>8 DEF LogInv
<1>11. \A i \in DOMAIN commits : commits[i].fence.generation \in Nat
  BY DEF LogInv, LogSound, CommitEntry, Fence, Generation
<1>12. LogSound(commits', snapshot')
  <2>1. \A i \in DOMAIN commits' : CommitEntry(commits'[i])
                                   /\ commits'[i].fence.generation < snapshot'.generation
    <3> TAKE i \in DOMAIN commits'
    <3>1. CASE i \in DOMAIN commits
      BY <1>1, <1>4, <1>10, <1>11, <3>1 DEF LogInv, LogSound
    <3>2. CASE i = Len(commits')
      BY <1>1, <1>4, <1>5, <1>7, <1>10, <3>2
    <3> QED BY <1>10, <3>1, <3>2
  <2>2. ASSUME NEW i \in DOMAIN commits', NEW j \in DOMAIN commits', i < j
        PROVE  commits'[i].fence.generation < commits'[j].fence.generation
    <3>1. CASE j \in DOMAIN commits
      BY <1>10, <2>2, <3>1 DEF LogInv, LogSound
    <3>2. CASE j = Len(commits')
      <4>1. i \in DOMAIN commits
        BY <1>10, <2>2, <3>2
      <4> QED BY <1>5, <1>10, <3>2, <4>1 DEF LogInv, LogSound
    <3> QED BY <1>10, <3>1, <3>2
  <2>3. snapshot'.last # None /\ snapshot'.last.fence = commits'[Len(commits')].fence
    BY <1>1, <1>4, <1>10
  <2> QED BY <2>1, <2>2, <2>3 DEF LogSound
<1>13. evidence' = EvidenceOf(snapshot')
  BY <1>1, <1>4 DEF EvidenceOf
<1> QED BY <1>3, <1>9, <1>12, <1>13 DEF LogInv, Good, Validate, ValidActive, ValidLast

(* Each call keeps the log sound.                                          *)
LEMMA NextLogged == ASSUME LogInv, Next PROVE LogInv'
<1>0. Good(snapshot) /\ evidence = EvidenceOf(snapshot)
  BY DEF LogInv
<1>1. Good(snapshot')
  BY <1>0, NextGood
<1> DEFINE Kept(s) == /\ s.generation = snapshot.generation /\ s.last = snapshot.last
                      /\ commits' = commits
<1>2. ASSUME Kept(snapshot'), evidence' = EvidenceOf(snapshot')
      PROVE  LogInv'
  BY <1>1, <1>2, LogKept DEF LogInv, Good, Validate, ValidActive, ValidLast
<1>3. ASSUME NEW f \in Fence, CallStart(f) PROVE LogInv'
  BY <1>0, <1>2, <1>3, StartEvidence DEF CallStart
<1>4. ASSUME NEW f \in Fence, NEW rows \in RowCount, NEW candidate \in OptCursor,
             CallCollectionCompleted(f, rows, candidate)
      PROVE  LogInv'
  <2> DEFINE fact == CollectionCompletedState(rows, candidate)
             r == CollectionCompleted(snapshot, f, rows, candidate)
  <2>1. fact \in CollectionState /\ fact.rows = rows /\ fact.candidate = candidate
        /\ fact.state = "Completed"
    BY DEF CollectionState, CollectionCompletedState
  <2>2. CASE snapshot.active # None /\ r = RecordCollection(snapshot, fact)
    <3>1. /\ Kept(r.snap)
          /\ EvidenceOf(r.snap) = IF r.outcome \in {"Recorded", "Unchanged"}
               THEN EvidenceOf(snapshot) \cup {<<"collected", fact.state, fact.rows, fact.candidate>>}
               ELSE EvidenceOf(snapshot)
      <4>1. commits' = commits
        BY <1>4 DEF CallCollectionCompleted, Report
      <4> HIDE DEF fact
      <4>2. fact.state # "InProgress"
        BY <2>1
      <4> QED BY ONLY <1>0, <2>1, <2>2, <4>1, <4>2, RecordCollectionEvidence
    <3>2. EvidenceOf(r.snap) = evidence'
      <4> HIDE DEF fact, r
      <4> QED BY <1>0, <1>4, <2>1, <3>1 DEF CallCollectionCompleted, Report, r
    <3> QED BY <1>2, <1>4, <3>1, <3>2 DEF CallCollectionCompleted, Report
  <2>3. CASE r = Reject(snapshot)
    BY <1>0, <1>2, <1>4, <2>3 DEF CallCollectionCompleted, Report, Reply, Reject
  <2> QED BY <2>2, <2>3 DEF CollectionCompleted, HoldsFence
<1>5. ASSUME NEW f \in Fence, NEW rows \in RowCount, CallDeliveryConfirmed(f, rows)
      PROVE  LogInv'
  <2> DEFINE fact == DeliveryConfirmedState(rows)
             r == DeliveryConfirmed(snapshot, f, rows)
  <2>1. fact \in DeliveryState /\ fact.rows = rows /\ fact.state = "Confirmed"
    BY DEF DeliveryState, DeliveryConfirmedState
  <2>2. CASE snapshot.active # None /\ r = RecordDelivery(snapshot, fact)
    <3>1. Kept(r.snap) /\ EvidenceOf(r.snap) = evidence'
      BY <1>0, <1>5, <2>1, <2>2, RecordDeliveryEvidence DEF CallDeliveryConfirmed, Report
    <3> QED BY <1>2, <1>5, <3>1 DEF CallDeliveryConfirmed, Report
  <2>3. CASE r = Reject(snapshot)
    BY <1>0, <1>2, <1>5, <2>3 DEF CallDeliveryConfirmed, Report, Reply, Reject
  <2> QED BY <2>2, <2>3 DEF DeliveryConfirmed, HoldsFence
<1>6. ASSUME NEW f \in Fence, CallCollectionFailed(f) PROVE LogInv'
  <2> DEFINE r == CollectionFailed(snapshot, f)
  <2>1. CollectionFailedState \in CollectionState /\ CollectionFailedState.state = "Failed"
        /\ CollectionFailedState.rows = 0 /\ CollectionFailedState.candidate = NoCursor
    BY DEF CollectionState, CollectionFailedState, OptCursor, NoCursor
  <2>2. CASE snapshot.active # None /\ r = RecordCollection(snapshot, CollectionFailedState)
    <3>1. Kept(r.snap) /\ EvidenceOf(r.snap) = evidence'
      BY <1>0, <1>6, <2>1, <2>2, RecordCollectionEvidence DEF CallCollectionFailed, Report
    <3> QED BY <1>2, <1>6, <3>1 DEF CallCollectionFailed, Report
  <2>3. CASE r = Reject(snapshot)
    BY <1>0, <1>2, <1>6, <2>3 DEF CallCollectionFailed, Report, Reply, Reject
  <2> QED BY <2>2, <2>3 DEF CollectionFailed, HoldsFence
<1>7. ASSUME NEW f \in Fence, NEW terminal \in {"Failed", "Uncertain"},
             CallDeliveryTerminal(f, terminal)
      PROVE  LogInv'
  <2> DEFINE r == DeliveryTerminal(snapshot, f, terminal)
  <2>1. DeliveryIn(terminal) \in DeliveryState /\ DeliveryIn(terminal).state = terminal
        /\ DeliveryIn(terminal).rows = 0
    BY DEF DeliveryState, DeliveryIn
  <2>2. CASE snapshot.active # None /\ r = RecordDelivery(snapshot, DeliveryIn(terminal))
    <3>1. Kept(r.snap) /\ EvidenceOf(r.snap) = evidence'
      BY <1>0, <1>7, <2>1, <2>2, RecordDeliveryEvidence DEF CallDeliveryTerminal, Report
    <3> QED BY <1>2, <1>7, <3>1 DEF CallDeliveryTerminal, Report
  <2>3. CASE r = Reject(snapshot)
    BY <1>0, <1>2, <1>7, <2>3 DEF CallDeliveryTerminal, Report, Reply, Reject
  <2> QED BY <2>2, <2>3 DEF DeliveryTerminal, HoldsFence
<1>8. ASSUME NEW f \in Fence, CallCommit(f) PROVE LogInv'
  <2>1. CASE Commit(snapshot, f).outcome = "Committed"
    BY <1>8, <2>1, CommitLogged DEF CallCommit
  <2>2. CASE Commit(snapshot, f).outcome # "Committed"
    <3>1. Commit(snapshot, f).snap = snapshot
      BY <2>2 DEF Commit, Reply, Reject
    <3> QED BY <1>0, <1>2, <1>8, <2>2, <3>1 DEF CallCommit, Log
  <2> QED BY <2>1, <2>2
<1>9. ASSUME NEW config, NEW generation, CallRecover(config, generation) PROVE LogInv'
  <2> DEFINE r == Recover(snapshot, config, generation)
             t == [snapshot EXCEPT !.active = None]
  <2>1. CASE snapshot.active # None /\ r = Commit(snapshot, snapshot.active.fence)
    <3>1. snapshot.active.fence \in Fence
      BY <1>0, <2>1 DEF Good, Snapshot, ActiveAttempt
    <3>2. CASE r.outcome = "Committed"
      BY <1>9, <2>1, <3>1, <3>2, CommitLogged DEF CallRecover
    <3>3. CASE r.outcome # "Committed"
      <4>1. r.snap = snapshot /\ r.outcome \in {"Error", "AlreadyCommitted"}
        BY <2>1, <3>3 DEF Commit, Reply, Reject
      <4> QED BY <1>0, <1>2, <1>9, <4>1 DEF CallRecover, Log
    <3> QED BY <3>2, <3>3
  <2>2. CASE r \in {Reject(snapshot), Reply(snapshot, "StartNewAttempt")}
    BY <1>0, <1>2, <1>9, <2>2 DEF CallRecover, Log, Reply, Reject
  <2>3. CASE r = Reply(t, "ReplayFromCommitted")
    <3>1. t.generation = snapshot.generation /\ t.last = snapshot.last /\ t.active = None
      BY <1>0 DEF Good, Snapshot
    <3>2. snapshot' = t /\ evidence' = {} /\ commits' = commits
      BY <1>9, <2>3 DEF CallRecover, Log, Reply
    <3>3. EvidenceOf(t) = {}
      BY <3>1 DEF EvidenceOf
    <3> QED BY <1>2, <3>1, <3>2, <3>3
  <2> QED BY <2>1, <2>2, <2>3 DEF Recover
<1> QED BY <1>3, <1>4, <1>5, <1>6, <1>7, <1>8, <1>9 DEF Next

(* The inductive invariant holds in every reachable state.                 *)
LEMMA LogInvariant == Spec => []LogInv
<1>1. Init => LogInv
  <2>1. ASSUME Init PROVE evidence = EvidenceOf(snapshot) /\ commits \in Seq(Entry)
                          /\ LogSound(commits, snapshot)
    BY <2>1 DEF Init, NewSnapshot, EvidenceOf, LogSound
  <2> QED BY <2>1, InitGood DEF LogInv
<1>2. LogInv /\ [Next]_vars => LogInv'
  <2>1. ASSUME LogInv, UNCHANGED vars PROVE LogInv'
    BY <2>1 DEF vars, LogInv, Good, Validate, ValidActive, ValidLast, EvidenceOf, CollectedFacts,
                DeliveredFacts, LogSound
  <2> QED BY <2>1, NextLogged
<1> QED BY <1>1, <1>2, PTL DEF Spec

(* Whatever was reported, repeated or contradicted, an attempt that        *)
(* committed was told one collection success and one delivery success of   *)
(* the same row count, and nothing else.                                   *)
THEOREM CommitsHaveBothFacts == Spec => []CommitNeedsBothFacts
<1>1. LogInv => CommitNeedsBothFacts
  BY DEF LogInv, LogSound, CommitEntry, CommitNeedsBothFacts
<1> QED BY <1>1, LogInvariant, PTL

(* No call under the fence of a committed attempt changes anything again;  *)
(* the latest commit is recognised when it is repeated.                    *)
THEOREM SpentFencesAreInert == Spec => []SpentFenceIsInert
<1>1. ASSUME LogInv PROVE SpentFenceIsInert
  <2> SUFFICES ASSUME NEW i \in DOMAIN commits
               PROVE  LET f == commits[i].fence IN
                      /\ StartAttempt(snapshot, f).outcome = "Error"
                      /\ \A rows \in RowCount :
                           /\ DeliveryConfirmed(snapshot, f, rows).outcome = "Error"
                           /\ \A c \in OptCursor :
                                CollectionCompleted(snapshot, f, rows, c).outcome = "Error"
                      /\ CollectionFailed(snapshot, f).outcome = "Error"
                      /\ Commit(snapshot, f).outcome =
                           IF i = Len(commits) THEN "AlreadyCommitted" ELSE "Error"
    BY DEF SpentFenceIsInert
  <2> DEFINE f == commits[i].fence
  <2>1. f.generation \in Nat /\ snapshot.generation \in Nat /\ f.generation < snapshot.generation
    BY <1>1 DEF LogInv, LogSound, CommitEntry, Good, Snapshot, Fence, Generation
  <2>2. ~InContext(snapshot, f.config, f.generation) /\ ~HoldsFence(snapshot, f)
    BY <2>1 DEF InContext, HoldsFence
  <2>3. DOMAIN commits = 1 .. Len(commits) /\ Len(commits) \in Nat /\ commits # <<>>
    BY <1>1 DEF LogInv
  <2>4. Commit(snapshot, f).outcome = IF i = Len(commits) THEN "AlreadyCommitted" ELSE "Error"
    <3>1. snapshot.last # None /\ snapshot.last.fence = commits[Len(commits)].fence
          /\ Validate(snapshot)
      BY <1>1, <2>3 DEF LogInv, LogSound, Good
    <3>2. CASE i = Len(commits)
      BY <3>1, <3>2 DEF Commit, Reply
    <3>3. CASE i # Len(commits)
      <4>1. Len(commits) \in DOMAIN commits /\ i < Len(commits)
        BY <2>3, <3>3
      <4>2. f.generation < commits[Len(commits)].fence.generation
        BY <1>1, <4>1 DEF LogInv, LogSound
      <4>3. snapshot.last.fence # f
        BY <2>1, <3>1, <4>2
      <4> QED BY <2>2, <3>1, <3>3, <4>3 DEF Commit, Reply, Reject
    <3> QED BY <3>2, <3>3
  <2>5. StartAttempt(snapshot, f).outcome = "Error"
    BY <2>2 DEF StartAttempt, Reply, Reject
  <2>6. CollectionFailed(snapshot, f).outcome = "Error"
        /\ \A rows \in RowCount :
             /\ DeliveryConfirmed(snapshot, f, rows).outcome = "Error"
             /\ \A c \in OptCursor : CollectionCompleted(snapshot, f, rows, c).outcome = "Error"
    BY <2>2 DEF CollectionFailed, DeliveryConfirmed, CollectionCompleted, Reply, Reject
  <2> QED BY <2>4, <2>5, <2>6
<1> QED BY <1>1, LogInvariant, PTL

=============================================================================
