----------------------------- MODULE Checkpoint -----------------------------
(***************************************************************************)
(* The checkpoint coordinator under arbitrary callers: any call with any   *)
(* fence, in any order.  Collection and delivery report independently,     *)
(* calls are repeated because a reply was lost, and calls of dead attempts *)
(* arrive late.                                                            *)
(***************************************************************************)
EXTENDS Coordinator

-----------------------------------------------------------------------------
(* The specification.  evidence and commits observe the calls: evidence is *)
(* what was reported, and accepted or found unchanged, for the attempt     *)
(* incarnation that is active; commits is the log of committed attempts.   *)

VARIABLES snapshot, evidence, commits
vars == <<snapshot, evidence, commits>>

Init ==
  /\ \E config \in ConfigurationId, committed \in OptCursor :
        snapshot = NewSnapshot(config, 0, committed)
  /\ evidence = {}
  /\ commits = <<>>

CallStart(f) ==
  LET r == StartAttempt(snapshot, f) IN
  /\ snapshot' = r.snap
  /\ evidence' = IF r.outcome = "Started" THEN {} ELSE evidence
  /\ UNCHANGED commits

\* A report of a collection or delivery fact about the active attempt.
Report(r, fact) ==
  /\ snapshot' = r.snap
  /\ evidence' = IF r.outcome \in {"Recorded", "Unchanged"} THEN evidence \cup {fact} ELSE evidence
  /\ UNCHANGED commits

CallCollectionCompleted(f, rows, candidate) ==
  Report(CollectionCompleted(snapshot, f, rows, candidate), <<"collected", "Completed", rows, candidate>>)
CallCollectionFailed(f) ==
  Report(CollectionFailed(snapshot, f), <<"collected", "Failed", 0, NoCursor>>)
CallDeliveryConfirmed(f, rows) ==
  Report(DeliveryConfirmed(snapshot, f, rows), <<"delivered", "Confirmed", rows, NoCursor>>)
CallDeliveryTerminal(f, terminal) ==
  Report(DeliveryTerminal(snapshot, f, terminal), <<"delivered", terminal, 0, NoCursor>>)

Log(r) ==
  commits' = IF r.outcome = "Committed"
             THEN Append(commits, [fence |-> r.snap.last.fence, evidence |-> evidence,
                                   from |-> snapshot.committed, to |-> r.snap.committed])
             ELSE commits

CallCommit(f) ==
  LET r == Commit(snapshot, f) IN
  /\ snapshot' = r.snap
  /\ Log(r)
  /\ evidence' = IF r.outcome = "Committed" THEN {} ELSE evidence

CallRecover(config, generation) ==
  LET r == Recover(snapshot, config, generation) IN
  /\ snapshot' = r.snap
  /\ Log(r)
  /\ evidence' = IF r.outcome \in {"Committed", "ReplayFromCommitted"} THEN {} ELSE evidence

Next ==
  \/ \E f \in Fence :
       \/ CallStart(f)
       \/ \E rows \in RowCount :
            \/ \E candidate \in OptCursor : CallCollectionCompleted(f, rows, candidate)
            \/ CallDeliveryConfirmed(f, rows)
       \/ CallCollectionFailed(f)
       \/ \E terminal \in {"Failed", "Uncertain"} : CallDeliveryTerminal(f, terminal)
       \/ CallCommit(f)
  \/ \E config \in ConfigurationId, generation \in Generation : CallRecover(config, generation)

Spec == Init /\ [][Next]_vars

-----------------------------------------------------------------------------
(* Properties.                                                             *)

\* The snapshot stays in its type, whatever is called.
TypeOK == snapshot \in Snapshot

\* No sequence of calls builds a snapshot that Snapshot::validate refuses: every operation
\* validates first, so one refused snapshot would reject every later call, recovery included.
SnapshotValid == Validate(snapshot)

\* Whatever was reported, repeated or contradicted on the way, an attempt that committed was
\* told exactly one collection fact and one delivery fact in its incarnation, both successes and
\* of the same row count: no failure was ever accepted and none was replaced by a success.
CommitNeedsBothFacts ==
  \A i \in DOMAIN commits :
    \E rows \in RowCount, candidate \in OptCursor :
      /\ commits[i].evidence = {<<"collected", "Completed", rows, candidate>>,
                                <<"delivered", "Confirmed", rows, NoCursor>>}
      /\ commits[i].to = IF candidate = NoCursor THEN commits[i].from ELSE candidate

\* The fence of an attempt that committed is spent: no later call under it, however delayed or
\* repeated, changes the snapshot; a repeated commit of the latest one is recognised.
SpentFenceIsInert ==
  \A i \in DOMAIN commits :
    LET f == commits[i].fence IN
    /\ StartAttempt(snapshot, f).outcome = "Error"
    /\ \A rows \in RowCount :
         /\ DeliveryConfirmed(snapshot, f, rows).outcome = "Error"
         /\ \A c \in OptCursor : CollectionCompleted(snapshot, f, rows, c).outcome = "Error"
    /\ CollectionFailed(snapshot, f).outcome = "Error"
    /\ Commit(snapshot, f).outcome = IF i = Len(commits) THEN "AlreadyCommitted" ELSE "Error"

\* The committed cursor and the generation never move backwards, and the cursor moves only
\* with the generation: what one generation committed is never rewritten.
CursorMonotone ==
  [][/\ snapshot'.committed >= snapshot.committed
     /\ snapshot'.generation \in {snapshot.generation, snapshot.generation + 1}
     /\ snapshot'.generation = snapshot.generation => snapshot'.committed = snapshot.committed]_vars

=============================================================================
