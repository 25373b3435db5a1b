-------------------------------- MODULE Spool -------------------------------
(***************************************************************************)
(* The encrypted spool of crates/dbx-rs-spool/src/spool.rs: segment files, *)
(* their life cycle, and the byte account that enforces the quotas.        *)
(* Workers write segments and a consumer delivers and compacts them, all   *)
(* over clones of one handle.  The account is behind a mutex, so each      *)
(* change of it is one step, and each file operation is another.           *)
(*                                                                         *)
(* Simplifications: identities are unique (16 random bytes, retried on a   *)
(* collision); a segment is its input, its life and its length, and bytes  *)
(* are counted in frames: a header, a frame per event, the metadata with   *)
(* the footer.  Damaged files and unsafe paths, which block the inventory, *)
(* are left out, and so are failures to sync a directory after a rename:   *)
(* they change neither a file nor the account.                             *)
(***************************************************************************)
EXTENDS Naturals, FiniteSets, Functions

CONSTANTS
  InputKey,     \* inputs
  Worker,       \* threads that write segments
  SegmentId,    \* segment identities
  SegmentLimit, InputLimit, GlobalLimit, \* SpoolLimits
  MaxFailures,  \* bound: failed operations and crashes
  None          \* the absent file or writer

Life == {"open", "ready", "delivered", "quarantine"}
File == [input: InputKey, life: Life, bytes: 1 .. SegmentLimit]
Writer == [phase: {"reserved", "writing", "published", "released"}, input: InputKey,
           id: SegmentId \cup {None}, bytes: 0 .. SegmentLimit]

ASSUME LimitAssumption ==
  /\ SegmentLimit \in Nat /\ InputLimit \in Nat /\ GlobalLimit \in Nat /\ MaxFailures \in Nat
  /\ SegmentLimit >= 3
ASSUME FiniteAssumption == IsFiniteSet(InputKey) /\ IsFiniteSet(Worker) /\ IsFiniteSet(SegmentId)
ASSUME SpoolNoneAssumption == None \notin File /\ None \notin Writer /\ None \notin SegmentId

VARIABLES
  file,      \* per identity: the segment on disk, or None
  running,   \* whether a process has the spool open
  account,   \* Accounting: stored and reserved bytes, in all and by input
  writer,    \* per worker: its SegmentWriter
  removed,   \* the segment the consumer deleted and has not yet accounted for, or None
  leaked,    \* identities whose .open file outlived its writer
  drift,     \* per input: bytes removed from disk and never from the account
  failures
volatile == <<running, account, writer, removed>>
ghosts == <<leaked, drift>>
vars == <<file, volatile, ghosts, failures>>

NoBytes == [i \in InputKey |-> 0]
NoWriters == [w \in Worker |-> None]
EmptyAccount == [stored |-> 0, reserved |-> 0, storedBy |-> NoBytes, reservedBy |-> NoBytes]

Init ==
  /\ file = [id \in SegmentId |-> None]
  /\ running = FALSE /\ account = EmptyAccount
  /\ writer = NoWriters /\ removed = None
  /\ leaked = {} /\ drift = NoBytes
  /\ failures = 0

-----------------------------------------------------------------------------
(* The account.                                                            *)

\* Mutant: the other reservations of the input are not counted.
FitsStored(i) ==
  /\ account.storedBy[i] + SegmentLimit <= InputLimit
  /\ account.stored + account.reserved + SegmentLimit <= GlobalLimit

\* reserve: a whole segment must fit the input's and the global quota.
Fits(i) ==
  /\ account.storedBy[i] + account.reservedBy[i] + SegmentLimit <= InputLimit
  /\ account.stored + account.reserved + SegmentLimit <= GlobalLimit

Charge(a, i) == [a EXCEPT !.reserved = @ + SegmentLimit, !.reservedBy[i] = @ + SegmentLimit]

Less(n, m) == IF n < m THEN 0 ELSE n - m

\* release_reservation, with its saturating subtraction
Uncharge(a, i) ==
  [a EXCEPT !.reserved = Less(@, SegmentLimit), !.reservedBy[i] = Less(@, SegmentLimit)]

\* publish_reservation
Publishable(a, i) == a.reserved >= SegmentLimit /\ a.reservedBy[i] >= SegmentLimit
Convert(a, i, bytes) ==
  [Uncharge(a, i) EXCEPT !.stored = @ + bytes, !.storedBy[i] = @ + bytes]

\* remove_stored
Removable(a, i, bytes) == a.stored >= bytes /\ a.storedBy[i] >= bytes
Discharge(a, i, bytes) == [a EXCEPT !.stored = @ - bytes, !.storedBy[i] = Less(@, bytes)]

Present(lives) == {id \in SegmentId : IF file[id] = None THEN FALSE ELSE file[id].life \in lives}
Of(i, ids) == {id \in ids : file[id].input = i}
BytesOf(ids) == SumFunction([id \in ids |-> file[id].bytes])

-----------------------------------------------------------------------------
(* Opening and dying.                                                      *)

\* Mutant: everything that was not delivered is taken for incomplete.
IncompleteUndelivered == Present({"open", "ready"})

\* What recover_open_segments moves to quarantine.
Incomplete == Present({"open"})

\* Spool::open: quarantine, then scan_accounting over what is there.
Open ==
  /\ ~running
  /\ running' = TRUE
  /\ file' = [id \in SegmentId |->
                IF id \in Incomplete THEN [file[id] EXCEPT !.life = "quarantine"] ELSE file[id]]
  /\ LET by == [i \in InputKey |-> BytesOf(Of(i, Present(Life)))] IN
     account' = [EmptyAccount EXCEPT !.stored = SumFunction(by), !.storedBy = by]
  /\ drift' = NoBytes
  /\ UNCHANGED <<writer, removed, leaked, failures>>

Fail == failures < MaxFailures /\ failures' = failures + 1

Crash ==
  /\ running /\ Fail
  /\ running' = FALSE /\ account' = EmptyAccount
  /\ writer' = NoWriters /\ removed' = None
  /\ drift' = NoBytes
  /\ UNCHANGED <<file, leaked>>

-----------------------------------------------------------------------------
(* Writing a segment.                                                      *)

InPhase(w, phase) == IF writer[w] = None THEN FALSE ELSE writer[w].phase = phase

\* begin_segment: the reservation comes before the file.
Reserve(w, i) ==
  /\ running /\ writer[w] = None
  /\ Fits(i)
  /\ account' = Charge(account, i)
  /\ writer' = [writer EXCEPT ![w] = [phase |-> "reserved", input |-> i, id |-> None, bytes |-> 0]]
  /\ UNCHANGED <<file, running, removed, ghosts, failures>>

\* begin_reserved_segment: an .open file with its header.  A failure of the header's write or
\* sync is this step followed by RemoveOpen or RemoveFails.
CreateOpen(w) ==
  /\ InPhase(w, "reserved")
  /\ Present(Life) # SegmentId
  /\ LET id == CHOOSE id \in SegmentId : file[id] = None IN
     /\ file' = [file EXCEPT ![id] = [input |-> writer[w].input, life |-> "open", bytes |-> 1]]
     /\ writer' = [writer EXCEPT ![w].phase = "writing", ![w].id = id]
  /\ UNCHANGED <<running, account, removed, ghosts, failures>>

CreateFails(w) ==
  /\ InPhase(w, "reserved") /\ Fail
  /\ writer' = [writer EXCEPT ![w].phase = "released"]
  /\ UNCHANGED <<file, running, account, removed, ghosts>>

\* append_event: an event that would leave no room for the footer is refused.
AppendEvent(w) ==
  /\ InPhase(w, "writing")
  /\ file[writer[w].id].bytes + 2 <= SegmentLimit
  /\ file' = [file EXCEPT ![writer[w].id].bytes = @ + 1]
  /\ UNCHANGED <<volatile, ghosts, failures>>

\* seal_with_recovery_metadata: the last frames, then the rename.  byte_len is the writer's own:
\* a consumer may deliver and compact the segment before the account hears of it.
SealRename(w) ==
  /\ InPhase(w, "writing")
  /\ LET id == writer[w].id IN
     /\ file' = [file EXCEPT ![id].life = "ready", ![id].bytes = @ + 1]
     /\ writer' = [writer EXCEPT ![w].phase = "published", ![w].bytes = file[id].bytes + 1]
  /\ UNCHANGED <<running, account, removed, ghosts, failures>>

\* seal_with_recovery_metadata: the reservation becomes stored bytes.  An account that does not
\* hold the reservation is left alone.
Publish(w) ==
  /\ InPhase(w, "published")
  /\ account' = IF Publishable(account, writer[w].input)
                THEN Convert(account, writer[w].input, writer[w].bytes)
                ELSE account
  /\ writer' = [writer EXCEPT ![w] = None]
  /\ UNCHANGED <<file, running, removed, ghosts, failures>>

\* abort, and Drop of a writer that did not publish: the file goes first.
RemoveOpen(w) ==
  /\ InPhase(w, "writing")
  /\ file' = [file EXCEPT ![writer[w].id] = None]
  /\ writer' = [writer EXCEPT ![w].phase = "released"]
  /\ UNCHANGED <<running, account, removed, ghosts, failures>>

\* The removal fails.  abort ends in Drop, and Drop ignores the error: the file stays, and the
\* reservation is given back all the same.
RemoveFails(w) ==
  /\ InPhase(w, "writing") /\ Fail
  /\ leaked' = leaked \cup {writer[w].id}
  /\ writer' = [writer EXCEPT ![w].phase = "released"]
  /\ UNCHANGED <<file, running, account, removed, drift>>

\* The end of begin_segment, abort and Drop.
Release(w) ==
  /\ InPhase(w, "released")
  /\ account' = Uncharge(account, writer[w].input)
  /\ writer' = [writer EXCEPT ![w] = None]
  /\ UNCHANGED <<file, running, removed, ghosts, failures>>

-----------------------------------------------------------------------------
(* Delivering and compacting.                                              *)

MarkDelivered(id) ==
  /\ running /\ removed = None
  /\ id \in Present({"ready"})
  /\ file' = [file EXCEPT ![id].life = "delivered"]
  /\ UNCHANGED <<volatile, ghosts, failures>>

\* compact_delivered: the file.
CompactRemove(id) ==
  /\ running /\ removed = None
  /\ id \in Present({"delivered"})
  /\ removed' = file[id]
  /\ file' = [file EXCEPT ![id] = None]
  /\ UNCHANGED <<running, account, writer, ghosts, failures>>

Drifts(i, bytes) == drift' = [drift EXCEPT ![i] = @ + bytes]

\* compact_delivered: the account, which refuses what it does not hold.
CompactAccount ==
  /\ removed # None
  /\ \/ /\ Removable(account, removed.input, removed.bytes)
        /\ account' = Discharge(account, removed.input, removed.bytes)
        /\ UNCHANGED drift
     \/ /\ ~Removable(account, removed.input, removed.bytes)
        /\ Drifts(removed.input, removed.bytes)
        /\ UNCHANGED account
  /\ removed' = None
  /\ UNCHANGED <<file, running, writer, leaked, failures>>

\* compact_delivered: the sync fails, and the error return skips the account.
CompactUnsynced ==
  /\ removed # None /\ Fail
  /\ Drifts(removed.input, removed.bytes)
  /\ removed' = None
  /\ UNCHANGED <<file, running, account, writer, leaked>>

Next ==
  \/ Open
  \/ Crash
  \/ \E w \in Worker :
       \/ \E i \in InputKey : Reserve(w, i)
       \/ CreateOpen(w)
       \/ CreateFails(w)
       \/ AppendEvent(w)
       \/ SealRename(w)
       \/ Publish(w)
       \/ RemoveOpen(w)
       \/ RemoveFails(w)
       \/ Release(w)
  \/ \E id \in SegmentId : MarkDelivered(id) \/ CompactRemove(id)
  \/ CompactAccount
  \/ CompactUnsynced

Spec == Init /\ [][Next]_vars

-----------------------------------------------------------------------------
(* Properties.                                                             *)

\* The types of the variables; a writer that has a file has an .open or a published one.
TypeOK ==
  /\ file \in [SegmentId -> File \cup {None}]
  /\ running \in BOOLEAN
  /\ account \in [stored: Nat, reserved: Nat, storedBy: [InputKey -> Nat],
                  reservedBy: [InputKey -> Nat]]
  /\ writer \in [Worker -> Writer \cup {None}]
  /\ removed \in File \cup {None}
  /\ leaked \subseteq SegmentId
  /\ drift \in [InputKey -> Nat]
  /\ failures \in 0 .. MaxFailures
  /\ \A w \in Worker : InPhase(w, "writing") => writer[w].id \in Present({"open"})

WritersOf(i) == {w \in Worker : IF writer[w] = None THEN FALSE ELSE writer[w].input = i}

\* Every reservation belongs to exactly one living writer, in the input's account and in the
\* global one: begin_segment, seal, abort and Drop never release one twice, keep one that was
\* published, or take that of another worker.
ReservationsMatchWriters ==
  /\ \A i \in InputKey : account.reservedBy[i] = SegmentLimit * Cardinality(WritersOf(i))
  /\ account.reserved = SumFunction(account.reservedBy)

Counted(i) == Of(i, Present(Life) \ leaked)

\* The stored and reserved bytes of an input never fall below what its files take on disk, in any
\* interleaving of sealing, publishing and compacting, files that could not be removed excepted:
\* this is what makes the check in reserve sound.
AccountCovers ==
  running => \A i \in InputKey :
               account.storedBy[i] + account.reservedBy[i] >= BytesOf(Counted(i))

\* With no writer and no compaction under way, the account is what the disk holds, plus the bytes
\* whose removal could not be recorded (compact_delivered), less the leftovers no one counts.
AccountExact ==
  (running /\ writer = NoWriters /\ removed = None) =>
     /\ \A i \in InputKey :
          LET counted == Of(i, Present(Life) \ (leaked \cap Present({"open"}))) IN
          account.storedBy[i] = BytesOf(counted) + drift[i]
     /\ account.stored = SumFunction(account.storedBy)

\* SpoolLimits: the files of an input and of all inputs stay within their quotas, crashes,
\* restarts and quarantine included, files that could not be removed excepted.
QuotaHolds ==
  /\ \A i \in InputKey : BytesOf(Counted(i)) <= InputLimit
  /\ BytesOf(Present(Life) \ leaked) <= GlobalLimit

\* The byte account and the disk agree, in every interleaving of writers, consumer, failures and
\* restarts: reservations are those of living writers, the account covers the files, is exact when
\* nothing is under way, and keeps them within the quotas.
AccountingHolds ==
  TypeOK /\ ReservationsMatchWriters /\ AccountCovers /\ AccountExact /\ QuotaHolds

\* What was sealed is never lost or altered: no step touches a ready segment but to mark it
\* delivered, none but a compaction removes a delivered one, and startup neither promotes an
\* incomplete segment nor deletes one.
Kept(id) == file'[id] = file[id]
SealedSurvives == [][
  \A id \in SegmentId :
     /\ id \in Present({"ready"}) =>
          Kept(id) \/ (running /\ file'[id] = [file[id] EXCEPT !.life = "delivered"])
     /\ id \in Present({"delivered"}) => Kept(id) \/ (file'[id] = None /\ removed' = file[id])
     /\ id \in Present({"quarantine"}) => Kept(id)
     /\ id \in Present({"open"}) /\ ~running =>
          Kept(id) \/ file'[id] = [file[id] EXCEPT !.life = "quarantine"] ]_vars

=============================================================================
