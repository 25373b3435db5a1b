----------------------------- MODULE StateStore -----------------------------
(***************************************************************************)
(* FileCheckpointStore of crates/dbx-rs-state/src/store.rs for one input:  *)
(* a current envelope, one previous envelope, a writer lock, and compare-  *)
(* and-swap by token.  Several handles, in one process or in several, work *)
(* on the same directory; a handle may crash between any two durable       *)
(* effects, and a write may fail before or after it took effect.           *)
(*                                                                         *)
(* Simplifications: a value is opaque, and Ordinary and Activation are the *)
(* value changes compare_exchange and activate_configuration accept        *)
(* (module ScanState gives the real ones).  An envelope is its revision    *)
(* and value, which its token (revision and payload digest) identifies.    *)
(* atomic_write takes effect at its rename; staging files are not seen.    *)
(* Corrupt envelopes and unsafe paths, which fail closed, are left out.    *)
(***************************************************************************)
EXTENDS Naturals, Sequences

CONSTANTS
  Handle,       \* open store handles
  Value,        \* durable input states
  FirstValue,   \* the states create is called with
  Ordinary,     \* pairs of states compare_exchange accepts
  Activation,   \* pairs of states activate_configuration makes
  MaxRevision,  \* u64::MAX, scaled down
  MaxCrashes,   \* bound: crashes and failed writes
  None          \* the absent envelope, lock owner or operation

Revision == 1 .. MaxRevision
Envelope == [revision: Revision, value: Value]
Operation == [phase: {"previous", "current"}, base: Envelope \cup {None}, next: Envelope]

ASSUME ValueAssumption ==
  FirstValue \subseteq Value /\ Ordinary \subseteq Value \X Value /\ Activation \subseteq Value \X Value
ASSUME RevisionAssumption == MaxRevision \in Nat \ {0}
ASSUME StoreNoneAssumption == None \notin Envelope /\ None \notin Handle /\ None \notin Operation

VARIABLES
  directory,  \* whether the input's directory exists
  current,    \* checkpoint.dbx
  previous,   \* checkpoint.dbx.prev
  lock,       \* the owner of the writer lock file
  operation,  \* per handle: the write it is in the middle of
  known,      \* per handle: the stored state its caller last saw, and builds on
  installed,  \* every envelope ever current, and the one its writer had seen
  crashes
files == <<directory, current, previous>>
vars == <<files, lock, operation, known, installed, crashes>>

Init ==
  /\ directory = FALSE /\ current = None /\ previous = None
  /\ lock = None
  /\ operation = [h \in Handle |-> None]
  /\ known = [h \in Handle |-> None]
  /\ installed = <<>>
  /\ crashes = 0

Free(h) == operation[h] = None

-----------------------------------------------------------------------------
\* load: one read of the current envelope, without the writer lock.
Load(h) ==
  /\ Free(h)
  /\ known' = [known EXCEPT ![h] = current]
  /\ UNCHANGED <<files, lock, operation, installed, crashes>>

\* A handle that holds the lock starts writing: the backup first, then the current envelope.
Begin(h, phase, base, next) ==
  /\ lock' = h
  /\ operation' = [operation EXCEPT ![h] = [phase |-> phase, base |-> base, next |-> next]]
  /\ UNCHANGED <<current, previous, known, installed, crashes>>

\* create: the directory is made before the files are looked at.
BeginCreate(h) ==
  /\ Free(h) /\ lock = None
  /\ current = None /\ previous = None
  /\ directory' = TRUE
  /\ \E v \in FirstValue : Begin(h, "current", None, [revision |-> 1, value |-> v])

\* Mutant: the token is the digest alone.
ExpectedDigest(h) == known[h] # None /\ current # None /\ known[h].value = current.value

\* verify_expected
Expected(h) == known[h] # None /\ known[h] = current

\* compare_exchange and activate_configuration
BeginReplace(h, changes) ==
  /\ Free(h) /\ lock = None
  /\ Expected(h)
  /\ current.revision < MaxRevision
  /\ \E v \in Value :
       /\ <<current.value, v>> \in changes
       /\ Begin(h, "previous", current, [revision |-> current.revision + 1, value |-> v])
  /\ UNCHANGED directory

\* Mutant: the restored payload keeps the revision it had.
BeginRestoreOldRevision(h) ==
  /\ Free(h) /\ lock = None
  /\ Expected(h)
  /\ previous # None
  /\ current.revision < MaxRevision
  /\ Begin(h, "previous", current, previous)
  /\ UNCHANGED directory

\* restore_previous: the previous payload under a new revision.
BeginRestore(h) ==
  /\ Free(h) /\ lock = None
  /\ Expected(h)
  /\ previous # None
  /\ current.revision < MaxRevision
  /\ Begin(h, "previous", current, [revision |-> current.revision + 1, value |-> previous.value])
  /\ UNCHANGED directory

-----------------------------------------------------------------------------
InPhase(h, phase) == ~Free(h) /\ operation[h].phase = phase

\* Mutant: the backup is not written.
WritePreviousSkipped(h) ==
  /\ InPhase(h, "previous")
  /\ operation' = [operation EXCEPT ![h].phase = "current"]
  /\ UNCHANGED <<files, lock, known, installed, crashes>>

\* replace_current_unlocked's first atomic_write
WritePrevious(h) ==
  /\ InPhase(h, "previous")
  /\ previous' = operation[h].base
  /\ operation' = [operation EXCEPT ![h].phase = "current"]
  /\ UNCHANGED <<directory, current, lock, known, installed, crashes>>

\* The operation ends and its locks are dropped.
Finish(h) ==
  /\ lock' = None
  /\ operation' = [operation EXCEPT ![h] = None]

Install(h) ==
  /\ InPhase(h, "current")
  /\ current' = operation[h].next
  /\ installed' = Append(installed, [envelope |-> operation[h].next, seen |-> known[h]])
  /\ Finish(h)
  /\ UNCHANGED <<directory, previous>>

\* The second atomic_write; the caller gets the stored state back.
WriteCurrent(h) ==
  /\ Install(h)
  /\ known' = [known EXCEPT ![h] = operation[h].next]
  /\ UNCHANGED crashes

\* The rename took effect and the directory sync after it failed: the caller gets an error and
\* keeps the token it had.
WriteCurrentUnsynced(h) ==
  /\ crashes < MaxCrashes
  /\ crashes' = crashes + 1
  /\ Install(h)
  /\ UNCHANGED known

\* A write fails, and the operation returns its error: the lock goes, the token stays.
FailWrite(h) ==
  /\ ~Free(h)
  /\ crashes < MaxCrashes
  /\ crashes' = crashes + 1
  /\ Finish(h)
  /\ UNCHANGED <<files, known, installed>>

\* The handle's process dies; the system releases its file lock.
Crash(h) ==
  /\ crashes < MaxCrashes
  /\ crashes' = crashes + 1
  /\ lock' = IF lock = h THEN None ELSE lock
  /\ operation' = [operation EXCEPT ![h] = None]
  /\ known' = [known EXCEPT ![h] = None]
  /\ UNCHANGED <<files, installed>>

Next ==
  \E h \in Handle :
    \/ Load(h) \/ BeginCreate(h)
    \/ BeginReplace(h, Ordinary) \/ BeginReplace(h, Activation) \/ BeginRestore(h)
    \/ WritePrevious(h) \/ WriteCurrent(h) \/ WriteCurrentUnsynced(h)
    \/ FailWrite(h) \/ Crash(h)

Spec == Init /\ [][Next]_vars

-----------------------------------------------------------------------------
(* Properties.                                                             *)

\* The files hold envelopes, and the lock's owner is the one handle that is writing.
TypeOK ==
  /\ directory \in BOOLEAN
  /\ current \in Envelope \cup {None} /\ previous \in Envelope \cup {None}
  /\ known \in [Handle -> Envelope \cup {None}]
  /\ \A h \in Handle : lock = h <=> ~Free(h)

\* No update is lost: every envelope was written by a caller that had seen exactly the one it
\* replaces, whichever handles raced, crashed, restored a backup or retried a failed write.
NoLostUpdate ==
  \A i \in DOMAIN installed :
    installed[i].seen = IF i = 1 THEN None ELSE installed[i - 1].envelope

\* A backup is always there to restore, and restoring it goes back one replacement or, after a
\* replacement that stopped between its two writes, none: never further.
BackupIsRecent ==
  LET n == Len(installed) IN
  IF n <= 1 THEN previous \in {None, current}
  ELSE previous \in {installed[n].envelope, installed[n - 1].envelope}

\* What input_ids, which the daemon calls at every start, accepts when no one is writing: a
\* directory has its current envelope, unless a create was stopped before its first write.
InventoryAgreesWithLoad == lock = None /\ directory /\ current = None => crashes > 0

\* The files of the input in every state a crash can leave behind: typed, with one writer at
\* most, accepted by the inventory, and with a backup that restore_previous can use.
FilesAreSound == TypeOK /\ InventoryAgreesWithLoad /\ BackupIsRecent

\* Once created, the current envelope never disappears, and every replacement, a restore
\* included, has a new revision: no token a caller ever held becomes current again.
RevisionGrows ==
  [][current # None => current' # None /\ (current' = current \/ current'.revision > current.revision)]_vars

=============================================================================
