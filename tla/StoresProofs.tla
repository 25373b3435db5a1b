---------------------------- MODULE StoresProofs ----------------------------
(***************************************************************************)
(* Proofs about the checkpoint store, for every set of handles, every      *)
(* value and every revision limit.  The writer lock is what makes compare- *)
(* and-swap sound: while a handle is between its two writes, the envelope  *)
(* it verified is still the current one, and it is the one its caller had  *)
(* seen.  At the end, what is proved of each store holds when both are     *)
(* used.                                                                   *)
(***************************************************************************)
EXTENDS Stores, TLAPS

USE ValueAssumption, RevisionAssumption, StoreNoneAssumption

Written == [envelope: Envelope, seen: Envelope \cup {None}]
Latest == IF installed = <<>> THEN None ELSE installed[Len(installed)].envelope

\* Types, with what a write under way holds.
StoreTypes ==
  /\ TypeOK
  /\ operation \in [Handle -> Operation \cup {None}]
  /\ installed \in Seq(Written)
  /\ crashes \in Nat

\* The history and the files: nothing is known before the first envelope was written.
HistorySound ==
  /\ current = Latest
  /\ \A h \in Handle : known[h] # None => installed # <<>>
  /\ NoLostUpdate
  /\ BackupIsRecent

\* A write under way: its caller has seen the current envelope, the next revision follows it, and
\* the backup is the current envelope before it is replaced.
WriteSound(h) ==
  ~Free(h) =>
    /\ known[h] = current /\ operation[h].base = current
    /\ operation[h].next.revision = IF current = None THEN 1 ELSE current.revision + 1
    /\ current = None => operation[h].phase = "current"
    /\ current # None /\ operation[h].phase = "current" => previous = current

\* The inductive invariant.
StoreInv ==
  /\ StoreTypes
  /\ HistorySound
  /\ \A h \in Handle : WriteSound(h)
  /\ InventoryAgreesWithLoad

(* A store that was never written.                                         *)
LEMMA StoreInit == Init => StoreInv
<1> SUFFICES ASSUME Init PROVE StoreInv
  OBVIOUS
<1>1. StoreTypes
  <2>1. \A h \in Handle : lock = h <=> ~Free(h)
    BY DEF Init, Free
  <2>2. installed \in Seq(Written) /\ crashes \in Nat
    BY DEF Init
  <2>3. directory \in BOOLEAN
    BY DEF Init
  <2> QED BY <2>1, <2>2, <2>3 DEF Init, StoreTypes, TypeOK
<1>2. HistorySound
  <2>1. NoLostUpdate
    BY DEF Init, NoLostUpdate
  <2>2. BackupIsRecent
    <3>1. Len(installed) = 0
      BY DEF Init
    <3> QED BY <3>1 DEF Init, BackupIsRecent
  <2> QED BY <2>1, <2>2 DEF Init, HistorySound, Latest
<1> QED BY <1>1, <1>2 DEF Init, StoreInv, WriteSound, Free, InventoryAgreesWithLoad

(* Only the lock's owner is writing.                                       *)
LEMMA OneWriter ==
  ASSUME StoreInv, NEW h \in Handle, ~Free(h), NEW g \in Handle, g # h
  PROVE  Free(g)
BY DEF StoreInv, StoreTypes, TypeOK

(* A write begins under the free lock.                                     *)
LEMMA BeginKeepsInv ==
  ASSUME StoreInv, NEW h \in Handle, lock = None, known[h] = current,
         NEW phase \in {"previous", "current"}, NEW next \in Envelope,
         Begin(h, phase, current, next), directory' \in BOOLEAN,
         next.revision = IF current = None THEN 1 ELSE current.revision + 1,
         phase = IF current = None THEN "current" ELSE "previous"
  PROVE  StoreInv'
<1>1. \A g \in Handle : Free(g)
  BY DEF StoreInv, StoreTypes, TypeOK
<1> DEFINE op == [phase |-> phase, base |-> current, next |-> next]
<1>2. op \in Operation /\ op # None
  BY DEF Operation, StoreInv, StoreTypes, TypeOK
<1>3. \A g \in Handle : operation'[g] = IF g = h THEN op ELSE None
  BY <1>1 DEF Begin, StoreInv, StoreTypes, Free
<1>4. StoreTypes'
  BY <1>2, <1>3 DEF Begin, StoreInv, StoreTypes, TypeOK, Free
<1>5. HistorySound'
  BY DEF Begin, StoreInv, HistorySound, Latest, NoLostUpdate, BackupIsRecent
<1>6. \A g \in Handle : WriteSound(g)'
  BY <1>2, <1>3 DEF Begin, WriteSound, Free
<1>7. InventoryAgreesWithLoad'
  BY DEF Begin, InventoryAgreesWithLoad
<1> QED BY <1>4, <1>5, <1>6, <1>7 DEF StoreInv

(* The second write: the history grows by the envelope that followed the   *)
(* one its writer had seen.                                                *)
LEMMA InstallKeepsInv ==
  ASSUME StoreInv, NEW h \in Handle, Install(h), crashes' \in Nat,
         known' \in [Handle -> Envelope \cup {None}]
  PROVE  StoreInv' /\ current' # None /\ (current # None => current'.revision > current.revision)
<1> DEFINE next == operation[h].next
           entry == [envelope |-> next, seen |-> known[h]]
           n == Len(installed)
<1>1. ~Free(h) /\ operation[h] \in Operation /\ operation[h].phase = "current" /\ next \in Envelope
  BY DEF Install, InPhase, StoreInv, StoreTypes, Operation, Free
<1>2. /\ current' = next /\ installed' = Append(installed, entry) /\ previous' = previous
      /\ directory' = directory /\ lock' = None
  BY DEF Install, Finish
<1>3. \A g \in Handle : operation'[g] = None
  BY <1>1, OneWriter DEF Install, Finish, StoreInv, StoreTypes, Free
<1>4. entry \in Written
  BY <1>1 DEF Written, StoreInv, StoreTypes, TypeOK
<1>5. /\ n \in Nat /\ Len(installed') = n + 1 /\ installed'[n + 1] = entry
      /\ DOMAIN installed = 1 .. n /\ DOMAIN installed' = 1 .. (n + 1)
      /\ \A i \in 1 .. n : installed'[i] = installed[i]
      /\ installed' \in Seq(Written) /\ installed' # <<>>
      /\ installed = <<>> <=> n = 0
  BY <1>2, <1>4 DEF StoreInv, StoreTypes
<1>6. StoreTypes'
  BY <1>1, <1>2, <1>3, <1>5 DEF StoreInv, StoreTypes, TypeOK, Free, Install, Finish
<1>7. known[h] = current /\ current = Latest
  BY <1>1 DEF StoreInv, WriteSound, HistorySound
<1>8. HistorySound'
  <2>1. current' = Latest'
    BY <1>2, <1>5 DEF Latest
  <2>2. NoLostUpdate'
    <3> SUFFICES ASSUME NEW i \in DOMAIN installed'
                 PROVE  installed'[i].seen = IF i = 1 THEN None ELSE installed'[i - 1].envelope
      BY DEF NoLostUpdate
    <3>1. CASE i \in 1 .. n
      BY <1>5, <3>1 DEF StoreInv, HistorySound, NoLostUpdate
    <3>2. CASE i = n + 1
      BY <1>5, <1>7, <3>2 DEF Latest
    <3> QED BY <1>5, <3>1, <3>2
  <2>3. BackupIsRecent'
    <3>1. CASE n = 0
      BY <1>2, <1>5, <1>7, <3>1 DEF BackupIsRecent, StoreInv, HistorySound, Latest
    <3>2. CASE n # 0
      <4>0. n \in 1 .. n /\ installed[n] \in Written /\ installed # <<>>
        BY <1>5, <3>2 DEF StoreInv, StoreTypes
      <4>1. current # None /\ current = installed[n].envelope
        BY <1>7, <4>0 DEF Latest, Written
      <4>2. previous = current
        BY <1>1, <4>1 DEF StoreInv, WriteSound
      <4>3. Len(installed') > 1 /\ installed'[Len(installed') - 1] = installed[n]
        BY <1>5, <3>2
      <4> QED BY <1>2, <4>1, <4>2, <4>3 DEF BackupIsRecent
    <3> QED BY <3>1, <3>2
  <2> QED BY <1>5, <2>1, <2>2, <2>3 DEF HistorySound
<1>9. \A g \in Handle : WriteSound(g)'
  BY <1>3 DEF WriteSound, Free
<1>10. InventoryAgreesWithLoad' /\ current' # None
  BY <1>1, <1>2 DEF InventoryAgreesWithLoad
<1>11. current # None => current'.revision > current.revision
  BY <1>1, <1>2 DEF StoreInv, WriteSound, StoreTypes, TypeOK, Envelope, Revision
<1> QED BY <1>6, <1>8, <1>9, <1>10, <1>11 DEF StoreInv

(* No step but a write of the current envelope changes the files' history; *)
(* each other step is looked at for what it does to the write under way.   *)
LEMMA NextKeepsInv == ASSUME StoreInv, Next PROVE StoreInv'
<1>1. ASSUME NEW h \in Handle, Load(h) PROVE StoreInv'
  <2>1. current \in Envelope \cup {None}
    BY DEF StoreInv, StoreTypes, TypeOK
  <2>2. StoreTypes'
    BY <1>1, <2>1 DEF Load, files, StoreInv, StoreTypes, TypeOK, Free
  <2>3. HistorySound'
    <3>1. current # None => installed # <<>>
      BY DEF StoreInv, HistorySound, Latest
    <3>2. \A g \in Handle : known'[g] # None => installed # <<>>
      BY <1>1, <3>1 DEF Load, StoreInv, HistorySound, StoreTypes, TypeOK
    <3> QED BY <1>1, <3>2 DEF Load, files, StoreInv, HistorySound, Latest, NoLostUpdate, BackupIsRecent
  <2>4. \A g \in Handle : WriteSound(g)'
    BY <1>1 DEF Load, files, StoreInv, StoreTypes, TypeOK, WriteSound, Free
  <2> QED BY <1>1, <2>2, <2>3, <2>4 DEF Load, files, StoreInv, InventoryAgreesWithLoad
<1>2. ASSUME NEW h \in Handle, BeginCreate(h) PROVE StoreInv'
  <2>1. PICK v \in FirstValue : Begin(h, "current", None, [revision |-> 1, value |-> v])
    BY <1>2 DEF BeginCreate
  <2>2. [revision |-> 1, value |-> v] \in Envelope
    BY DEF Envelope, Revision
  <2>3. installed = <<>>
    <3>1. ASSUME installed # <<>> PROVE FALSE
      <4>1. Len(installed) \in DOMAIN installed /\ installed[Len(installed)] \in Written
        BY <3>1 DEF StoreInv, StoreTypes
      <4> QED BY <1>2, <3>1, <4>1 DEF BeginCreate, StoreInv, HistorySound, Latest, Written
    <3> QED BY <3>1
  <2>4. known[h] = current
    BY <1>2, <2>3 DEF BeginCreate, StoreInv, HistorySound
  <2> QED BY <1>2, <2>1, <2>2, <2>4, BeginKeepsInv DEF BeginCreate
<1>3. ASSUME NEW h \in Handle, NEW changes \in {Ordinary, Activation}, BeginReplace(h, changes)
      PROVE  StoreInv'
  <2>1. current \in Envelope /\ known[h] = current /\ current # None
    BY <1>3 DEF BeginReplace, Expected, StoreInv, StoreTypes, TypeOK
  <2>2. PICK v \in Value : Begin(h, "previous", current, [revision |-> current.revision + 1, value |-> v])
    BY <1>3 DEF BeginReplace
  <2>3. [revision |-> current.revision + 1, value |-> v] \in Envelope
    BY <1>3, <2>1 DEF BeginReplace, Envelope, Revision
  <2> QED BY <1>3, <2>1, <2>2, <2>3, BeginKeepsInv DEF BeginReplace, StoreInv, StoreTypes, TypeOK
<1>4. ASSUME NEW h \in Handle, BeginRestore(h) PROVE StoreInv'
  <2> DEFINE restored == [revision |-> current.revision + 1, value |-> previous.value]
  <2>1. current \in Envelope /\ known[h] = current /\ current # None /\ previous \in Envelope
    BY <1>4 DEF BeginRestore, Expected, StoreInv, StoreTypes, TypeOK
  <2>2. restored \in Envelope
    BY <1>4, <2>1 DEF BeginRestore, Envelope, Revision
  <2> QED BY <1>4, <2>1, <2>2, BeginKeepsInv DEF BeginRestore, StoreInv, StoreTypes, TypeOK
<1>5. ASSUME NEW h \in Handle, WritePrevious(h) PROVE StoreInv'
  <2>1. ~Free(h) /\ operation[h] \in Operation /\ operation[h].phase = "previous"
    BY <1>5 DEF WritePrevious, InPhase, StoreInv, StoreTypes, Free
  <2>2. operation[h].base = current /\ current # None
    BY <2>1 DEF StoreInv, WriteSound
  <2> DEFINE op == [operation[h] EXCEPT !.phase = "current"]
  <2>3. op \in Operation /\ op # None /\ op.phase = "current" /\ op.base = operation[h].base
        /\ op.next = operation[h].next
    BY <2>1 DEF Operation
  <2>4. \A g \in Handle : operation'[g] = IF g = h THEN op ELSE None
    BY <1>5, <2>1, OneWriter DEF WritePrevious, StoreInv, StoreTypes, Free
  <2>5. previous' = current /\ UNCHANGED <<directory, current, lock, known, installed, crashes>>
    BY <1>5, <2>2 DEF WritePrevious
  <2>6. StoreTypes'
    BY <1>5, <2>1, <2>3, <2>4, <2>5, OneWriter DEF WritePrevious, StoreInv, StoreTypes, TypeOK, Free
  <2>7. HistorySound'
    <3>1. installed # <<>> /\ current = installed[Len(installed)].envelope
      BY <2>2 DEF StoreInv, HistorySound, Latest
    <3> QED BY <2>5, <3>1 DEF StoreInv, HistorySound, Latest, NoLostUpdate, BackupIsRecent
  <2>8. \A g \in Handle : WriteSound(g)'
    BY <2>1, <2>3, <2>4, <2>5 DEF StoreInv, WriteSound, Free
  <2> QED BY <2>5, <2>6, <2>7, <2>8 DEF StoreInv, InventoryAgreesWithLoad
<1>6. ASSUME NEW h \in Handle, WriteCurrent(h) PROVE StoreInv'
  <2>1. Install(h) /\ crashes' \in Nat
    BY <1>6 DEF WriteCurrent, StoreInv, StoreTypes
  <2>2. operation[h].next \in Envelope
    BY <2>1 DEF Install, InPhase, StoreInv, StoreTypes, Operation, Free
  <2>3. known' \in [Handle -> Envelope \cup {None}]
    BY <1>6, <2>2 DEF WriteCurrent, StoreInv, StoreTypes, TypeOK
  <2> QED BY <2>1, <2>3, InstallKeepsInv
<1>7. ASSUME NEW h \in Handle, WriteCurrentUnsynced(h) PROVE StoreInv'
  BY <1>7, InstallKeepsInv DEF WriteCurrentUnsynced, StoreInv, StoreTypes, TypeOK
<1>8. ASSUME NEW h \in Handle, FailWrite(h) PROVE StoreInv'
  <2>1. \A g \in Handle : operation'[g] = None
    BY <1>8, OneWriter DEF FailWrite, Finish, StoreInv, StoreTypes, Free
  <2>2. StoreTypes'
    BY <1>8, <2>1 DEF FailWrite, Finish, files, StoreInv, StoreTypes, TypeOK, Free
  <2>3. HistorySound'
    BY <1>8 DEF FailWrite, files, StoreInv, HistorySound, Latest, NoLostUpdate, BackupIsRecent
  <2>4. \A g \in Handle : WriteSound(g)'
    BY <2>1 DEF WriteSound, Free
  <2> QED BY <1>8, <2>2, <2>3, <2>4
          DEF FailWrite, StoreInv, StoreTypes, InventoryAgreesWithLoad
<1>9. ASSUME NEW h \in Handle, Crash(h) PROVE StoreInv'
  <2>1. \A g \in Handle : operation'[g] = IF g = h THEN None ELSE operation[g]
    BY <1>9 DEF Crash, StoreInv, StoreTypes
  <2>2. \A g \in Handle : known'[g] = IF g = h THEN None ELSE known[g]
    BY <1>9 DEF Crash, StoreInv, StoreTypes, TypeOK
  <2>3. StoreTypes'
    <3>1. \A g \in Handle : lock' = g <=> ~Free(g)'
      BY <1>9, <2>1 DEF Crash, StoreInv, StoreTypes, TypeOK, Free
    <3> QED BY <1>9, <2>1, <3>1 DEF Crash, files, StoreInv, StoreTypes, TypeOK
  <2>4. HistorySound'
    BY <1>9, <2>2 DEF Crash, files, StoreInv, HistorySound, Latest, NoLostUpdate, BackupIsRecent
  <2>5. \A g \in Handle : WriteSound(g)'
    BY <1>9, <2>1, <2>2 DEF Crash, files, StoreInv, WriteSound, Free
  <2> QED BY <1>9, <2>3, <2>4, <2>5
          DEF Crash, StoreInv, StoreTypes, InventoryAgreesWithLoad
<1> QED BY <1>1, <1>2, <1>3, <1>4, <1>5, <1>6, <1>7, <1>8, <1>9 DEF Next

LEMMA StoreInvariant == Spec => []StoreInv
<1>1. StoreInv /\ [Next]_vars => StoreInv'
  <2>1. ASSUME StoreInv, UNCHANGED vars PROVE StoreInv'
    BY <2>1 DEF vars, files, StoreInv, StoreTypes, TypeOK, HistorySound, Latest, NoLostUpdate,
                BackupIsRecent, WriteSound, InventoryAgreesWithLoad, Free
  <2> QED BY <2>1, NextKeepsInv
<1> QED BY <1>1, StoreInit, PTL DEF Spec

(* compare_exchange, activate_configuration and restore_previous lose no   *)
(* update, however many handles race, crash and retry.                     *)
THEOREM NoUpdateIsLost == Spec => []NoLostUpdate
<1>1. StoreInv => NoLostUpdate
  BY DEF StoreInv, HistorySound
<1> QED BY <1>1, StoreInvariant, PTL

(* The files are sound in every state a crash or a failed write can leave. *)
THEOREM FilesStaySound == Spec => []FilesAreSound
<1>1. StoreInv => FilesAreSound
  BY DEF StoreInv, StoreTypes, HistorySound, FilesAreSound
<1> QED BY <1>1, StoreInvariant, PTL

(* The current envelope never disappears, and its revision only grows.     *)
THEOREM RevisionsGrow == Spec => RevisionGrows
<1> DEFINE Step == current # None => current' # None /\ (current' = current \/ current'.revision > current.revision)
<1>1. StoreInv /\ [Next]_vars => [Step]_vars
  <2> SUFFICES ASSUME StoreInv, Next PROVE Step
    OBVIOUS
  <2>1. ASSUME NEW h \in Handle, Install(h), crashes' \in Nat,
               known' \in [Handle -> Envelope \cup {None}]
        PROVE  Step
    BY <2>1, InstallKeepsInv
  <2>2. ASSUME NEW h \in Handle, WriteCurrent(h) PROVE Step
    <3>1. operation[h].next \in Envelope
      BY <2>2 DEF WriteCurrent, Install, InPhase, StoreInv, StoreTypes, Operation, Free
    <3> QED BY <2>1, <2>2, <3>1 DEF WriteCurrent, StoreInv, StoreTypes, TypeOK
  <2>3. ASSUME NEW h \in Handle, WriteCurrentUnsynced(h) PROVE Step
    BY <2>1, <2>3 DEF WriteCurrentUnsynced, StoreInv, StoreTypes, TypeOK
  <2>4. ASSUME current' = current PROVE Step
    BY <2>4
  <2> QED BY <2>2, <2>3, <2>4
          DEF Next, Load, BeginCreate, BeginReplace, BeginRestore, Begin, WritePrevious, FailWrite,
              Crash, files
<1>2. Spec => [][Step]_vars
  BY <1>1, StoreInvariant, PTL DEF Spec
<1> QED BY <1>2, PTL DEF RevisionGrows

-----------------------------------------------------------------------------
(* Both stores.                                                            *)

(* Of two stores that share no file and no lock, each behaves as it does   *)
(* alone.                                                                  *)
LEMMA EachStoreAlone == StoresSpec => Spec /\ D!Spec
<1>1. StoresInit => Init /\ D!Init
  BY DEF StoresInit
<1>2. [StoresNext]_<<part, vars, credentials>> => [Next]_vars
  BY DEF StoresNext, Checkpoints, Credentials
<1>3. [StoresNext]_<<part, vars, credentials>> => [D!Next]_D!vars
  BY DEF StoresNext, Checkpoints, Credentials, credentials, D!vars, D!durable, D!observed
<1> QED BY <1>1, <1>2, <1>3, PTL DEF StoresSpec, Spec, D!Spec

(* Deployed credentials, whatever is installed and whenever a process dies *)
(* (reconcile_deployment_files, import_deployed_secret): no receipt        *)
(* vouches for a secret that is not there, no revision is rolled back, no  *)
(* conflict is reported without a cause, and all hold one key.             *)
THEOREM CredentialsStaySound == StoresSpec => []ImportsAreSound
<1>1. D!Spec => []D!ImportsAreSound
  BY CredentialsAssumption, D!ImportsStaySound
<1>2. D!ImportsAreSound => ImportsAreSound
  BY DEF ImportsAreSound
<1> QED BY <1>1, <1>2, EachStoreAlone, PTL

=============================================================================
