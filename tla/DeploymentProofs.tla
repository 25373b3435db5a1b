--------------------------- MODULE DeploymentProofs ---------------------------
(***************************************************************************)
(* Proofs about deployed credentials, for every set of names, secrets and  *)
(* files, every version of the app and any number of crashes.  The import  *)
(* lock makes an import atomic for the other importer, not for a crash or  *)
(* for a secret set by hand; what an import leaves behind when it stops is *)
(* what the invariant below has to say.                                    *)
(***************************************************************************)
EXTENDS Deployment, TLAPS, WellFoundedInduction

\* What Deployment Server can have installed.
Sealed ==
  {[Seal(r) EXCEPT !.whole = ~r.cut] : r \in {q \in Requests : Seal(q) # None}} \ {None}

PC == {"exited", "keys", "writing", "ready", "set", "open", "read", "lock", "import", "write"}
Op == {"none", "run", "init", "set", "import"}
KeyList == {<<>>, <<"identity">>, <<"master">>, <<"identity", "master">>}
PlanList == {<<>>, <<"receipt">>, <<"secret", "receipt">>}
State == [pc: PC, op: Op, keys: KeyList, held: [KeyFile -> Process \cup {None}],
          listed: SUBSET Path, selected: [Name -> Sealed \cup {None}],
          policy: {"RequireAbsentOrMatching", "ReplaceExisting"}, plan: PlanList]

\* The types of the variables.
Types ==
  /\ directory \in [Path -> Sealed \cup {None}]
  /\ key \in [KeyFile -> Key \cup {None}]
  /\ secret \in [Name -> Secret \cup {None}]
  /\ receipt \in [Name -> Receipt \cup {None}]
  /\ importing \in Process \cup {None}
  /\ process \in [Process -> State]
  /\ origin \in [Name -> Sealed \cup {None}]
  /\ highest \in [Name -> Nat]

\* What a process holds where it is: keys to open, files to read, envelopes under their names.
Prepared(p) ==
  /\ \A n \in Name : process[p].selected[n] # None => process[p].selected[n].name = n
  /\ process[p].pc \in {"keys", "writing"} =>
       /\ process[p].keys # <<>> /\ process[p].op # "none"
       /\ process[p].op = "init" => process[p].keys = <<"identity">>
  /\ process[p].pc = "read" => process[p].listed # {}

\* The key file a process is writing is its own, and not yet whole.
WritingKey(p) ==
  At(p, "writing") => key[Head(process[p].keys)] = [by |-> p, whole |-> FALSE]

\* The import lock is held by the process that is importing.
Locked(p) == importing = p <=> process[p].pc \in {"import", "write"}

\* Between the two writes of an import: the envelope is no older than the receipt, and the secret
\* is its secret, unless someone sets another by hand.
Importing(p) ==
  At(p, "write") =>
    LET n == NextName(p) e == process[p].selected[n] IN
    /\ Left(p) # {} /\ process[p].plan # <<>>
    /\ receipt[n] # None => receipt[n].revision <= e.revision
    /\ process[p].plan = <<"receipt">> => /\ secret[n] # None
                                          /\ n \in byHand \/ secret[n] = e.secret

\* The secret of a name is written and its receipt is next.
Receipting(n) ==
  \E p \in Process : At(p, "write") /\ NextName(p) = n /\ process[p].plan = <<"receipt">>

\* What is stored for a name comes from the last import or from a hand; the receipt is that of the
\* last import, except between its two writes and after a crash there.
Stored(n) ==
  /\ origin[n] # None => secret[n] # None /\ (n \in byHand \/ secret[n] = origin[n].secret)
  /\ origin[n] = None /\ secret[n] # None => n \in byHand
  /\ receipt[n] # None => origin[n] # None /\ receipt[n].revision <= origin[n].revision
  /\ origin[n] # None /\ n \notin torn /\ ~Receipting(n) =>
       /\ receipt[n] # None
       /\ receipt[n].revision = origin[n].revision /\ receipt[n].digest = origin[n].digest
  /\ highest[n] = IF receipt[n] = None THEN 0 ELSE receipt[n].revision

\* The inductive invariant.
ImportInv ==
  /\ Types
  /\ \A p \in Process : Prepared(p) /\ WritingKey(p) /\ Locked(p) /\ Importing(p)
  /\ OneKey
  /\ \A n \in Name : Stored(n)
  /\ ConflictIsReal

-----------------------------------------------------------------------------
(* Numbers and envelopes.                                                  *)

(* Every set of numbers that is not empty has a least element.             *)
LEMMA LeastElement ==
  ASSUME NEW S, S \subseteq Nat, S # {}
  PROVE  \E x \in S : \A y \in S : x <= y
<1>1. IsWellFoundedOn(OpToRel(<, Nat), Nat)
  BY NatLessThanWellFounded
<1>2. PICK x \in S : \A y \in S : ~(<<y, x>> \in OpToRel(<, Nat))
  BY <1>1, WFMin
<1>3. \A y \in S : ~(y < x)
  BY <1>2 DEF OpToRel
<1> QED BY <1>3

(* Min is that element, Max the greater of two.                            *)
LEMMA MinIsIn ==
  ASSUME NEW S, S \subseteq Nat, S # {}
  PROVE  Min(S) \in S
BY LeastElement DEF Min

LEMMA MaxOfTwo ==
  ASSUME NEW a \in Nat, NEW b \in Nat, a <= b
  PROVE  Max({a, b}) = b
<1>1. \E x \in {a, b} : \A y \in {a, b} : x >= y
  OBVIOUS
<1>2. PICK x \in {a, b} : x = Max({a, b}) /\ \A y \in {a, b} : x >= y
  BY <1>1 DEF Max
<1> QED BY <1>2

(* What an envelope holds; two of one digest hold one secret.              *)
LEMMA EnvelopeFacts ==
  ASSUME ConstantsAreSound, NEW e \in Sealed
  PROVE  /\ e # None /\ e.name \in Name /\ e.revision \in Nat /\ e.revision > 0
         /\ e.secret \in Secret /\ e.secret # None /\ e.digest \in Digest
<1>1. PICK r \in Requests : Seal(r) # None /\ e = [Seal(r) EXCEPT !.whole = ~r.cut]
  BY DEF Sealed
<1>2. /\ r.name \in Name /\ r.revision \in Nat /\ r.nonce \in Digest
      /\ Trimmed(r.entered) \in Secret \cup {""} /\ None \notin Secret
  BY <1>1 DEF ConstantsAreSound
<1>3. /\ r.revision # 0 /\ Trimmed(r.entered) # ""
      /\ Seal(r).name = r.name /\ Seal(r).revision = r.revision /\ Seal(r).digest = r.nonce
      /\ Seal(r).secret = Trimmed(r.entered)
      /\ e.name = r.name /\ e.revision = r.revision /\ e.digest = r.nonce
      /\ e.secret = Trimmed(r.entered)
  BY <1>1 DEF Seal
<1>4. e # None
  BY DEF Sealed
<1>5. e.name \in Name /\ e.digest \in Digest
  BY <1>2, <1>3
<1>6. e.revision \in Nat /\ e.revision > 0
  <2>1. e.revision = r.revision /\ r.revision \in Nat /\ r.revision # 0
    BY <1>2, <1>3
  <2> QED BY <2>1
<1>7. e.secret \in Secret
  BY <1>2, <1>3
<1> QED BY <1>2, <1>4, <1>5, <1>6, <1>7

LEMMA DigestBinds ==
  ASSUME ConstantsAreSound, NEW d \in Sealed, NEW e \in Sealed, d.digest = e.digest
  PROVE  d.secret = e.secret
<1>1. PICK q \in Requests : Seal(q) # None /\ d = [Seal(q) EXCEPT !.whole = ~q.cut]
  BY DEF Sealed
<1>2. PICK r \in Requests : Seal(r) # None /\ e = [Seal(r) EXCEPT !.whole = ~r.cut]
  BY DEF Sealed
<1>3. d.digest = q.nonce /\ d.secret = Trimmed(q.entered)
  BY <1>1 DEF Seal
<1>4. e.digest = r.nonce /\ e.secret = Trimmed(r.entered)
  BY <1>2 DEF Seal
<1>5. q.nonce = r.nonce => Trimmed(q.entered) = Trimmed(r.entered)
  BY DEF ConstantsAreSound
<1> QED BY <1>3, <1>4, <1>5

(* The files of a version of the app are envelopes.                        *)
LEMMA FilesAreSealed ==
  ASSUME NEW app \in Apps
  PROVE  Files(app) \in [Path -> Sealed \cup {None}]
<1> SUFFICES ASSUME NEW f \in Path PROVE Files(app)[f] \in Sealed \cup {None}
  BY DEF Files
<1>1. CASE app[f] = None \/ Seal(app[f]) = None
  BY <1>1 DEF Files
<1>2. CASE app[f] # None /\ Seal(app[f]) # None
  <2>1. app[f] \in Requests
    BY <1>2 DEF Requests
  <2>2. Files(app)[f] = [Seal(app[f]) EXCEPT !.whole = ~app[f].cut]
    BY <1>2 DEF Files
  <2> QED BY <1>2, <2>1, <2>2 DEF Sealed
<1> QED BY <1>1, <1>2

(* A process with envelopes left has a next name.                          *)
LEMMA NextNameIsLeft ==
  ASSUME ConstantsAreSound, NEW p \in Process, Left(p) # {}
  PROVE  NextName(p) \in Name /\ process[p].selected[NextName(p)] # None
<1>1. Left(p) \subseteq Nat
  BY DEF Left, ConstantsAreSound
<1>2. NextName(p) \in Left(p)
  BY <1>1, MinIsIn DEF NextName
<1> QED BY <1>2 DEF Left

-----------------------------------------------------------------------------
(* The invariant at the start, and what follows from it.                   *)

LEMMA ExitedIsState == Exited \in State
BY DEF Exited, State, PC, Op, KeyList, PlanList, NoSelection

LEMMA ImportInit ==
  ASSUME ConstantsAreSound, Init
  PROVE  ImportInv
<1>1. Types
  <2>1. directory \in [Path -> Sealed \cup {None}]
    BY FilesAreSealed DEF Init
  <2>2. process \in [Process -> State]
    BY ExitedIsState DEF Init
  <2> QED BY <2>1, <2>2 DEF Init, Types
<1>2. \A p \in Process : process[p] = Exited
  BY DEF Init
<1>3. \A p \in Process : Prepared(p) /\ WritingKey(p) /\ Importing(p)
  BY <1>2 DEF Prepared, WritingKey, Importing, Exited, NoSelection, At
<1>4. \A p \in Process : Locked(p)
  BY <1>2 DEF Locked, Exited, Init, ConstantsAreSound
<1>5. OneKey
  BY <1>2 DEF OneKey, Exited
<1>6. \A n \in Name : Stored(n)
  BY DEF Init, Stored
<1>7. ConflictIsReal
  BY DEF Init, ConflictIsReal
<1> QED BY <1>1, <1>3, <1>4, <1>5, <1>6, <1>7 DEF ImportInv

(* The invariant says more than the property.                              *)
LEMMA ImportInvSuffices ==
  ASSUME ConstantsAreSound, ImportInv
  PROVE  ImportsAreSound
<1>1. TypeOK
  <2>1. \A f \in Path : directory[f] # None => directory[f] \in Sealed
    BY DEF ImportInv, Types
  <2>2. \A f \in Path : directory[f] # None => directory[f].name \in Name /\ directory[f].revision > 0
    BY <2>1, EnvelopeFacts
  <2> QED BY <2>2 DEF TypeOK, ImportInv, Types, Locked
<1>2. ReceiptVouches
  <2> SUFFICES ASSUME NEW n \in Name
               PROVE  /\ receipt[n] # None => secret[n] # None
                      /\ receipt[n] # None /\ origin[n] # None =>
                           /\ origin[n].revision >= receipt[n].revision
                           /\ n \notin byHand => secret[n] = origin[n].secret
    BY DEF ReceiptVouches
  <2>1. Stored(n)
    BY DEF ImportInv
  <2>2. receipt[n] # None => receipt[n].revision \in Nat
    BY DEF ImportInv, Types, Receipt
  <2>3. origin[n] # None => origin[n].revision \in Nat
    BY EnvelopeFacts DEF ImportInv, Types
  <2> QED BY <2>1, <2>2, <2>3 DEF Stored
<1>3. NeverRolledBack
  BY DEF ImportInv, Stored, NeverRolledBack
<1> QED BY <1>1, <1>2, <1>3 DEF ImportInv, ImportsAreSound

-----------------------------------------------------------------------------
(* Steps of one process.                                                   *)

(* A step of a process that is not importing, which leaves what is stored  *)
(* alone, keeps what is known of every name and of the other process.      *)
LEMMA OthersKept ==
  ASSUME ImportInv, NEW p \in Process,
         \A q \in Process \ {p} : process'[q] = process[q],
         UNCHANGED <<secret, receipt, origin, byHand, torn, highest>>
  PROVE  /\ \A q \in Process \ {p} : Prepared(q)' /\ Importing(q)'
         /\ ~At(p, "write") => \A n \in Name : Stored(n)'
<1>1. ASSUME NEW q \in Process \ {p} PROVE Prepared(q)'
  <2>1. Prepared(q) /\ process'[q] = process[q]
    BY DEF ImportInv
  <2> QED BY <2>1 DEF Prepared
<1>2. ASSUME NEW q \in Process \ {p} PROVE Importing(q)'
  <2>1. Importing(q) /\ process'[q] = process[q]
    BY DEF ImportInv
  <2> QED BY <2>1 DEF Importing, At, NextName, Left
<1>3. ASSUME ~At(p, "write"), NEW n \in Name PROVE Stored(n)'
  <2>1. Stored(n)
    BY DEF ImportInv
  <2>2. Receipting(n) => Receipting(n)'
    BY <1>3 DEF Receipting, At, NextName, Left
  <2> QED BY <2>1, <2>2 DEF Stored
<1> QED BY <1>1, <1>2, <1>3

(* A step of one process that is not between the two writes of an import,  *)
(* before or after, and stores nothing keeps the invariant if it keeps     *)
(* what is said of the keys and of the lock.                               *)
LEMMA LocalStep ==
  ASSUME ImportInv, NEW p \in Process, NEW s \in State,
         process' = [process EXCEPT ![p] = s],
         ~At(p, "write"), s.pc # "write",
         UNCHANGED <<directory, secret, receipt, origin, byHand, torn, highest>>,
         importing' \in Process \cup {None}, key' \in [KeyFile -> Key \cup {None}],
         Prepared(p)', \A q \in Process : Locked(q)', \A q \in Process : WritingKey(q)',
         OneKey', ConflictIsReal'
  PROVE  ImportInv'
<1>1. process \in [Process -> State]
  BY DEF ImportInv, Types
<1>2. process'[p] = s /\ \A q \in Process \ {p} : process'[q] = process[q]
  BY <1>1
<1>3. Types'
  <2>1. process' \in [Process -> State]
    BY <1>1
  <2> QED BY <2>1 DEF ImportInv, Types
<1>4. /\ \A q \in Process \ {p} : Prepared(q)' /\ Importing(q)'
      /\ \A n \in Name : Stored(n)'
  BY <1>2, OthersKept
<1>5. Importing(p)'
  BY <1>2 DEF Importing, At
<1> QED BY <1>3, <1>4, <1>5 DEF ImportInv

(* The same, when no key file changes either.                              *)
LEMMA QuietStep ==
  ASSUME ImportInv, NEW p \in Process, NEW s \in State,
         process' = [process EXCEPT ![p] = s],
         ~At(p, "write"), s.pc \notin {"writing", "write"},
         UNCHANGED <<durable, origin, byHand, torn, highest>>,
         importing' \in Process \cup {None},
         Prepared(p)', \A q \in Process : Locked(q)',
         \A k \in KeyFile : s.held[k] # None => key[k] = [by |-> s.held[k], whole |-> TRUE],
         ConflictIsReal'
  PROVE  ImportInv'
<1>1. process'[p] = s /\ \A q \in Process \ {p} : process'[q] = process[q]
  BY DEF ImportInv, Types
<1>2. key' \in [KeyFile -> Key \cup {None}]
  BY DEF ImportInv, Types, durable
<1>3. ASSUME NEW q \in Process PROVE WritingKey(q)'
  <2>1. CASE q = p
    BY <1>1, <2>1 DEF WritingKey, At
  <2>2. CASE q # p
    <3>1. WritingKey(q)
      BY DEF ImportInv
    <3> QED BY <1>1, <2>2, <3>1 DEF WritingKey, At, durable
  <2> QED BY <2>1, <2>2
<1>4. OneKey'
  <2> SUFFICES ASSUME NEW q \in Process, NEW k \in KeyFile, process'[q].held[k] # None
               PROVE  key'[k] = [by |-> process'[q].held[k], whole |-> TRUE]
    BY DEF OneKey
  <2>1. CASE q = p
    BY <1>1, <2>1 DEF durable
  <2>2. CASE q # p
    <3>1. OneKey
      BY DEF ImportInv
    <3> QED BY <1>1, <2>2, <3>1 DEF OneKey, durable
  <2> QED BY <2>1, <2>2
<1> QED BY <1>2, <1>3, <1>4, LocalStep DEF durable

(* The lock goes with the process that held it.                            *)
LEMMA ExitUnlocks ==
  ASSUME ConstantsAreSound, ImportInv, NEW p \in Process, Exit(p)
  PROVE  /\ importing' \in Process \cup {None}
         /\ \A q \in Process : Locked(q)'
         /\ Prepared(p)'
<1>1. process \in [Process -> State] /\ importing \in Process \cup {None}
  BY DEF ImportInv, Types
<1>2. process'[p] = Exited /\ \A q \in Process \ {p} : process'[q] = process[q]
  BY <1>1 DEF Exit
<1>3. importing' = IF importing = p THEN None ELSE importing
  BY DEF Exit
<1>4. importing' \in Process \cup {None} /\ None \notin Process
  BY <1>1, <1>3 DEF ConstantsAreSound
<1>5. ASSUME NEW q \in Process PROVE Locked(q)'
  <2>1. Locked(q)
    BY DEF ImportInv
  <2>2. CASE q = p
    BY <1>2, <1>3, <1>4, <2>2 DEF Locked, Exited
  <2>3. CASE q # p
    BY <1>2, <1>3, <1>4, <2>1, <2>3 DEF Locked
  <2> QED BY <2>2, <2>3
<1>6. Prepared(p)'
  BY <1>2 DEF Prepared, Exited, NoSelection
<1> QED BY <1>4, <1>5, <1>6

LEMMA ExitStep ==
  ASSUME ConstantsAreSound, ImportInv, NEW p \in Process, Exit(p), ~At(p, "write"),
         UNCHANGED <<durable, origin, byHand, torn, highest>>, ConflictIsReal'
  PROVE  ImportInv'
<1>1. process' = [process EXCEPT ![p] = Exited]
  BY DEF Exit
<1>2. Exited \in State /\ Exited.pc = "exited" /\ \A k \in KeyFile : Exited.held[k] = None
  BY ExitedIsState DEF Exited
<1>3. /\ importing' \in Process \cup {None}
      /\ \A q \in Process : Locked(q)'
      /\ Prepared(p)'
  BY ExitUnlocks
<1>4. /\ Exited.pc \notin {"writing", "write"}
      /\ \A k \in KeyFile : Exited.held[k] # None => key[k] = [by |-> Exited.held[k], whole |-> TRUE]
  BY <1>2
<1> QED BY <1>1, <1>2, <1>3, <1>4, QuietStep

-----------------------------------------------------------------------------
(* Installing, starting, choosing.                                         *)

(* Nothing but the files of the app changes, or nothing at all.            *)
LEMMA InstallKeepsInv ==
  ASSUME ImportInv, directory' \in [Path -> Sealed \cup {None}],
         UNCHANGED <<key, secret, receipt, importing, process, observed>>
  PROVE  ImportInv'
<1>1. Types'
  BY DEF ImportInv, Types, observed
<1>2. ASSUME NEW p \in Process PROVE (Prepared(p) /\ WritingKey(p) /\ Locked(p) /\ Importing(p))'
  <2>1. Prepared(p) /\ WritingKey(p) /\ Locked(p) /\ Importing(p)
    BY DEF ImportInv
  <2> QED BY <2>1 DEF Prepared, WritingKey, Locked, Importing, At, NextName, Left, observed
<1>3. ASSUME NEW n \in Name PROVE Stored(n)'
  <2>1. Stored(n)
    BY DEF ImportInv
  <2>2. Receipting(n)' <=> Receipting(n)
    BY DEF Receipting, At, NextName, Left
  <2> QED BY <2>1, <2>2 DEF Stored, observed
<1> QED BY <1>1, <1>2, <1>3 DEF ImportInv, OneKey, ConflictIsReal, observed

LEMMA BeginKeepsInv ==
  ASSUME ConstantsAreSound, ImportInv, NEW p \in Process, NEW op \in Op \ {"none"},
         NEW envelope \in Sealed \cup {None},
         NEW policy \in {"RequireAbsentOrMatching", "ReplaceExisting"},
         Begin(p, op, envelope, policy)
  PROVE  ImportInv'
<1> DEFINE chosen == IF envelope = None THEN NoSelection
                     ELSE [NoSelection EXCEPT ![envelope.name] = envelope]
           s == [Exited EXCEPT !.pc = "keys", !.op = op, !.keys = KeysOf[op], !.policy = policy,
                               !.selected = chosen]
<1>1. chosen \in [Name -> Sealed \cup {None}] /\ \A n \in Name : chosen[n] # None => chosen[n].name = n
  <2>1. CASE envelope = None
    BY <2>1 DEF NoSelection
  <2>2. CASE envelope # None
    <3>1. envelope \in Sealed /\ envelope.name \in Name
      BY <2>2, EnvelopeFacts
    <3> QED BY <2>2, <3>1 DEF NoSelection
  <2> QED BY <2>1, <2>2
<1>2. /\ KeysOf[op] \in KeyList /\ KeysOf[op] # <<>>
      /\ op = "init" => KeysOf[op] = <<"identity">>
  BY DEF KeysOf, KeyList, Op
<1> HIDE DEF chosen
<1>3. /\ s \in State /\ s.pc = "keys" /\ s.op = op /\ s.keys = KeysOf[op] /\ s.selected = chosen
      /\ \A k \in KeyFile : s.held[k] = None
  BY <1>1, <1>2, ExitedIsState DEF State, Exited, PC
<1>4. process' = [process EXCEPT ![p] = s] /\ UNCHANGED <<durable, importing, observed>>
  BY DEF Begin, chosen
<1>5. At(p, "exited") /\ ~At(p, "write")
  BY DEF Begin, At
<1> HIDE DEF s
<1>6. process'[p] = s /\ \A q \in Process \ {p} : process'[q] = process[q]
  BY <1>4 DEF ImportInv, Types
<1>7. Prepared(p)'
  BY <1>1, <1>2, <1>3, <1>6 DEF Prepared
<1>8. ASSUME NEW q \in Process PROVE Locked(q)'
  <2>1. Locked(q)
    BY DEF ImportInv
  <2> QED BY <1>3, <1>4, <1>5, <1>6, <2>1 DEF Locked, At
<1>9. importing' \in Process \cup {None} /\ ConflictIsReal'
  BY <1>4 DEF ImportInv, Types, ConflictIsReal, observed
<1>10. UNCHANGED <<durable, origin, byHand, torn, highest>> /\ s.pc \notin {"writing", "write"}
  BY <1>3, <1>4 DEF observed
<1>11. \A k \in KeyFile : s.held[k] # None => key[k] = [by |-> s.held[k], whole |-> TRUE]
  BY <1>3
<1> QED BY <1>3, <1>4, <1>5, <1>7, <1>8, <1>9, <1>10, <1>11, QuietStep

LEMMA CommandKeepsInv ==
  ASSUME ConstantsAreSound, ImportInv, StartDaemon \/ Command
  PROVE  ImportInv'
<1>1. CASE StartDaemon
  BY <1>1, BeginKeepsInv DEF StartDaemon, Process, Op
<1>2. ASSUME NEW op \in {"init", "set"}, Begin("cli", op, None, "RequireAbsentOrMatching")
      PROVE  ImportInv'
  BY <1>2, BeginKeepsInv DEF Process, Op
<1>3. ASSUME NEW path \in Path, directory[path] # None,
             NEW policy \in {"RequireAbsentOrMatching", "ReplaceExisting"},
             Begin("cli", "import", directory[path], policy)
      PROVE  ImportInv'
  <2>1. directory[path] \in Sealed \cup {None}
    BY DEF ImportInv, Types
  <2> QED BY <1>3, <2>1, BeginKeepsInv DEF Process, Op
<1> QED BY <1>1, <1>2, <1>3 DEF Command

-----------------------------------------------------------------------------
(* The key files.                                                          *)

(* The key a process is about to open.                                     *)
LEMMA NextKey ==
  ASSUME ImportInv, NEW p \in Process, process[p].pc \in {"keys", "writing"}
  PROVE  /\ Head(process[p].keys) \in KeyFile
         /\ Len(process[p].keys) \in {1, 2} /\ Tail(process[p].keys) \in KeyList
         /\ Len(process[p].keys) = 2 => Tail(process[p].keys) # <<>> /\ process[p].op # "init"
         /\ process[p].op \in Op \ {"none"}
<1>1. /\ process[p].keys \in {<<"identity">>, <<"master">>, <<"identity", "master">>}
      /\ process[p].op \in Op \ {"none"}
      /\ process[p].op = "init" => process[p].keys = <<"identity">>
  BY DEF ImportInv, Types, State, KeyList, Prepared
<1>2. CASE process[p].keys = <<"identity">>
  BY <1>1, <1>2 DEF KeyFile, KeyList
<1>3. CASE process[p].keys = <<"master">>
  BY <1>1, <1>3 DEF KeyFile, KeyList
<1>4. CASE process[p].keys = <<"identity", "master">>
  <2>1. Head(process[p].keys) = "identity" /\ Len(process[p].keys) = 2
        /\ Tail(process[p].keys) = <<"master">>
    BY <1>4
  <2>2. process[p].op # "init"
    BY <1>1, <1>4, <2>1
  <2> QED BY <1>1, <2>1, <2>2 DEF KeyFile, KeyList
<1> QED BY <1>1, <1>2, <1>3, <1>4

LEMMA CreateKeyKeepsInv ==
  ASSUME ConstantsAreSound, ImportInv, NEW p \in Process, CreateKey(p)
  PROVE  ImportInv'
<1> DEFINE k == Head(process[p].keys)
           s == [process[p] EXCEPT !.pc = "writing"]
<1>1. /\ process[p].pc = "keys" /\ key[k] = None
      /\ key' = [key EXCEPT ![k] = [by |-> p, whole |-> FALSE]]
      /\ process' = [process EXCEPT ![p] = s]
      /\ UNCHANGED <<directory, secret, receipt, importing, observed>>
  BY DEF CreateKey, At
<1>2. k \in KeyFile
  BY <1>1, NextKey
<1>3. process[p] \in State /\ process \in [Process -> State] /\ key \in [KeyFile -> Key \cup {None}]
  BY DEF ImportInv, Types
<1>4. /\ s \in State /\ s.pc = "writing" /\ s.keys = process[p].keys /\ s.op = process[p].op
      /\ s.held = process[p].held /\ s.selected = process[p].selected
  BY <1>3 DEF State, PC
<1> HIDE DEF s
<1>5. process'[p] = s /\ \A q \in Process \ {p} : process'[q] = process[q]
  BY <1>1, <1>3
<1>6. Prepared(p)'
  <2>1. Prepared(p)
    BY DEF ImportInv
  <2> QED BY <1>1, <1>4, <1>5, <2>1 DEF Prepared
<1>7. ASSUME NEW q \in Process PROVE Locked(q)'
  <2>1. Locked(q)
    BY DEF ImportInv
  <2> QED BY <1>1, <1>4, <1>5, <2>1 DEF Locked
<1>8. key' \in [KeyFile -> Key \cup {None}] /\ key'[k] = [by |-> p, whole |-> FALSE]
  BY <1>1, <1>2, <1>3 DEF Key
<1>9. ASSUME NEW q \in Process PROVE WritingKey(q)'
  <2>1. CASE q = p
    BY <1>4, <1>5, <1>8, <2>1 DEF WritingKey
  <2>2. CASE q # p
    <3>1. WritingKey(q) /\ process'[q] = process[q]
      BY <1>5, <2>2 DEF ImportInv
    <3>2. At(q, "writing") => Head(process[q].keys) \in KeyFile /\ key[Head(process[q].keys)] \in Key
      <4>1. [by |-> q, whole |-> FALSE] \in Key
        BY DEF Key
      <4> QED BY <3>1, <4>1, NextKey DEF At, WritingKey
    <3>3. At(q, "writing") => Head(process[q].keys) # k
      BY <1>1, <3>2 DEF ConstantsAreSound
    <3> QED BY <1>1, <1>3, <3>1, <3>2, <3>3 DEF WritingKey, At
  <2> QED BY <2>1, <2>2
<1>10. OneKey'
  <2> SUFFICES ASSUME NEW q \in Process, NEW j \in KeyFile, process'[q].held[j] # None
               PROVE  key'[j] = [by |-> process'[q].held[j], whole |-> TRUE]
    BY DEF OneKey
  <2>1. process'[q].held[j] = process[q].held[j]
    BY <1>4, <1>5
  <2>2. key[j] = [by |-> process[q].held[j], whole |-> TRUE]
    BY <2>1 DEF ImportInv, OneKey
  <2>3. process[q].held[j] \in Process
    BY <2>1 DEF ImportInv, Types, State
  <2>4. key[j] \in Key
    BY <2>2, <2>3 DEF Key
  <2>5. j # k
    BY <1>1, <2>4 DEF ConstantsAreSound
  <2> QED BY <1>1, <1>3, <2>1, <2>2, <2>5
<1>11. importing' \in Process \cup {None} /\ ConflictIsReal'
  BY <1>1 DEF ImportInv, Types, ConflictIsReal, observed
<1>12. UNCHANGED <<directory, secret, receipt, origin, byHand, torn, highest>>
       /\ s.pc # "write" /\ ~At(p, "write")
  BY <1>1, <1>4 DEF observed, At
<1> QED BY <1>1, <1>4, <1>6, <1>7, <1>8, <1>9, <1>10, <1>11, <1>12, LocalStep

(* A key comes into the hands of a process: the one that is in the file.   *)
LEMMA HoldKeepsInv ==
  ASSUME ConstantsAreSound, ImportInv, NEW p \in Process, NEW k \in KeyFile, NEW maker \in Process,
         process[p].pc \in {"keys", "writing"}, k = Head(process[p].keys), Hold(p, k, maker),
         key' \in [KeyFile -> Key \cup {None}], key'[k] = [by |-> maker, whole |-> TRUE],
         \A j \in KeyFile \ {k} : key'[j] = key[j],
         \A q \in Process : process[q].held[k] # None => process[q].held[k] = maker,
         \A q \in Process \ {p} : At(q, "writing") => Head(process[q].keys) # k,
         UNCHANGED <<directory, secret, receipt, observed>>
  PROVE  ImportInv'
<1> DEFINE s == process'[p]
<1>1. process \in [Process -> State] /\ process[p] \in State /\ importing \in Process \cup {None}
  BY DEF ImportInv, Types
<1>2. /\ Len(process[p].keys) \in {1, 2} /\ Tail(process[p].keys) \in KeyList
      /\ Len(process[p].keys) = 2 => Tail(process[p].keys) # <<>> /\ process[p].op # "init"
      /\ process[p].op \in Op \ {"none"}
  BY NextKey
<1>3. /\ s \in State /\ s.pc \notin {"writing", "write", "import", "read"}
      /\ process' = [process EXCEPT ![p] = s]
      /\ \A j \in KeyFile : s.held[j] # None => s.held[j] = IF j = k THEN maker ELSE process[p].held[j]
      /\ \A q \in Process : Locked(q)'
      /\ Prepared(p)' /\ importing' \in Process \cup {None}
  <2>1. CASE Len(process[p].keys) = 1 /\ process[p].op = "init"
    <3>1. Exit(p)
      BY <2>1 DEF Hold
    <3>2. s = Exited /\ process' = [process EXCEPT ![p] = s]
      BY <1>1, <3>1 DEF Exit
    <3>3. s \in State /\ s.pc = "exited" /\ \A j \in KeyFile : s.held[j] = None
      BY <3>2, ExitedIsState DEF Exited
    <3> QED BY <3>1, <3>2, <3>3, ExitUnlocks
  <2>2. CASE ~(Len(process[p].keys) = 1 /\ process[p].op = "init")
    <3> DEFINE pc == IF Len(process[p].keys) > 1 THEN "keys" ELSE AfterKeys[process[p].op]
    <3>1. /\ process' = [process EXCEPT ![p].held[k] = maker, ![p].keys = Tail(@), ![p].pc = pc]
          /\ UNCHANGED importing
      BY <2>2 DEF Hold
    <3>2. pc \in {"keys", "ready", "set", "open"} /\ (pc = "keys" <=> Len(process[p].keys) = 2)
      <4>1. CASE Len(process[p].keys) = 2
        BY <4>1
      <4>2. CASE Len(process[p].keys) = 1
        <5>1. process[p].op \in {"run", "set", "import"}
          BY <1>2, <2>2, <4>2 DEF Op
        <5> QED BY <4>2, <5>1 DEF AfterKeys
      <4> QED BY <1>2, <4>1, <4>2
    <3> HIDE DEF pc
    <3>3. /\ s = [process[p] EXCEPT !.held = [process[p].held EXCEPT ![k] = maker],
                                    !.keys = Tail(process[p].keys), !.pc = pc]
          /\ \A q \in Process \ {p} : process'[q] = process[q]
          /\ process' = [process EXCEPT ![p] = s]
      BY <1>1, <3>1 DEF State
    <3>4. process[p].held \in [KeyFile -> Process \cup {None}]
      BY <1>1 DEF State
    <3>5. s.pc = pc /\ s.keys = Tail(process[p].keys) /\ s.op = process[p].op
          /\ s.selected = process[p].selected /\ s.held = [process[p].held EXCEPT ![k] = maker]
      BY <1>1, <3>3 DEF State
    <3>6. pc \in PC /\ [process[p].held EXCEPT ![k] = maker] \in [KeyFile -> Process \cup {None}]
      BY <3>2, <3>4 DEF PC
    <3>7. s \in State
      BY <1>1, <1>2, <3>3, <3>6 DEF State
    <3>8. Prepared(p)'
      <4>1. Prepared(p)
        BY DEF ImportInv
      <4> QED BY <1>2, <3>2, <3>5, <4>1 DEF Prepared
    <3>9. ASSUME NEW q \in Process PROVE Locked(q)'
      <4>1. Locked(q)
        BY DEF ImportInv
      <4>2. CASE q = p
        BY <3>1, <3>2, <3>5, <4>1, <4>2 DEF Locked
      <4>3. CASE q # p
        BY <3>1, <3>3, <4>1, <4>3 DEF Locked
      <4> QED BY <4>2, <4>3
    <3>10. \A j \in KeyFile : s.held[j] = IF j = k THEN maker ELSE process[p].held[j]
      BY <3>4, <3>5
    <3> QED BY <1>1, <3>1, <3>2, <3>3, <3>5, <3>7, <3>8, <3>9, <3>10
  <2> QED BY <2>1, <2>2
<1>4. \A q \in Process \ {p} : process'[q] = process[q]
  BY <1>1, <1>3
<1>5. ASSUME NEW q \in Process PROVE WritingKey(q)'
  <2>1. CASE q = p
    BY <1>3, <2>1 DEF WritingKey, At
  <2>2. CASE q # p
    <3>1. WritingKey(q) /\ process'[q] = process[q]
      BY <1>4, <2>2 DEF ImportInv
    <3>2. At(q, "writing") => Head(process[q].keys) \in KeyFile \ {k}
      BY <2>2, NextKey DEF At
    <3> QED BY <3>1, <3>2 DEF WritingKey, At
  <2> QED BY <2>1, <2>2
<1>6. OneKey'
  <2> SUFFICES ASSUME NEW q \in Process, NEW j \in KeyFile, process'[q].held[j] # None
               PROVE  key'[j] = [by |-> process'[q].held[j], whole |-> TRUE]
    BY DEF OneKey
  <2>1. process'[q].held[j] = IF j = k THEN maker ELSE process[q].held[j]
    <3>1. CASE q = p
      BY <1>3, <3>1
    <3>2. CASE q # p
      BY <1>4, <3>2
    <3> QED BY <3>1, <3>2
  <2>2. CASE j = k
    BY <2>1, <2>2
  <2>3. CASE j # k
    <3>1. OneKey /\ process[q].held[j] # None
      BY <2>1, <2>3 DEF ImportInv
    <3> QED BY <2>1, <2>3, <3>1 DEF OneKey
  <2> QED BY <2>2, <2>3
<1>7. ConflictIsReal' /\ UNCHANGED <<directory, secret, receipt, origin, byHand, torn, highest>>
      /\ ~At(p, "write") /\ s.pc # "write"
  BY <1>3 DEF ImportInv, ConflictIsReal, observed, At
<1> HIDE DEF s
<1> QED BY <1>3, <1>5, <1>6, <1>7, LocalStep

LEMMA WriteKeyKeepsInv ==
  ASSUME ConstantsAreSound, ImportInv, NEW p \in Process, WriteKey(p)
  PROVE  ImportInv'
<1> DEFINE k == Head(process[p].keys)
<1>1. /\ process[p].pc = "writing" /\ Hold(p, k, p)
      /\ key' = [key EXCEPT ![k].whole = TRUE]
      /\ UNCHANGED <<directory, secret, receipt, observed>>
  BY DEF WriteKey, At
<1>2. k \in KeyFile /\ key[k] = [by |-> p, whole |-> FALSE] /\ key \in [KeyFile -> Key \cup {None}]
  BY <1>1, NextKey DEF ImportInv, WritingKey, At, Types
<1>3. [by |-> p, whole |-> TRUE] \in Key
  BY DEF Key
<1>4. /\ key'[k] = [by |-> p, whole |-> TRUE] /\ \A j \in KeyFile \ {k} : key'[j] = key[j]
      /\ key' = [key EXCEPT ![k] = [by |-> p, whole |-> TRUE]]
  <2>1. [key[k] EXCEPT !.whole = TRUE] = [by |-> p, whole |-> TRUE]
    <3>1. \A b, c : [[by |-> p, whole |-> b] EXCEPT !.whole = c] = [by |-> p, whole |-> c]
      OBVIOUS
    <3>2. key[k] = [by |-> p, whole |-> FALSE]
      BY <1>2
    <3> QED BY <3>1, <3>2, Zenon
  <2>2. key' = [key EXCEPT ![k] = [key[k] EXCEPT !.whole = TRUE]]
    BY <1>1
  <2> QED BY <1>2, <2>1, <2>2
<1>5. key' \in [KeyFile -> Key \cup {None}]
  BY <1>2, <1>3, <1>4
<1>6. ASSUME NEW q \in Process, process[q].held[k] # None PROVE FALSE
  <2>1. key[k] = [by |-> process[q].held[k], whole |-> TRUE]
    BY <1>2, <1>6 DEF ImportInv, OneKey
  <2>2. key[k].whole = TRUE /\ key[k].whole = FALSE
    BY <1>2, <2>1
  <2> QED BY <2>2
<1>7. ASSUME NEW q \in Process \ {p}, At(q, "writing") PROVE Head(process[q].keys) # k
  <2>1. key[Head(process[q].keys)] = [by |-> q, whole |-> FALSE]
    BY <1>7 DEF ImportInv, WritingKey
  <2>2. key[Head(process[q].keys)].by = q /\ key[k].by = p
    BY <1>2, <2>1
  <2> QED BY <2>2
<1> HIDE DEF k
<1>8. k = Head(process[p].keys)
  BY DEF k
<1>9. /\ \A q \in Process : process[q].held[k] # None => process[q].held[k] = p
      /\ \A q \in Process \ {p} : At(q, "writing") => Head(process[q].keys) # k
  BY <1>6, <1>7
<1>10. /\ process[p].pc \in {"keys", "writing"} /\ Hold(p, k, p) /\ k \in KeyFile
       /\ UNCHANGED <<directory, secret, receipt, observed>>
  BY <1>1, <1>2
<1>11. key'[k] = [by |-> p, whole |-> TRUE] /\ \A j \in KeyFile \ {k} : key'[j] = key[j]
  BY <1>4
<1> QED BY <1>5, <1>8, <1>9, <1>10, <1>11, HoldKeepsInv

LEMMA LoadKeyKeepsInv ==
  ASSUME ConstantsAreSound, ImportInv, NEW p \in Process, LoadKey(p)
  PROVE  ImportInv'
<1> DEFINE k == Head(process[p].keys)
<1>1. /\ process[p].pc = "keys"
      /\ IF key[k] # None /\ key[k].whole THEN Hold(p, k, key[k].by) ELSE Exit(p)
      /\ UNCHANGED <<durable, observed>>
  BY DEF LoadKey, At
<1>2. k \in KeyFile /\ key \in [KeyFile -> Key \cup {None}]
  BY <1>1, NextKey DEF ImportInv, Types
<1>3. CASE key[k] # None /\ key[k].whole
  <2> DEFINE maker == key[k].by
  <2>1. Hold(p, k, maker) /\ key[k] \in Key
    BY <1>1, <1>2, <1>3
  <2>2. maker \in Process /\ key[k] = [by |-> maker, whole |-> TRUE]
    BY <1>3, <2>1 DEF Key
  <2>3. ASSUME NEW q \in Process, process[q].held[k] # None PROVE process[q].held[k] = maker
    <3>1. key[k] = [by |-> process[q].held[k], whole |-> TRUE]
      BY <1>2, <2>3 DEF ImportInv, OneKey
    <3> QED BY <3>1
  <2>4. ASSUME NEW q \in Process \ {p}, At(q, "writing") PROVE Head(process[q].keys) # k
    <3>1. key[Head(process[q].keys)] = [by |-> q, whole |-> FALSE]
      BY <2>4 DEF ImportInv, WritingKey
    <3>2. key[Head(process[q].keys)].whole = FALSE /\ key[k].whole = TRUE
      BY <2>2, <3>1
    <3> QED BY <3>2
  <2>5. /\ key' \in [KeyFile -> Key \cup {None}] /\ key'[k] = [by |-> maker, whole |-> TRUE]
        /\ \A j \in KeyFile \ {k} : key'[j] = key[j]
        /\ UNCHANGED <<directory, secret, receipt, observed>>
    BY <1>1, <1>2, <2>2 DEF durable
  <2> HIDE DEF maker
  <2>6. k = Head(process[p].keys)
    OBVIOUS
  <2> HIDE DEF k
  <2> QED BY <1>1, <1>2, <2>1, <2>2, <2>3, <2>4, <2>5, <2>6, HoldKeepsInv
<1>4. CASE ~(key[k] # None /\ key[k].whole)
  <2>1. Exit(p) /\ ~At(p, "write") /\ UNCHANGED <<durable, origin, byHand, torn, highest>>
    BY <1>1, <1>4 DEF At, observed
  <2>2. ConflictIsReal'
    BY <1>1 DEF ImportInv, ConflictIsReal, observed
  <2> QED BY <2>1, <2>2, ExitStep
<1> QED BY <1>3, <1>4

-----------------------------------------------------------------------------
(* Choosing and locking.                                                   *)

(* A step of one process that only changes what it holds besides its keys. *)
LEMMA MoveKeepsInv ==
  ASSUME ConstantsAreSound, ImportInv, NEW p \in Process, NEW s \in State,
         process' = [process EXCEPT ![p] = s], s.held = process[p].held,
         ~At(p, "write"), s.pc \notin {"writing", "write"},
         UNCHANGED <<durable, observed>>,
         Prepared(p)', importing' \in Process \cup {None}, \A q \in Process : Locked(q)'
  PROVE  ImportInv'
<1>1. \A k \in KeyFile : s.held[k] # None => key[k] = [by |-> s.held[k], whole |-> TRUE]
  BY DEF ImportInv, OneKey
<1>2. ConflictIsReal' /\ UNCHANGED <<durable, origin, byHand, torn, highest>>
  BY DEF ImportInv, ConflictIsReal, observed
<1> QED BY <1>1, <1>2, QuietStep

LEMMA OpenEnvelopeKeepsInv ==
  ASSUME ConstantsAreSound, ImportInv, OpenEnvelope
  PROVE  ImportInv'
<1> DEFINE s == [process["cli"] EXCEPT !.pc = "lock"]
<1>1. /\ "cli" \in Process /\ process["cli"] \in State /\ process \in [Process -> State]
      /\ importing \in Process \cup {None}
  BY DEF ImportInv, Types, Process
<1>2. /\ process["cli"].pc = "open" /\ ~At("cli", "write") /\ UNCHANGED <<durable, observed>>
      /\ \/ process' = [process EXCEPT !["cli"] = s] /\ UNCHANGED importing
         \/ Exit("cli")
  BY <1>1 DEF OpenEnvelope, At
<1>3. CASE process' = [process EXCEPT !["cli"] = s] /\ UNCHANGED importing
  <2>1. /\ s \in State /\ s.pc = "lock" /\ s.held = process["cli"].held
        /\ s.selected = process["cli"].selected
    BY <1>1 DEF State, PC
  <2> HIDE DEF s
  <2>2. process'["cli"] = s /\ \A q \in Process \ {"cli"} : process'[q] = process[q]
    BY <1>1, <1>3
  <2>3. Prepared("cli")'
    BY <1>1, <2>1, <2>2 DEF ImportInv, Prepared
  <2>4. ASSUME NEW q \in Process PROVE Locked(q)'
    <3>1. Locked(q)
      BY DEF ImportInv
    <3> QED BY <1>2, <1>3, <2>1, <2>2, <3>1 DEF Locked
  <2> QED BY <1>1, <1>2, <1>3, <2>1, <2>3, <2>4, MoveKeepsInv
<1>4. CASE Exit("cli")
  <2>1. ConflictIsReal' /\ UNCHANGED <<durable, origin, byHand, torn, highest>>
    BY <1>2 DEF ImportInv, ConflictIsReal, observed
  <2> QED BY <1>1, <1>2, <1>4, <2>1, ExitStep
<1> QED BY <1>2, <1>3, <1>4

LEMMA ListFilesKeepsInv ==
  ASSUME ConstantsAreSound, ImportInv, ListFiles
  PROVE  ImportInv'
<1> DEFINE files == {f \in Path : directory[f] # None}
           s == [process["daemon"] EXCEPT !.pc = "read", !.listed = files]
<1>1. /\ "daemon" \in Process /\ process["daemon"] \in State /\ process \in [Process -> State]
      /\ importing \in Process \cup {None}
  BY DEF ImportInv, Types, Process
<1>2. /\ process["daemon"].pc = "ready" /\ ~At("daemon", "write")
      /\ process' = IF files = {} THEN process ELSE [process EXCEPT !["daemon"] = s]
      /\ UNCHANGED <<durable, importing, observed>>
  BY <1>1 DEF ListFiles, At
<1>3. CASE files = {}
  BY <1>2, <1>3, InstallKeepsInv DEF ImportInv, Types, durable
<1>4. CASE files # {}
  <2>1. /\ s \in State /\ s.pc = "read" /\ s.held = process["daemon"].held
        /\ s.selected = process["daemon"].selected /\ s.listed = files
    BY <1>1 DEF State, PC
  <2>2. process' = [process EXCEPT !["daemon"] = s]
    BY <1>2, <1>4
  <2> HIDE DEF s, files
  <2>3. process'["daemon"] = s /\ \A q \in Process \ {"daemon"} : process'[q] = process[q]
    BY <1>1, <2>2
  <2>4. Prepared("daemon")'
    BY <1>1, <1>4, <2>1, <2>3 DEF ImportInv, Prepared
  <2>5. ASSUME NEW q \in Process PROVE Locked(q)'
    <3>1. Locked(q)
      BY DEF ImportInv
    <3> QED BY <1>2, <2>1, <2>3, <3>1 DEF Locked
  <2>6. importing' \in Process \cup {None} /\ s.pc \notin {"writing", "write"}
    BY <1>1, <1>2, <2>1
  <2> QED BY <1>1, <1>2, <2>1, <2>2, <2>4, <2>5, <2>6, MoveKeepsInv
<1> QED BY <1>3, <1>4

(* A file that is opened joins the selection under its own name.           *)
LEMMA ReadFileKeepsInv ==
  ASSUME ConstantsAreSound, ImportInv, ReadFile
  PROVE  ImportInv'
<1> DEFINE d == process["daemon"]
           path == Min(d.listed)
           e == directory[path]
           refused == e = None \/ ~Opens(e, d.held["identity"]) \/ Conflicts(d.selected[e.name], e)
           chosen == [d.selected EXCEPT ![e.name] = Greater(@, e)]
           pc == IF d.listed = {path} THEN "lock" ELSE "read"
           s == [d EXCEPT !.selected = chosen, !.listed = @ \ {path}, !.pc = pc]
<1>1. /\ "daemon" \in Process /\ process["daemon"] \in State /\ process \in [Process -> State]
      /\ importing \in Process \cup {None} /\ Prepared("daemon") /\ d \in State
  BY DEF ImportInv, Types, Process
<1>2. /\ d.pc = "read" /\ ~At("daemon", "write")
      /\ IF refused THEN Exit("daemon")
         ELSE process' = [process EXCEPT !["daemon"] = s] /\ UNCHANGED importing
      /\ UNCHANGED <<durable, observed>>
  BY <1>1 DEF ReadFile, At
<1>3. CASE refused
  <2>1. ConflictIsReal' /\ UNCHANGED <<durable, origin, byHand, torn, highest>>
    BY <1>2 DEF ImportInv, ConflictIsReal, observed
  <2> QED BY <1>1, <1>2, <1>3, <2>1, ExitStep
<1>4. CASE ~refused
  <2>1. d.listed \subseteq Path /\ d.listed # {} /\ d.selected \in [Name -> Sealed \cup {None}]
    BY <1>1, <1>2 DEF State, Prepared
  <2>2. path \in d.listed /\ path \in Path
    BY <2>1, MinIsIn DEF ConstantsAreSound
  <2>3. e \in Sealed /\ e.name \in Name
    BY <1>4, <2>2, EnvelopeFacts DEF ImportInv, Types
  <2>4. process' = [process EXCEPT !["daemon"] = s] /\ UNCHANGED importing
    BY <1>2, <1>4
  <2>5. d.listed \ {path} \in SUBSET Path /\ (pc = "read" => d.listed \ {path} # {})
        /\ pc \in {"lock", "read"}
    BY <2>1, <2>2
  <2> HIDE DEF e, path, pc
  <2>6. chosen \in [Name -> Sealed \cup {None}]
    BY <2>1, <2>3 DEF Greater
  <2>7. \A n \in Name : chosen[n] # None => chosen[n].name = n
    BY <1>1, <2>1, <2>3 DEF Prepared, Greater
  <2> HIDE DEF chosen
  <2>8. /\ s \in State /\ s.pc = pc /\ s.held = d.held
        /\ s.selected = chosen /\ s.listed = d.listed \ {path}
    BY <1>1, <2>5, <2>6 DEF State, PC
  <2> HIDE DEF s
  <2>9. process'["daemon"] = s /\ \A q \in Process \ {"daemon"} : process'[q] = process[q]
    BY <1>1, <2>4
  <2>10. Prepared("daemon")'
    BY <2>5, <2>7, <2>8, <2>9 DEF Prepared
  <2>11. ASSUME NEW q \in Process PROVE Locked(q)'
    <3>1. Locked(q)
      BY DEF ImportInv
    <3> QED BY <1>2, <2>4, <2>5, <2>8, <2>9, <3>1 DEF Locked
  <2>12. importing' \in Process \cup {None} /\ s.pc \notin {"writing", "write"}
    BY <1>1, <2>4, <2>5, <2>8
  <2> QED BY <1>1, <1>2, <2>4, <2>8, <2>10, <2>11, <2>12, MoveKeepsInv
<1> QED BY <1>3, <1>4

LEMMA LockKeepsInv ==
  ASSUME ConstantsAreSound, ImportInv, NEW p \in Process, Lock(p)
  PROVE  ImportInv'
<1> DEFINE s == [process[p] EXCEPT !.pc = "import"]
<1>1. process[p] \in State /\ process \in [Process -> State] /\ Prepared(p)
  BY DEF ImportInv, Types
<1>2. /\ process[p].pc = "lock" /\ importing = None /\ importing' = p /\ ~At(p, "write")
      /\ process' = [process EXCEPT ![p] = s] /\ UNCHANGED <<durable, observed>>
  BY <1>1 DEF Lock, At
<1>3. /\ s \in State /\ s.pc = "import" /\ s.held = process[p].held
      /\ s.selected = process[p].selected
  BY <1>1 DEF State, PC
<1> HIDE DEF s
<1>4. process'[p] = s /\ \A q \in Process \ {p} : process'[q] = process[q]
  BY <1>1, <1>2
<1>5. Prepared(p)'
  BY <1>1, <1>3, <1>4 DEF Prepared
<1>6. ASSUME NEW q \in Process PROVE Locked(q)'
  <2>1. Locked(q) /\ None \notin Process
    BY DEF ImportInv, ConstantsAreSound
  <2> QED BY <1>2, <1>3, <1>4, <2>1 DEF Locked
<1>7. importing' \in Process \cup {None} /\ s.pc \notin {"writing", "write"}
  BY <1>2, <1>3
<1> QED BY <1>2, <1>3, <1>5, <1>6, <1>7, MoveKeepsInv

LEMMA EndImportKeepsInv ==
  ASSUME ConstantsAreSound, ImportInv, NEW p \in Process, EndImport(p)
  PROVE  ImportInv'
<1> DEFINE s == [process[p] EXCEPT !.pc = "ready"]
<1>1. process[p] \in State /\ process \in [Process -> State] /\ Prepared(p)
  BY DEF ImportInv, Types
<1>2. /\ process[p].pc = "import" /\ ~At(p, "write")
      /\ \/ Exit(p)
         \/ process' = [process EXCEPT ![p] = s] /\ importing' = None
      /\ UNCHANGED <<durable, observed>>
  BY <1>1 DEF EndImport, At
<1>3. CASE Exit(p)
  <2>1. ConflictIsReal' /\ UNCHANGED <<durable, origin, byHand, torn, highest>>
    BY <1>2 DEF ImportInv, ConflictIsReal, observed
  <2> QED BY <1>2, <1>3, <2>1, ExitStep
<1>4. CASE process' = [process EXCEPT ![p] = s] /\ importing' = None
  <2>1. /\ s \in State /\ s.pc = "ready" /\ s.held = process[p].held
        /\ s.selected = process[p].selected
    BY <1>1 DEF State, PC
  <2> HIDE DEF s
  <2>2. process'[p] = s /\ \A q \in Process \ {p} : process'[q] = process[q]
    BY <1>1, <1>4
  <2>3. Prepared(p)'
    BY <1>1, <2>1, <2>2 DEF Prepared
  <2>4. ASSUME NEW q \in Process PROVE Locked(q)'
    <3>1. Locked(q) /\ Locked(p) /\ None \notin Process
      BY DEF ImportInv, ConstantsAreSound
    <3> QED BY <1>2, <1>4, <2>1, <2>2, <3>1 DEF Locked
  <2>5. importing' \in Process \cup {None} /\ s.pc \notin {"writing", "write"}
    BY <1>4, <2>1
  <2> QED BY <1>2, <1>4, <2>1, <2>3, <2>4, <2>5, MoveKeepsInv
<1> QED BY <1>2, <1>3, <1>4

-----------------------------------------------------------------------------
(* Importing.                                                              *)

(* While one process imports, the other does not.                          *)
LEMMA OneImporter ==
  ASSUME ImportInv, NEW p \in Process, process[p].pc \in {"import", "write"}, NEW q \in Process \ {p}
  PROVE  process[q].pc \notin {"import", "write"}
BY DEF ImportInv, Locked

(* What the decision says of the receipt and of the secret it was taken    *)
(* from.  A receipt without a secret, which would only need the secret, is *)
(* never met.                                                              *)
LEMMA PlanFacts ==
  ASSUME ConstantsAreSound, ImportInv, NEW e \in Sealed, NEW policy
  PROVE  \/ Plan(e, policy) = <<>>
         \/ Plan(e, policy) = <<"refused">>
         \/ /\ Plan(e, policy) = <<"conflict">>
            /\ secret[e.name] # None /\ secret[e.name] # e.secret
            /\ receipt[e.name] = None \/ receipt[e.name].digest = e.digest
         \/ /\ Plan(e, policy) = <<"receipt">>
            /\ receipt[e.name] = None /\ secret[e.name] = e.secret
         \/ /\ Plan(e, policy) = <<"secret", "receipt">>
            /\ receipt[e.name] # None => receipt[e.name].revision <= e.revision
<1> DEFINE n == e.name
           r == receipt[n]
<1>1. n \in Name /\ e.revision \in Nat /\ e.secret # None
  BY EnvelopeFacts
<1>2. r # None => r.revision \in Nat /\ secret[n] # None
  <2>1. Stored(n) /\ receipt[n] \in Receipt \cup {None}
    BY <1>1 DEF ImportInv, Types
  <2> QED BY <2>1 DEF Stored, Receipt
<1> HIDE DEF n
<1>3. CASE r # None /\ e.revision < r.revision
  BY <1>1, <1>2, <1>3 DEF Plan, n
<1>4. CASE r # None /\ e.revision = r.revision
  BY <1>1, <1>2, <1>4 DEF Plan, n
<1>5. CASE r # None /\ e.revision > r.revision
  BY <1>1, <1>2, <1>5 DEF Plan, n
<1>6. CASE r = None /\ secret[n] = e.secret
  BY <1>1, <1>6 DEF Plan, n
<1>7. CASE r = None /\ secret[n] # e.secret
  BY <1>1, <1>7 DEF Plan, n
<1> QED BY <1>1, <1>2, <1>3, <1>4, <1>5, <1>6, <1>7

(* The envelope a process is about to import.                              *)
LEMMA NextEnvelope ==
  ASSUME ConstantsAreSound, ImportInv, NEW p \in Process, Left(p) # {}
  PROVE  /\ NextName(p) \in Name
         /\ process[p].selected[NextName(p)] \in Sealed
         /\ process[p].selected[NextName(p)].name = NextName(p)
<1>1. NextName(p) \in Name /\ process[p].selected[NextName(p)] # None
  BY NextNameIsLeft
<1>2. process[p].selected \in [Name -> Sealed \cup {None}] /\ Prepared(p)
  BY DEF ImportInv, Types, State
<1> QED BY <1>1, <1>2 DEF Prepared

(* A conflict has a cause: without one, the secret that is stored is that  *)
(* of the envelope the receipt is for.                                     *)
LEMMA ConflictHasCause ==
  ASSUME ConstantsAreSound, ImportInv, NEW p \in Process, process[p].pc = "import",
         NEW e \in Sealed, secret[e.name] # None, secret[e.name] # e.secret,
         receipt[e.name] = None \/ receipt[e.name].digest = e.digest
  PROVE  e.name \in byHand \/ e.name \in torn
<1> DEFINE n == e.name
<1> SUFFICES ASSUME n \notin byHand, n \notin torn PROVE FALSE
  OBVIOUS
<1>1. n \in Name
  BY EnvelopeFacts
<1>2. Stored(n) /\ origin[n] \in Sealed \cup {None}
  BY <1>1 DEF ImportInv, Types
<1>3. ~Receipting(n)
  BY OneImporter DEF Receipting, At
<1>4. origin[n] # None /\ origin[n] \in Sealed
  BY <1>2 DEF Stored
<1>5. receipt[n] # None /\ receipt[n].digest = origin[n].digest /\ secret[n] = origin[n].secret
  BY <1>2, <1>3, <1>4 DEF Stored
<1>6. origin[n].secret = e.secret
  BY <1>4, <1>5, DigestBinds
<1> QED BY <1>5, <1>6

LEMMA DecideKeepsInv ==
  ASSUME ConstantsAreSound, ImportInv, NEW p \in Process, Decide(p)
  PROVE  ImportInv'
<1> DEFINE n == NextName(p)
           e == process[p].selected[n]
           plan == Plan(e, process[p].policy)
           entry == [name |-> n, foreign |-> n \in byHand, torn |-> n \in torn]
<1>1. /\ process[p].pc = "import" /\ Left(p) # {} /\ ~At(p, "write")
      /\ IF plan \in {<<"refused">>, <<"conflict">>}
         THEN /\ Exit(p)
              /\ conflict' = IF plan = <<"conflict">> /\ p = "daemon" THEN conflict \cup {entry} ELSE conflict
         ELSE /\ process' = IF plan = <<>> THEN Done(p, n)
                            ELSE [process EXCEPT ![p].plan = plan, ![p].pc = "write"]
              /\ UNCHANGED <<importing, conflict>>
      /\ UNCHANGED <<durable, origin, byHand, torn, highest>>
  BY DEF Decide, At
<1>2. n \in Name /\ e \in Sealed /\ e.name = n
  BY <1>1, NextEnvelope
<1>3. \/ plan = <<>>
      \/ plan = <<"refused">>
      \/ /\ plan = <<"conflict">>
         /\ secret[n] # None /\ secret[n] # e.secret
         /\ receipt[n] = None \/ receipt[n].digest = e.digest
      \/ /\ plan = <<"receipt">>
         /\ receipt[n] = None /\ secret[n] = e.secret
      \/ /\ plan = <<"secret", "receipt">>
         /\ receipt[n] # None => receipt[n].revision <= e.revision
  BY <1>2, PlanFacts
<1>4. /\ process[p] \in State /\ process \in [Process -> State] /\ Prepared(p) /\ Locked(p)
      /\ importing \in Process \cup {None}
  BY DEF ImportInv, Types
<1> HIDE DEF plan, e, n
<1>5. CASE plan \in {<<"refused">>, <<"conflict">>}
  <2>1. ConflictIsReal'
    <3>1. CASE conflict' = conflict
      BY <3>1 DEF ImportInv, ConflictIsReal
    <3>2. CASE plan = <<"conflict">> /\ conflict' = conflict \cup {entry}
      <4>1. n \in byHand \/ n \in torn
        BY <1>1, <1>2, <1>3, <3>2, ConflictHasCause
      <4>2. \A a, b, c : /\ [name |-> a, foreign |-> b, torn |-> c].foreign = b
                         /\ [name |-> a, foreign |-> b, torn |-> c].torn = c
        OBVIOUS
      <4>3. entry.foreign \/ entry.torn
        BY <4>1, <4>2, Zenon
      <4> HIDE DEF entry
      <4>4. ConflictIsReal
        BY DEF ImportInv
      <4> QED BY <3>2, <4>3, <4>4, Zenon DEF ConflictIsReal
    <3> QED BY <1>1, <1>5, <3>1, <3>2
  <2> QED BY <1>1, <1>5, <2>1, ExitStep
<1>6. CASE plan = <<>>
  <2> DEFINE s == [process[p] EXCEPT !.selected = [@ EXCEPT ![n] = None], !.plan = <<>>, !.pc = "import"]
  <2>1. process' = [process EXCEPT ![p] = s] /\ UNCHANGED <<importing, conflict>>
    BY <1>1, <1>4, <1>6 DEF Done
  <2>2. /\ s \in State /\ s.pc = "import" /\ s.held = process[p].held
        /\ s.selected = [process[p].selected EXCEPT ![n] = None]
    BY <1>2, <1>4 DEF State, PC, PlanList
  <2> HIDE DEF s
  <2>3. process'[p] = s /\ \A q \in Process \ {p} : process'[q] = process[q]
    BY <1>4, <2>1
  <2>4. process[p].selected \in [Name -> Sealed \cup {None}]
    BY <1>4 DEF State
  <2>5. Prepared(p)'
    BY <1>4, <2>2, <2>3, <2>4 DEF Prepared
  <2>6. ASSUME NEW q \in Process PROVE Locked(q)'
    <3>1. Locked(q)
      BY DEF ImportInv
    <3> QED BY <1>1, <2>1, <2>2, <2>3, <3>1 DEF Locked
  <2>7. importing' \in Process \cup {None} /\ s.pc \notin {"writing", "write"} /\ UNCHANGED <<durable, observed>>
    BY <1>1, <1>4, <2>1, <2>2 DEF observed
  <2> QED BY <1>1, <2>1, <2>2, <2>5, <2>6, <2>7, MoveKeepsInv
<1>7. CASE plan \in {<<"receipt">>, <<"secret", "receipt">>}
  <2> DEFINE s == [process[p] EXCEPT !.plan = plan, !.pc = "write"]
  <2>1. plan # <<>> /\ plan \in PlanList /\ plan \notin {<<"refused">>, <<"conflict">>}
    <3>1. /\ <<"receipt">> # <<>> /\ <<"receipt">> # <<"refused">> /\ <<"receipt">> # <<"conflict">>
          /\ <<"secret", "receipt">> # <<>>
      OBVIOUS
    <3>2. Len(<<"secret", "receipt">>) # Len(<<"refused">>) /\ Len(<<"secret", "receipt">>) # Len(<<"conflict">>)
      OBVIOUS
    <3>3. <<"secret", "receipt">> # <<"refused">> /\ <<"secret", "receipt">> # <<"conflict">>
      BY <3>2, Zenon
    <3> QED BY <1>7, <3>1, <3>3, Zenon DEF PlanList
  <2>2. process' = [process EXCEPT ![p] = s] /\ UNCHANGED <<importing, conflict>>
    BY <1>1, <1>4, <2>1
  <2>3. /\ s \in State /\ s.pc = "write" /\ s.held = process[p].held /\ s.plan = plan
        /\ s.selected = process[p].selected
    BY <1>4, <2>1 DEF State, PC
  <2> HIDE DEF s
  <2>4. process'[p] = s /\ \A q \in Process \ {p} : process'[q] = process[q]
    BY <1>4, <2>2
  <2>5. Types'
    BY <1>1, <1>4, <2>2, <2>3 DEF ImportInv, Types, durable
  <2>6. UNCHANGED <<directory, key, secret, receipt, origin, byHand, torn, highest>>
    BY <1>1 DEF durable
  <2>7. /\ \A q \in Process \ {p} : Prepared(q)' /\ Importing(q)'
        /\ \A m \in Name : Stored(m)'
    BY <1>1, <2>4, <2>6, OthersKept
  <2>8. Prepared(p)'
    BY <1>4, <2>3, <2>4 DEF Prepared
  <2>9. ASSUME NEW q \in Process PROVE Locked(q)' /\ WritingKey(q)'
    <3>1. Locked(q) /\ WritingKey(q)
      BY DEF ImportInv
    <3> QED BY <1>1, <2>2, <2>3, <2>4, <2>6, <3>1 DEF Locked, WritingKey, At
  <2>10. OneKey'
    <3>1. OneKey /\ \A q \in Process : process'[q].held = process[q].held
      BY <2>3, <2>4 DEF ImportInv
    <3> QED BY <2>6, <3>1 DEF OneKey
  <2>11. Left(p)' = Left(p) /\ NextName(p)' = n
    BY <2>3, <2>4 DEF Left, NextName, n
  <2>12. process'[p].selected[n] = e /\ process'[p].plan = plan
    BY <2>3, <2>4 DEF e
  <2>13. e.secret # None
    BY <1>2, EnvelopeFacts
  <2>14. Importing(p)'
    <3>1. receipt[n] # None => receipt[n].revision <= e.revision
      BY ONLY <1>3, <2>1, Zenon
    <3>2. plan = <<"receipt">> => secret[n] = e.secret
      BY <1>3
    <3> QED BY <1>1, <2>1, <2>6, <2>11, <2>12, <2>13, <3>1, <3>2 DEF Importing
  <2>15. ConflictIsReal'
    BY <2>2 DEF ImportInv, ConflictIsReal
  <2> QED BY <2>5, <2>7, <2>8, <2>9, <2>10, <2>14, <2>15 DEF ImportInv
<1> QED BY <1>3, <1>5, <1>6, <1>7

(* The last step of a name: its envelope is dropped, and the lock kept.    *)
LEMMA DoneKeeps ==
  ASSUME ConstantsAreSound, ImportInv, NEW p \in Process, process[p].pc = "write",
         NEW n \in Name, process' = Done(p, n), UNCHANGED <<importing, key>>
  PROVE  /\ process' \in [Process -> State] /\ process'[p].pc = "import"
         /\ \A q \in Process \ {p} : process'[q] = process[q]
         /\ \A q \in Process : Prepared(q)' /\ WritingKey(q)' /\ Locked(q)' /\ Importing(q)'
         /\ OneKey'
<1> DEFINE s == [process[p] EXCEPT !.selected = [@ EXCEPT ![n] = None], !.plan = <<>>, !.pc = "import"]
<1>1. process[p] \in State /\ process \in [Process -> State] /\ Prepared(p)
  BY DEF ImportInv, Types
<1>2. process' = [process EXCEPT ![p] = s]
  BY <1>1 DEF Done
<1>3. /\ s \in State /\ s.pc = "import" /\ s.held = process[p].held
      /\ s.selected = [process[p].selected EXCEPT ![n] = None]
  BY <1>1 DEF State, PC, PlanList
<1> HIDE DEF s
<1>4. process'[p] = s /\ \A q \in Process \ {p} : process'[q] = process[q]
  BY <1>1, <1>2
<1>5. process[p].selected \in [Name -> Sealed \cup {None}]
  BY <1>1 DEF State
<1>6. ASSUME NEW q \in Process PROVE Prepared(q)' /\ WritingKey(q)' /\ Locked(q)' /\ Importing(q)'
  <2>1. Prepared(q) /\ WritingKey(q) /\ Locked(q)
    BY DEF ImportInv
  <2>2. CASE q = p
    <3>1. Prepared(p)'
      BY <1>1, <1>3, <1>4, <1>5 DEF Prepared
    <3> QED BY <1>3, <1>4, <2>1, <2>2, <3>1 DEF WritingKey, Locked, Importing, At
  <2>3. CASE q # p
    <3>1. process'[q] = process[q] /\ process[q].pc # "write"
      BY <1>4, <2>3, OneImporter
    <3> QED BY <2>1, <3>1 DEF Prepared, WritingKey, Locked, Importing, At
  <2> QED BY <2>2, <2>3
<1>7. OneKey'
  <2>1. OneKey /\ \A q \in Process : process'[q].held = process[q].held
    BY <1>3, <1>4 DEF ImportInv
  <2> QED BY <2>1 DEF OneKey
<1> QED BY <1>1, <1>2, <1>3, <1>4, <1>6, <1>7

(* What a process between its two writes knows.                            *)
LEMMA WriteFacts ==
  ASSUME ConstantsAreSound, ImportInv, NEW p \in Process, At(p, "write")
  PROVE  LET n == NextName(p) e == process[p].selected[n] IN
         /\ process[p].pc = "write" /\ n \in Name /\ e \in Sealed /\ e.name = n /\ Left(p) # {}
         /\ receipt[n] # None => receipt[n].revision <= e.revision
         /\ \/ /\ Steps(p) = <<"receipt">> /\ secret[n] # None
               /\ n \in byHand \/ secret[n] = e.secret
            \/ Steps(p) = <<"secret", "receipt">>
         /\ \A m \in Name : Receipting(m) => m = n /\ Steps(p) = <<"receipt">>
<1> DEFINE n == NextName(p)
           e == process[p].selected[n]
<1>1. Importing(p) /\ process[p] \in State
  BY DEF ImportInv, Types
<1>2. /\ Left(p) # {} /\ process[p].plan # <<>>
      /\ receipt[n] # None => receipt[n].revision <= e.revision
      /\ process[p].plan = <<"receipt">> => secret[n] # None /\ (n \in byHand \/ secret[n] = e.secret)
  BY <1>1 DEF Importing
<1>3. n \in Name /\ e \in Sealed /\ e.name = n
  BY <1>2, NextEnvelope
<1>4. process[p].plan \in {<<"receipt">>, <<"secret", "receipt">>}
  BY <1>1, <1>2 DEF State, PlanList
<1>5. process[p].pc = "write"
  BY DEF At
<1>6. ASSUME NEW m \in Name, Receipting(m) PROVE m = n /\ process[p].plan = <<"receipt">>
  BY <1>5, <1>6, OneImporter DEF Receipting, At
<1> HIDE DEF n, e
<1>7. /\ \/ process[p].plan = <<"receipt">> /\ secret[n] # None /\ (n \in byHand \/ secret[n] = e.secret)
         \/ process[p].plan = <<"secret", "receipt">>
  BY <1>2, <1>4
<1> QED BY <1>2, <1>3, <1>5, <1>6, <1>7 DEF Steps, n, e

LEMMA WriteSecretKeepsInv ==
  ASSUME ConstantsAreSound, ImportInv, NEW p \in Process, WriteSecret(p)
  PROVE  ImportInv'
<1> DEFINE n == NextName(p)
           e == process[p].selected[n]
           s == [process[p] EXCEPT !.plan = <<"receipt">>]
<1>1. /\ At(p, "write") /\ Head(Steps(p)) = "secret"
      /\ secret' = [secret EXCEPT ![n] = e.secret]
      /\ origin' = [origin EXCEPT ![n] = e]
      /\ byHand' = byHand \ {n}
      /\ process' = IF Len(Steps(p)) = 1 THEN Done(p, n) ELSE [process EXCEPT ![p].plan = Tail(Steps(p))]
      /\ UNCHANGED <<directory, key, receipt, importing, torn, highest, conflict>>
  BY DEF WriteSecret
<1>2. /\ process[p].pc = "write" /\ n \in Name /\ e \in Sealed /\ Left(p) # {}
      /\ receipt[n] # None => receipt[n].revision <= e.revision
      /\ Steps(p) \in {<<"receipt">>, <<"secret", "receipt">>}
      /\ \A m \in Name : Receipting(m) => m = n /\ Steps(p) = <<"receipt">>
  BY <1>1, WriteFacts
<1>3. Steps(p) = <<"secret", "receipt">> /\ Len(Steps(p)) = 2 /\ Tail(Steps(p)) = <<"receipt">>
  <2>1. Head(<<"receipt">>) # "secret"
    OBVIOUS
  <2>2. Steps(p) = <<"secret", "receipt">>
    BY <1>1, <1>2, <2>1
  <2> QED BY <2>2
<1>4. process[p] \in State /\ process \in [Process -> State]
  BY DEF ImportInv, Types
<1>5. process' = [process EXCEPT ![p] = s]
  BY <1>1, <1>3, <1>4
<1>6. /\ s \in State /\ s.plan = <<"receipt">> /\ s.pc = "write" /\ s.held = process[p].held
      /\ s.selected = process[p].selected
  BY <1>2, <1>4 DEF State, PlanList
<1> HIDE DEF s
<1>7. process'[p] = s /\ \A q \in Process \ {p} : process'[q] = process[q] /\ process[q].pc # "write"
  BY <1>2, <1>4, <1>5, OneImporter
<1>8. NextName(p)' = n /\ Left(p)' = Left(p) /\ process'[p].selected[n] = e
  BY <1>6, <1>7 DEF NextName, Left
<1>9. e # None /\ e.secret \in Secret /\ e.secret # None /\ e.revision \in Nat
  BY <1>2, EnvelopeFacts
<1> HIDE DEF n, e
<1>10. /\ secret \in [Name -> Secret \cup {None}] /\ origin \in [Name -> Sealed \cup {None}]
       /\ secret'[n] = e.secret /\ origin'[n] = e
       /\ \A m \in Name \ {n} : secret'[m] = secret[m] /\ origin'[m] = origin[m]
  BY <1>1, <1>2 DEF ImportInv, Types
<1>11. Types'
  <2>1. process' \in [Process -> State] /\ secret' \in [Name -> Secret \cup {None}]
        /\ origin' \in [Name -> Sealed \cup {None}]
    BY <1>1, <1>2, <1>4, <1>5, <1>6, <1>9, <1>10
  <2> QED BY <1>1, <2>1 DEF ImportInv, Types
<1>12. ASSUME NEW q \in Process PROVE Prepared(q)' /\ WritingKey(q)' /\ Locked(q)'
  <2>1. Prepared(q) /\ WritingKey(q) /\ Locked(q)
    BY DEF ImportInv
  <2>2. CASE q = p
    BY <1>1, <1>2, <1>6, <1>7, <2>1, <2>2 DEF Prepared, WritingKey, Locked, At
  <2>3. CASE q # p
    BY <1>1, <1>7, <2>1, <2>3 DEF Prepared, WritingKey, Locked, At
  <2> QED BY <2>2, <2>3
<1>13. ASSUME NEW q \in Process PROVE Importing(q)'
  <2>1. CASE q = p
    <3>1. Left(p)' # {} /\ process'[p].plan # <<>>
      BY <1>2, <1>6, <1>7, <1>8
    <3>2. secret'[n] # None /\ secret'[n] = e.secret
      BY <1>9, <1>10
    <3>3. receipt'[n] # None => receipt'[n].revision <= e.revision
      BY <1>1, <1>2
    <3>4. Importing(p)'
      BY <1>8, <3>1, <3>2, <3>3 DEF Importing
    <3> QED BY <2>1, <3>4
  <2>2. CASE q # p
    BY <1>7, <2>2 DEF Importing, At
  <2> QED BY <2>1, <2>2
<1>14. OneKey'
  <2>1. OneKey /\ \A q \in Process : process'[q].held = process[q].held
    BY <1>6, <1>7 DEF ImportInv
  <2> QED BY <1>1, <2>1 DEF OneKey
<1>15. ASSUME NEW m \in Name PROVE Stored(m)'
  <2>1. Stored(m)
    BY DEF ImportInv
  <2>2. CASE m = n
    <3>1. Receipting(m)'
      BY <1>6, <1>7, <1>8, <2>2 DEF Receipting, At
    <3>2. origin'[n] # None /\ secret'[n] # None /\ secret'[n] = origin'[n].secret
      BY <1>9, <1>10
    <3>3. receipt'[n] = receipt[n] /\ highest'[n] = highest[n]
      BY <1>1
    <3>4. receipt'[n] # None => receipt'[n].revision <= origin'[n].revision
      BY <1>2, <1>10, <3>3
    <3> QED BY <2>1, <2>2, <3>1, <3>2, <3>3, <3>4 DEF Stored
  <2>3. CASE m # n
    <3>1. ~Receipting(m)
      BY <1>2, <2>3
    <3> QED BY <1>1, <1>10, <2>1, <2>3, <3>1 DEF Stored
  <2> QED BY <2>2, <2>3
<1>16. ConflictIsReal'
  BY <1>1 DEF ImportInv, ConflictIsReal
<1> QED BY <1>11, <1>12, <1>13, <1>14, <1>15, <1>16 DEF ImportInv

LEMMA WriteReceiptKeepsInv ==
  ASSUME ConstantsAreSound, ImportInv, NEW p \in Process, WriteReceipt(p)
  PROVE  ImportInv'
<1> DEFINE n == NextName(p)
           e == process[p].selected[n]
           r == [revision |-> e.revision, digest |-> e.digest]
<1>1. /\ At(p, "write") /\ Head(Steps(p)) = "receipt"
      /\ receipt' = [receipt EXCEPT ![n] = r]
      /\ highest' = [highest EXCEPT ![n] = Max({@, e.revision})]
      /\ origin' = [origin EXCEPT ![n] = e]
      /\ torn' = torn \ {n}
      /\ process' = IF Len(Steps(p)) = 1 THEN Done(p, n) ELSE [process EXCEPT ![p].plan = Tail(Steps(p))]
      /\ UNCHANGED <<directory, key, secret, importing, byHand, conflict>>
  BY DEF WriteReceipt
<1>2. /\ process[p].pc = "write" /\ n \in Name /\ e \in Sealed
      /\ receipt[n] # None => receipt[n].revision <= e.revision
      /\ \/ /\ Steps(p) = <<"receipt">> /\ secret[n] # None
            /\ n \in byHand \/ secret[n] = e.secret
         \/ Steps(p) = <<"secret", "receipt">>
      /\ \A m \in Name : Receipting(m) => m = n
  BY <1>1, WriteFacts
<1>3. /\ Steps(p) = <<"receipt">> /\ Len(Steps(p)) = 1
      /\ secret[n] # None /\ (n \in byHand \/ secret[n] = e.secret)
  <2>1. Head(<<"secret", "receipt">>) # "receipt" /\ Len(<<"receipt">>) = 1
    OBVIOUS
  <2> QED BY <1>1, <1>2, <2>1
<1>4. process' = Done(p, n)
  BY <1>1, <1>3
<1>5. e # None /\ e.revision \in Nat /\ e.digest \in Digest
  BY <1>2, EnvelopeFacts
<1> HIDE DEF n, e
<1>6. r \in Receipt /\ r # None /\ r.revision = e.revision /\ r.digest = e.digest
  <2>1. r \in Receipt /\ r.revision = e.revision /\ r.digest = e.digest
    BY <1>5 DEF Receipt
  <2> HIDE DEF r
  <2> QED BY <2>1 DEF ConstantsAreSound
<1> HIDE DEF r
<1>7. /\ process' \in [Process -> State] /\ process'[p].pc = "import"
      /\ \A q \in Process \ {p} : process'[q] = process[q]
      /\ \A q \in Process : Prepared(q)' /\ WritingKey(q)' /\ Locked(q)' /\ Importing(q)'
      /\ OneKey'
  BY <1>1, <1>2, <1>4, DoneKeeps
<1>8. Max({highest[n], e.revision}) = e.revision
  <2>1. Stored(n) /\ highest[n] \in Nat
    BY <1>2 DEF ImportInv, Types
  <2>2. highest[n] <= e.revision
    BY <1>2, <1>5, <2>1 DEF Stored
  <2> QED BY <1>5, <2>1, <2>2, MaxOfTwo
<1>9. /\ receipt \in [Name -> Receipt \cup {None}] /\ origin \in [Name -> Sealed \cup {None}]
      /\ highest \in [Name -> Nat]
  BY DEF ImportInv, Types
<1>10. /\ receipt'[n] = r /\ origin'[n] = e /\ highest'[n] = e.revision
       /\ \A m \in Name \ {n} : /\ receipt'[m] = receipt[m] /\ origin'[m] = origin[m]
                                /\ highest'[m] = highest[m]
  BY <1>1, <1>2, <1>8, <1>9
<1>11. Types'
  <2>1. /\ receipt' \in [Name -> Receipt \cup {None}] /\ origin' \in [Name -> Sealed \cup {None}]
        /\ highest' \in [Name -> Nat]
    BY <1>1, <1>2, <1>5, <1>6, <1>8, <1>9
  <2> QED BY <1>1, <1>7, <2>1 DEF ImportInv, Types
<1>12. ASSUME NEW m \in Name PROVE Stored(m)'
  <2>1. Stored(m)
    BY DEF ImportInv
  <2>2. CASE m = n
    <3>1. /\ receipt'[n] # None /\ origin'[n] # None
          /\ receipt'[n].revision = origin'[n].revision /\ receipt'[n].digest = origin'[n].digest
          /\ highest'[n] = receipt'[n].revision
      BY <1>5, <1>6, <1>10
    <3>2. secret'[n] # None /\ (n \in byHand' \/ secret'[n] = origin'[n].secret)
      BY <1>1, <1>3, <1>10
    <3>3. receipt'[n].revision <= origin'[n].revision
      BY <1>5, <1>6, <1>10
    <3> QED BY <2>2, <3>1, <3>2, <3>3 DEF Stored
  <2>3. CASE m # n
    <3>1. ~Receipting(m) /\ (m \in torn' <=> m \in torn)
      BY <1>1, <1>2, <2>3
    <3> QED BY <1>1, <1>10, <2>1, <2>3, <3>1 DEF Stored
  <2> QED BY <2>2, <2>3
<1>13. ConflictIsReal'
  BY <1>1 DEF ImportInv, ConflictIsReal
<1> QED BY <1>7, <1>11, <1>12, <1>13 DEF ImportInv

(* A secret set by hand, which no lock keeps away from an import.          *)
LEMMA SetByHandKeepsInv ==
  ASSUME ConstantsAreSound, ImportInv, SetByHand
  PROVE  ImportInv'
<1>1. /\ "cli" \in Process /\ At("cli", "set") /\ ~At("cli", "write") /\ Exit("cli")
      /\ UNCHANGED <<directory, key, receipt, origin, torn, highest, conflict>>
  BY DEF SetByHand, At, Process
<1>2. CASE UNCHANGED <<secret, byHand>>
  <2>1. UNCHANGED <<durable, origin, byHand, torn, highest>> /\ ConflictIsReal'
    BY <1>1, <1>2 DEF durable, ImportInv, ConflictIsReal
  <2> QED BY <1>1, <2>1, ExitStep
<1>3. ASSUME NEW n \in Name, NEW value \in Secret,
             secret' = [secret EXCEPT ![n] = value], byHand' = byHand \cup {n}
      PROVE  ImportInv'
  <2>1. /\ importing' \in Process \cup {None} /\ Prepared("cli")'
        /\ \A q \in Process : Locked(q)'
    BY <1>1, ExitUnlocks
  <2>2. process \in [Process -> State] /\ secret \in [Name -> Secret \cup {None}]
    BY DEF ImportInv, Types
  <2>3. process'["cli"] = Exited /\ \A q \in Process \ {"cli"} : process'[q] = process[q]
    BY <1>1, <2>2 DEF Exit
  <2>4. /\ secret'[n] = value /\ value # None
        /\ \A m \in Name \ {n} : secret'[m] = secret[m]
    BY <1>3, <2>2 DEF ConstantsAreSound
  <2>5. Types'
    <3>1. process' \in [Process -> State] /\ secret' \in [Name -> Secret \cup {None}]
      BY <1>1, <1>3, <2>2, ExitedIsState DEF Exit
    <3> QED BY <1>1, <2>1, <3>1 DEF ImportInv, Types
  <2>6. ASSUME NEW q \in Process PROVE Prepared(q)' /\ WritingKey(q)' /\ Importing(q)'
    <3>1. Prepared(q) /\ WritingKey(q) /\ Importing(q)
      BY DEF ImportInv
    <3>2. CASE q = "cli"
      BY <2>1, <2>3, <3>2 DEF WritingKey, Importing, At, Exited
    <3>3. CASE q # "cli"
      <4>1. process'[q] = process[q]
        BY <2>3, <3>3
      <4>2. Prepared(q)' /\ WritingKey(q)'
        BY <1>1, <3>1, <4>1 DEF Prepared, WritingKey, At
      <4>3. Left(q)' = Left(q) /\ NextName(q)' = NextName(q)
        BY <4>1 DEF Left, NextName
      <4>4. At(q, "write") => NextName(q) \in Name
        BY WriteFacts
      <4>5. \A m \in Name : /\ secret[m] # None => secret'[m] # None
                            /\ m \in byHand \/ secret'[m] = secret[m] \/ m \in byHand'
                            /\ m \in byHand => m \in byHand'
        BY <1>3, <2>4
      <4>6. Importing(q)'
        BY <1>1, <3>1, <4>1, <4>3, <4>4, <4>5 DEF Importing, At
      <4> QED BY <4>2, <4>6
    <3> QED BY <3>2, <3>3
  <2>7. OneKey'
    <3>1. OneKey /\ \A k \in KeyFile : Exited.held[k] = None
      BY DEF ImportInv, Exited
    <3> QED BY <1>1, <2>3, <3>1 DEF OneKey
  <2>8. ASSUME NEW m \in Name PROVE Stored(m)'
    <3>1. Stored(m)
      BY DEF ImportInv
    <3>2. Receipting(m) => Receipting(m)'
      BY <1>1, <2>3 DEF Receipting, At, NextName, Left
    <3>3. CASE m = n
      <4>1. m \in byHand' /\ secret'[m] # None
        BY <1>3, <2>4, <3>3
      <4> QED BY <1>1, <3>1, <3>2, <4>1 DEF Stored
    <3>4. CASE m # n
      <4>1. secret'[m] = secret[m] /\ (m \in byHand' <=> m \in byHand)
        BY <1>3, <2>4, <3>4
      <4> QED BY <1>1, <3>1, <3>2, <4>1 DEF Stored
    <3> QED BY <3>3, <3>4
  <2>9. ConflictIsReal'
    BY <1>1 DEF ImportInv, ConflictIsReal
  <2> QED BY <2>1, <2>5, <2>6, <2>7, <2>8, <2>9 DEF ImportInv
<1>4. ASSUME NEW entered \in Entered, Trimmed(entered) # "" PROVE Trimmed(entered) \in Secret
  BY <1>4 DEF ConstantsAreSound
<1> QED BY <1>2, <1>3, <1>4 DEF SetByHand

(* A crash between the two writes of an import tears the name; anywhere    *)
(* else it leaves nothing half done but a key file.                        *)
LEMMA DieKeepsInv ==
  ASSUME ConstantsAreSound, ImportInv, NEW p \in Process, Die(p)
  PROVE  ImportInv'
<1>1. Exit(p) /\ UNCHANGED <<durable, origin, byHand, highest, conflict>>
  BY DEF Die
<1>2. ConflictIsReal'
  BY <1>1 DEF ImportInv, ConflictIsReal
<1>3. CASE ~At(p, "write")
  <2>1. UNCHANGED torn
    BY <1>3 DEF Die
  <2> QED BY <1>1, <1>2, <1>3, <2>1, ExitStep
<1>4. CASE At(p, "write")
  <2> DEFINE n == NextName(p)
  <2>1. /\ process[p].pc = "write" /\ n \in Name
        /\ process[p].plan \in {<<"receipt">>, <<"secret", "receipt">>}
        /\ \A m \in Name : Receipting(m) => m = n /\ process[p].plan = <<"receipt">>
    BY <1>4, WriteFacts DEF Steps
  <2>2. process[p].plan = <<"receipt">> => n \in torn'
    <3>1. Len(<<"receipt">>) = 1 /\ <<"receipt">> # <<"secret">>
      OBVIOUS
    <3> QED BY <1>4, <3>1 DEF Die
  <2>3. torn \subseteq torn'
    BY DEF Die
  <2> HIDE DEF n
  <2>4. /\ importing' \in Process \cup {None} /\ Prepared(p)'
        /\ \A q \in Process : Locked(q)'
    BY <1>1, ExitUnlocks
  <2>5. process \in [Process -> State]
    BY DEF ImportInv, Types
  <2>6. process'[p] = Exited /\ \A q \in Process \ {p} : process'[q] = process[q] /\ process[q].pc # "write"
    BY <1>1, <2>1, <2>5, OneImporter DEF Exit
  <2>7. Types'
    <3>1. process' \in [Process -> State]
      BY <1>1, <2>5, ExitedIsState DEF Exit
    <3> QED BY <1>1, <2>4, <3>1 DEF ImportInv, Types, durable
  <2>8. ASSUME NEW q \in Process PROVE Prepared(q)' /\ WritingKey(q)' /\ Importing(q)'
    <3>1. Prepared(q) /\ WritingKey(q)
      BY DEF ImportInv
    <3>2. CASE q = p
      BY <2>4, <2>6, <3>2 DEF WritingKey, Importing, At, Exited
    <3>3. CASE q # p
      BY <1>1, <2>6, <3>1, <3>3 DEF Prepared, WritingKey, Importing, At, durable
    <3> QED BY <3>2, <3>3
  <2>9. OneKey'
    <3>1. OneKey /\ \A k \in KeyFile : Exited.held[k] = None
      BY DEF ImportInv, Exited
    <3> QED BY <1>1, <2>6, <3>1 DEF OneKey, durable
  <2>10. ASSUME NEW m \in Name PROVE Stored(m)'
    <3>1. Stored(m)
      BY DEF ImportInv
    <3>2. m \in torn \/ Receipting(m) => m \in torn'
      BY <2>1, <2>2, <2>3
    <3> QED BY <1>1, <3>1, <3>2 DEF Stored, durable
  <2> QED BY <1>2, <2>4, <2>7, <2>8, <2>9, <2>10 DEF ImportInv
<1> QED BY <1>3, <1>4

-----------------------------------------------------------------------------
LEMMA NextKeepsImportInv ==
  ASSUME ConstantsAreSound, ImportInv, [Next]_vars
  PROVE  ImportInv'
<1>1. CASE Install
  <2>1. directory' \in [Path -> Sealed \cup {None}]
    BY <1>1, FilesAreSealed DEF Install
  <2> QED BY <1>1, <2>1, InstallKeepsInv DEF Install
<1>2. CASE StartDaemon \/ Command
  BY <1>2, CommandKeepsInv
<1>3. CASE SetByHand
  BY <1>3, SetByHandKeepsInv
<1>4. CASE OpenEnvelope
  BY <1>4, OpenEnvelopeKeepsInv
<1>5. CASE ListFiles
  BY <1>5, ListFilesKeepsInv
<1>6. CASE ReadFile
  BY <1>6, ReadFileKeepsInv
<1>7. ASSUME NEW p \in Process,
             \/ CreateKey(p) \/ WriteKey(p) \/ LoadKey(p) \/ Lock(p) \/ Decide(p)
             \/ WriteSecret(p) \/ WriteReceipt(p) \/ EndImport(p) \/ Die(p)
      PROVE  ImportInv'
  BY <1>7, CreateKeyKeepsInv, WriteKeyKeepsInv, LoadKeyKeepsInv, LockKeepsInv, DecideKeepsInv,
     WriteSecretKeepsInv, WriteReceiptKeepsInv, EndImportKeepsInv, DieKeepsInv
<1>8. CASE UNCHANGED vars
  BY <1>8, InstallKeepsInv DEF vars, durable, ImportInv, Types
<1> QED BY <1>1, <1>2, <1>3, <1>4, <1>5, <1>6, <1>7, <1>8 DEF Next

(* Deployed credentials, whatever is installed and whenever a process dies *)
(* (reconcile_deployment_files, import_deployed_secret): no receipt        *)
(* vouches for a secret that is not there, no revision is rolled back, no  *)
(* conflict is reported without a cause, and all hold one key.             *)
THEOREM ImportsStaySound ==
  ASSUME ConstantsAreSound
  PROVE  Spec => []ImportsAreSound
<1>1. Init => ImportInv
  BY ImportInit
<1>2. ImportInv /\ [Next]_vars => ImportInv'
  BY NextKeepsImportInv
<1>3. ImportInv => ImportsAreSound
  BY ImportInvSuffices
<1> QED BY <1>1, <1>2, <1>3, PTL DEF Spec

=============================================================================
