-------------------------- MODULE RisingScanProofs --------------------------
(***************************************************************************)
(* Proofs about one rising input, for every number of rows, faults, edits  *)
(* and scans, and every page, request and overlap size.                    *)
(*                                                                         *)
(* The invariant says what the durable state and the spool look like       *)
(* between any two durable effects: the scan is before a page, or holds    *)
(* one reference that is unreceipted or receipted, with one file or none;  *)
(* and which rows the sink has by then.                                    *)
(***************************************************************************)
EXTENDS RisingScan, TLAPS, FiniteSetTheorems

-----------------------------------------------------------------------------
(* The durable state.                                                      *)

\* One reference at most, numbered after the compacted prefix.
Numbered(s) ==
  /\ \/ s.segments = <<>>
     \/ LET ref == s.segments[1] IN
        /\ s.segments = <<ref>> /\ ref \in Reference
        /\ ref.sequence = s.compacted + 1 /\ ref.page = ref.sequence /\ ref.rows > 0
  /\ s.compacted <= s.delivered /\ s.delivered <= SegmentCount(s)
  /\ s.nextPage = SegmentCount(s) + 1

\* The maximum is the later of the resume cursor and the committed one, and there are no more rows
\* than positions up to the resume cursor.
CursorsSound(s) ==
  /\ IF SegmentCount(s) = 0
     THEN s.resume = NoCursor /\ s.maximum = NoCursor
     ELSE /\ s.resume > 0 /\ s.maximum >= s.resume /\ s.maximum >= s.base
          /\ s.maximum \in {s.resume, s.base}
  /\ s.compacted = 0 <=> s.compactedRows = 0
  /\ SealedRows(s) <= s.resume

ProgressSound(s, active) ==
  /\ active.collection = IF s.complete THEN CollectionCompletedState(SealedRows(s), s.maximum)
                                       ELSE CollectionInProgress
  /\ \/ active.delivery = DeliveryIn("InProgress")
     \/ /\ s.complete /\ s.delivered = SegmentCount(s)
        /\ active.delivery = DeliveryConfirmedState(SealedRows(s))

FenceOf(c, attempt) == [attempt |-> attempt, config |-> c.config, generation |-> c.generation]

ScanSound(s, c) ==
  /\ s \in Scan
  /\ c.active # None /\ c.active.fence = FenceOf(c, s.attempt) /\ c.generation < MaxScans
  /\ s.base = c.committed
  /\ Numbered(s) /\ CursorsSound(s) /\ ProgressSound(s, c.active)

StateSound(st) ==
  /\ st \in InputState
  /\ st.configGeneration \in 1 .. (MaxEdits + 1)
  /\ st.coordinator.config = ConfigurationFence(st.fingerprint, st.configGeneration)
  /\ ValidLast(st.coordinator)
  /\ IF st.scan = None THEN st.coordinator.active = None ELSE ScanSound(st.scan, st.coordinator)

-----------------------------------------------------------------------------
(* The spool.                                                              *)

\* What the connector and the tracker say of a page with rows.
PageSound(f, st) ==
  /\ f.rows # {} /\ f.resume > st.scan.resume
  /\ \A r \in f.rows : r > st.scan.resume /\ r <= f.resume
  /\ Cardinality(f.rows) > 0 /\ Cardinality(f.rows) + st.scan.resume <= f.resume
  /\ f.candidate >= f.resume /\ f.candidate >= st.coordinator.committed
  /\ f.candidate \in {f.resume, st.coordinator.committed}

\* A sealed page the scan has not adopted.
OrphanSound(f, st) ==
  /\ f.life = "ready" /\ ~st.scan.complete /\ f.page = st.scan.nextPage
  /\ f.request = <<st.coordinator.committed, st.scan.resume>>
  /\ PageSound(f, st)

\* The file of the one reference.
LocatedSound(f, st) ==
  LET ref == st.scan.segments[1] IN
  /\ f.id = ref.id /\ f.page = ref.page /\ Cardinality(f.rows) = ref.rows
  /\ f.resume = st.scan.resume
  /\ ~st.scan.complete => f.truncated

\* The listed files of an input in a state.
ListSound(st, listed) ==
  IF st.scan = None THEN listed = {}
  ELSE /\ \A f \in listed : InFence(f, st) /\ \A r \in f.rows : r <= f.resume
       /\ st.scan.segments = <<>> => \A f \in listed : OrphanSound(f, st)
       /\ st.scan.segments # <<>> =>
            /\ \A f \in listed : LocatedSound(f, st)
            /\ st.scan.delivered = st.scan.compacted => listed # {}
            /\ st.scan.delivered > st.scan.compacted => \A f \in listed : f.life = "delivered"

SpoolSound ==
  /\ files \subseteq Segment
  /\ files = {} \/ \E f \in files : files = {f}
  /\ \A f \in files : f.life = "open" => daemon.pc \in {"down", "page", "collected"}
  /\ IF state = None THEN files = {} ELSE StateSound(state) /\ ListSound(state, Listed)

-----------------------------------------------------------------------------
(* The rows.                                                               *)

\* Every row up to p is in Splunk or among those rows.
Covered(p, rows) == \A r \in source : r <= p => r \in indexed \/ r \in rows

FileSound(f) ==
  /\ f.resume <= inserted /\ Covered(f.resume, f.rows)
  /\ f.life = "delivered" => f.rows \subseteq indexed
  /\ f.life = "ready" => \A r \in f.rows : <<f.generation, r>> \notin receipts

\* Receipts of the current generation are of pages the resume cursor has passed.
ReceiptsSound ==
  /\ receipts \subseteq Generation \X Row
  /\ \A g \in Generation, r \in Row : <<g, r>> \in receipts =>
       /\ state # None /\ g <= state.coordinator.generation
       /\ g = state.coordinator.generation => state.scan # None /\ r <= state.scan.resume

RowsSound ==
  /\ inserted \in 0 .. MaxInserts /\ source \subseteq 1 .. inserted /\ indexed \subseteq 1 .. inserted
  /\ Committed <= inserted /\ Covered(Committed, {})
  /\ state # None /\ state.scan # None => state.scan.resume <= inserted
  /\ NothingLost
  /\ \A f \in Listed : FileSound(f)
  /\ ReceiptsSound

-----------------------------------------------------------------------------
(* The daemon.                                                             *)

\* A scan whose next page can be collected.
BetweenPages == state # None /\ state.scan # None /\ ~state.scan.complete /\ state.scan.segments = <<>>

\* The page in flight is one of the current scan's.
PageInFlight ==
  LET f == daemon.page IN
  /\ BetweenPages /\ Listed = {} /\ state.fingerprint = daemon.prepared
  /\ f \in Segment /\ f.life = "open" /\ f.fingerprint = state.fingerprint
  /\ f.configGeneration = state.configGeneration /\ f.attempt = state.scan.attempt
  /\ f.generation = state.coordinator.generation /\ f.page = state.scan.nextPage
  /\ f.request = <<state.coordinator.committed, state.scan.resume>>
  /\ daemon.pc # "page" /\ f.rows # {} =>
       PageSound(f, state) /\ f.resume <= inserted /\ Covered(f.resume, f.rows)
  /\ daemon.pc = "empty" => f.rows = {}

DaemonSound ==
  /\ daemon \in [pc: {"down", "idle", "reconcile", "wave", "page", "collected", "empty"},
                 prepared: Fingerprint, page: Segment \cup {None}, unsent: {None} \cup SUBSET Row]
  /\ daemon.page # None <=> daemon.pc \in {"page", "collected", "empty"}
  /\ daemon.page # None => PageInFlight
  /\ daemon.unsent # None =>
       /\ daemon.pc = "reconcile" /\ daemon.unsent \subseteq 1 .. inserted
       /\ state.scan.segments # <<>> /\ state.scan.delivered = state.scan.compacted
       /\ \A f \in Listed : f.life = "ready" /\ \A r \in f.rows : r \in indexed \/ r \in daemon.unsent
  /\ daemon.pc = "reconcile" => state # None /\ state.scan # None /\ state.fingerprint = daemon.prepared
  /\ daemon.pc = "wave" => /\ Listed = {}
                           /\ state # None => state.fingerprint = daemon.prepared
                           /\ state # None /\ state.scan # None => BetweenPages

\* Every activation and every revision still to be loaded or activated has an edit of its own.
Differ(v, w) == IF v = w THEN 0 ELSE 1
EditsSound ==
  /\ configured \in Fingerprint /\ edits \in 0 .. MaxEdits
  /\ LET pending == Differ(daemon.prepared, configured) IN
     IF state = None THEN pending <= edits
     ELSE state.configGeneration + Differ(state.fingerprint, daemon.prepared) + pending <= edits + 1

\* The inductive invariant.
ScanInv == SpoolSound /\ RowsSound /\ DaemonSound /\ EditsSound /\ ~refused

-----------------------------------------------------------------------------
(* Scans with one reference or none.                                       *)

(* Arithmetic, apart from the assumptions on the constants.                *)
LEMMA Chained == \A x, y, z \in Nat : x <= y /\ y <= z => x <= z
OBVIOUS

LEMMA ChainedSum ==
  \A a, b, x, y \in Nat : a <= x /\ b + x <= y /\ b > 0 => a + b <= y /\ y > 0
OBVIOUS

LEMMA Successor == \A x \in Nat : x + 1 \in Nat /\ x + 1 # x /\ x <= x + 1 /\ x <= x /\ x + 1 # 0
OBVIOUS

USE PositionAssumption, RowCountAssumption, GenerationAssumption, NoneAssumption,
    ScanNoneAssumption, SizeAssumption, BoundAssumption, ValueAssumption, SegmentNoneAssumption

(* The sum over the references is a fold over their indices.               *)
LEMMA RowsOfShort ==
  /\ RowsOf(<<>>) = 0
  /\ \A ref : ref.rows \in Nat => RowsOf(<<ref>>) = ref.rows
<1> DEFINE Adds(f, g, S) ==
             g = [t \in SUBSET S |-> IF t = {} THEN 0 ELSE f[CHOOSE x \in t : TRUE] + g[t \ {CHOOSE x \in t : TRUE}]]
           sum(f, S) == CHOOSE g : Adds(f, g, S)
<1>1. \A f : SumFunction(f) = sum(f, DOMAIN f)[DOMAIN f]
  BY DEF SumFunction, SumFunctionOnSet, FoldFunctionOnSet, MapThenFoldSet
<1>2. RowsOf(<<>>) = 0
  <2> DEFINE f == [i \in DOMAIN <<>> |-> <<>>[i].rows]
             g == [t \in {{}} |-> 0]
  <2>1. DOMAIN f = {}
    OBVIOUS
  <2>2. SUBSET {} = {{}}
    OBVIOUS
  <2>3. Adds(f, g, {})
    BY <2>2
  <2>4. Adds(f, sum(f, {}), {})
    BY <2>3
  <2>5. sum(f, {})[{}] = 0
    <3> HIDE DEF f, sum
    <3> QED BY <2>4
  <2>6. SumFunction(f) = 0
    BY <1>1, <2>1, <2>5
  <2> QED BY <2>6 DEF RowsOf
<1>3. ASSUME NEW ref, ref.rows \in Nat PROVE RowsOf(<<ref>>) = ref.rows
  <2> DEFINE f == [i \in DOMAIN <<ref>> |-> <<ref>>[i].rows]
             g == [t \in {{}, {1}} |-> IF t = {} THEN 0 ELSE ref.rows]
  <2>1. DOMAIN f = {1} /\ f[1] = ref.rows
    OBVIOUS
  <2>2. SUBSET {1} = {{}, {1}} /\ (CHOOSE x \in {1} : TRUE) = 1 /\ {1} \ {1} = {}
    OBVIOUS
  <2>3. Adds(f, g, {1})
    <3> HIDE DEF f
    <3>1. \A t \in SUBSET {1} :
            g[t] = IF t = {} THEN 0 ELSE f[CHOOSE x \in t : TRUE] + g[t \ {CHOOSE x \in t : TRUE}]
      <4> SUFFICES ASSUME NEW t \in {{}, {1}}
                   PROVE g[t] = IF t = {} THEN 0 ELSE f[CHOOSE x \in t : TRUE] + g[t \ {CHOOSE x \in t : TRUE}]
        BY <2>2
      <4>1. CASE t = {}
        BY <4>1
      <4>2. CASE t = {1}
        <5>1. g[{1}] = ref.rows /\ g[{}] = 0
          OBVIOUS
        <5> HIDE DEF g
        <5>2. f[1] + g[{}] = g[{1}]
          BY <1>3, <2>1, <5>1
        <5> QED BY <2>2, <4>2, <5>2
      <4> QED BY <4>1, <4>2
    <3>2. g = [t \in SUBSET {1} |-> g[t]]
      BY <2>2
    <3> HIDE DEF g
    <3>3. g = [t \in SUBSET {1} |->
                IF t = {} THEN 0 ELSE f[CHOOSE x \in t : TRUE] + g[t \ {CHOOSE x \in t : TRUE}]]
      BY <3>1, <3>2
    <3> QED BY <3>3
  <2>4. Adds(f, sum(f, {1}), {1})
    <3> HIDE DEF f, g, Adds
    <3> QED BY <2>3
  <2>5. sum(f, {1})[{1}] = ref.rows
    <3> HIDE DEF f, sum
    <3>1. sum(f, {1})[{}] = 0
      BY <2>4
    <3>2. sum(f, {1})[{1}] = f[1] + sum(f, {1})[{}]
      BY <2>2, <2>4
    <3> QED BY <1>3, <2>1, <3>1, <3>2
  <2>6. SumFunction(f) = ref.rows
    <3> HIDE DEF sum
    <3> QED BY <1>1, <2>1, <2>5
  <2> QED BY <2>6 DEF RowsOf
<1> QED BY <1>2, <1>3

(* The count and the rows of a scan with one reference or none.            *)
LEMMA ScanCounts ==
  ASSUME NEW s \in Scan
  PROVE  /\ s.compacted \in Nat /\ s.compactedRows \in Nat /\ s.delivered \in Nat /\ s.nextPage \in Nat
         /\ s.resume \in Nat /\ s.maximum \in Nat /\ s.base \in Nat
         /\ s.segments = <<>> => SealedRows(s) = s.compactedRows /\ SegmentCount(s) = s.compacted
         /\ \A ref \in Reference : s.segments = <<ref>> =>
              SealedRows(s) = s.compactedRows + ref.rows /\ SegmentCount(s) = s.compacted + 1
<1>1. /\ s.compacted \in Nat /\ s.compactedRows \in Nat /\ s.delivered \in Nat /\ s.nextPage \in Nat
      /\ s.resume \in Nat /\ s.maximum \in Nat /\ s.base \in Nat
  BY DEF Scan, OptCursor, NoCursor
<1>2. ASSUME s.segments = <<>> PROVE SealedRows(s) = s.compactedRows /\ SegmentCount(s) = s.compacted
  BY <1>1, <1>2, RowsOfShort DEF SealedRows, SegmentCount
<1>3. ASSUME NEW ref \in Reference, s.segments = <<ref>>
      PROVE  SealedRows(s) = s.compactedRows + ref.rows /\ SegmentCount(s) = s.compacted + 1
  <2>1. ref.rows \in Nat
    BY DEF Reference
  <2> QED BY <1>1, <1>3, <2>1, RowsOfShort DEF SealedRows, SegmentCount
<1> QED BY <1>1, <1>2, <1>3

\* The shape of a numbered scan: what its one reference says, or that there is none.
OneOrNone(s) ==
  \/ s.segments = <<>> /\ SealedRows(s) = s.compactedRows /\ SegmentCount(s) = s.compacted
  \/ LET ref == s.segments[1] IN
     /\ s.segments = <<ref>> /\ s.segments # <<>>
     /\ ref \in Reference /\ ref.id \in SegmentId
     /\ ref.sequence = s.compacted + 1 /\ ref.page = ref.sequence
     /\ ref.rows \in Nat /\ ref.rows > 0
     /\ SealedRows(s) = s.compactedRows + ref.rows /\ SegmentCount(s) = s.compacted + 1

LEMMA NumberedShape ==
  ASSUME NEW s \in Scan, Numbered(s)
  PROVE  /\ OneOrNone(s)
         /\ SealedRows(s) \in Nat /\ SegmentCount(s) \in Nat
         /\ s.delivered \in {s.compacted, s.compacted + 1}
<1>1. CASE s.segments = <<>>
  <2>1. OneOrNone(s) /\ SealedRows(s) \in Nat /\ SegmentCount(s) \in Nat /\ SegmentCount(s) = s.compacted
    BY <1>1, ScanCounts DEF OneOrNone
  <2> QED BY <2>1, ScanCounts DEF Numbered
<1>2. CASE s.segments # <<>>
  <2> DEFINE ref == s.segments[1]
  <2>1. /\ s.segments = <<ref>> /\ ref \in Reference
        /\ ref.sequence = s.compacted + 1 /\ ref.page = ref.sequence /\ ref.rows > 0
    BY <1>2 DEF Numbered
  <2> HIDE DEF ref
  <2>2. SealedRows(s) = s.compactedRows + ref.rows /\ SegmentCount(s) = s.compacted + 1
    BY <2>1, ScanCounts
  <2>3. ref.id \in SegmentId /\ ref.rows \in Nat
    BY <2>1 DEF Reference
  <2>4. OneOrNone(s)
    BY <1>2, <2>1, <2>2, <2>3 DEF OneOrNone, ref
  <2>5. s.compacted \in Nat /\ s.compactedRows \in Nat
    BY ScanCounts
  <2>6. SealedRows(s) \in Nat /\ SegmentCount(s) \in Nat
    BY ONLY <2>2, <2>3, <2>5
  <2>7. s.delivered \in {s.compacted, s.compacted + 1}
    <3>1. s.delivered \in Nat
      BY ScanCounts
    <3>2. s.compacted <= s.delivered /\ s.delivered <= s.compacted + 1
      BY <2>2 DEF Numbered
    <3> QED BY ONLY <2>5, <3>1, <3>2
  <2> QED BY <2>4, <2>6, <2>7
<1> QED BY <1>1, <1>2

(* There are rows exactly when there are segments.                         *)
LEMMA RowsAndSegments ==
  ASSUME NEW s \in Scan, Numbered(s), CursorsSound(s)
  PROVE  SealedRows(s) = 0 <=> SegmentCount(s) = 0
<1>1. (s.compacted = 0 <=> s.compactedRows = 0) /\ s.compacted \in Nat /\ s.compactedRows \in Nat
  BY ScanCounts DEF CursorsSound
<1>2. OneOrNone(s)
  BY NumberedShape
<1>3. CASE s.segments = <<>>
  BY <1>1, <1>3, ScanCounts
<1>4. CASE s.segments # <<>>
  <2> DEFINE ref == s.segments[1]
  <2>1. ref.rows \in Nat /\ ref.rows > 0 /\ SealedRows(s) = s.compactedRows + ref.rows
        /\ SegmentCount(s) = s.compacted + 1
    BY <1>2, <1>4 DEF OneOrNone
  <2> HIDE DEF ref
  <2> QED BY <1>1, <2>1
<1> QED BY <1>3, <1>4

(* What the coordinator holds is typed.                                    *)
LEMMA StateTypes ==
  ASSUME NEW st \in InputState
  PROVE  /\ st.fingerprint \in Fingerprint /\ st.configGeneration \in Nat
         /\ st.coordinator \in Snapshot /\ st.coordinator.generation \in Generation
         /\ st.coordinator.generation \in Nat
         /\ st.coordinator.committed \in OptCursor /\ st.coordinator.committed \in Nat
         /\ st.coordinator.active # None => st.coordinator.active \in ActiveAttempt
         /\ st.scan # None => st.scan \in Scan
<1>1. st.coordinator \in Snapshot
  BY DEF InputState
<1>2. /\ st.coordinator.generation \in Generation /\ st.coordinator.generation \in Nat
      /\ st.coordinator.committed \in OptCursor /\ st.coordinator.committed \in Nat
  <2>1. st.coordinator.generation \in Generation /\ st.coordinator.committed \in OptCursor
    BY <1>1 DEF Snapshot
  <2>2. st.coordinator.generation \in Nat
    BY <2>1 DEF Generation
  <2>3. st.coordinator.committed \in Nat
    BY <2>1 DEF OptCursor, NoCursor
  <2> QED BY <2>1, <2>2, <2>3
<1>3. st.coordinator.active # None => st.coordinator.active \in ActiveAttempt
  BY <1>1 DEF Snapshot
<1>4. st.scan # None => st.scan \in Scan
  BY DEF InputState
<1>5. st.fingerprint \in Fingerprint /\ st.configGeneration \in Nat
  BY DEF InputState
<1> QED BY <1>1, <1>2, <1>3, <1>4, <1>5

(* A sound scan is one the store loads.                                    *)
LEMMA SoundScanValid ==
  ASSUME NEW s, NEW c, c.committed \in Nat, ScanSound(s, c)
  PROVE  ValidScan(s, c) /\ ValidActive(c)
<1> DEFINE active == c.active
<1>1. /\ s \in Scan /\ active # None /\ active.fence = FenceOf(c, s.attempt) /\ s.base = c.committed
      /\ Numbered(s) /\ CursorsSound(s) /\ ProgressSound(s, active)
  BY DEF ScanSound
<1> HIDE DEF active
<1>2. /\ OneOrNone(s) /\ SealedRows(s) \in Nat /\ SegmentCount(s) \in Nat
      /\ (SealedRows(s) = 0 <=> SegmentCount(s) = 0)
  BY <1>1, NumberedShape, RowsAndSegments
<1>3. /\ s.compacted \in Nat /\ s.compactedRows \in Nat /\ s.delivered \in Nat /\ s.nextPage \in Nat
      /\ s.resume \in Nat /\ s.maximum \in Nat /\ s.base \in Nat
  BY <1>1, ScanCounts
<1>4. ValidReceipts(s)
  <2>1. Len(s.segments) <= MaxSegments
    <3>1. CASE s.segments = <<>>
      BY <3>1
    <3>2. CASE s.segments = <<s.segments[1]>>
      <4>1. Len(s.segments) = 1
        BY <3>2
      <4> QED BY <4>1
    <3> QED BY <1>2, <3>1, <3>2 DEF OneOrNone
  <2> QED BY <1>1, <2>1 DEF ValidReceipts, Numbered, CursorsSound
<1>5. ValidScanCursors(s)
  BY <1>1, <1>2, <1>3 DEF ValidScanCursors, CursorsSound, Numbered, NoCursor
<1>6. ValidReferences(s)
  <2>1. s.nextPage = SegmentCount(s) + 1
    BY <1>1 DEF Numbered
  <2>2. CASE s.segments = <<>>
    BY <2>1, <2>2 DEF ValidReferences, IsInjective
  <2>3. CASE s.segments # <<>>
    <3> DEFINE ref == s.segments[1]
    <3>1. s.segments = <<ref>> /\ ref.sequence = s.compacted + 1 /\ ref.page = ref.sequence /\ ref.rows > 0
      BY <1>2, <2>3 DEF OneOrNone
    <3>2. DOMAIN s.segments = {1}
      BY <3>1
    <3> QED BY <2>1, <3>1, <3>2 DEF ValidReferences, IsInjective
  <2> QED BY <2>2, <2>3
<1>7. ValidProgress(s, active)
  BY <1>1 DEF ValidProgress, ProgressSound, CollectionCompletedState, CollectionInProgress,
              DeliveryIn, DeliveryConfirmedState
<1>8. active.fence.attempt = s.attempt /\ active.fence.config = c.config
      /\ active.fence.generation = c.generation
  BY <1>1 DEF FenceOf
<1>9. active.collection.state = "Completed" =>
        ValidCandidate(c.committed, active.collection.rows, active.collection.candidate)
  <2>1. CASE s.complete
    <3>1. active.collection.rows = SealedRows(s) /\ active.collection.candidate = s.maximum
      BY <1>1, <2>1 DEF ProgressSound, CollectionCompletedState
    <3> QED BY <1>1, <1>2, <1>3, <3>1 DEF ValidCandidate, CursorsSound, NoCursor
  <2>2. CASE ~s.complete
    BY <1>1, <2>2 DEF ProgressSound, CollectionInProgress
  <2> QED BY <2>1, <2>2
<1> QED BY <1>1, <1>4, <1>5, <1>6, <1>7, <1>8, <1>9 DEF ValidScan, ValidActive, active

(* A sound state is one the store loads.                                   *)
LEMMA SoundStateValid ==
  ASSUME NEW st, StateSound(st)
  PROVE  ValidState(st) /\ Validate(st.coordinator)
<1>1. st \in InputState /\ st.coordinator.committed \in Nat
  BY StateTypes DEF StateSound
<1>2. CASE st.scan = None
  BY <1>2 DEF StateSound, ValidState, Validate, ValidActive
<1>3. CASE st.scan # None
  <2>1. ValidScan(st.scan, st.coordinator) /\ ValidActive(st.coordinator)
    BY <1>1, <1>3, SoundScanValid DEF StateSound
  <2> QED BY <1>3, <2>1 DEF StateSound, ValidState, Validate
<1> QED BY <1>2, <1>3

(* At most one listed file.                                                *)
LEMMA ListedOne ==
  ASSUME SpoolSound
  PROVE  /\ Listed \subseteq Segment /\ Listed \subseteq files
         /\ Listed = {} \/ \E f \in files : Listed = {f} /\ files = {f} /\ f.life # "open"
         /\ \A S \in SUBSET files : Cardinality(S) <= 1
<1>1. files \subseteq Segment /\ (files = {} \/ \E f \in files : files = {f})
  BY DEF SpoolSound
<1>2. Listed = {} \/ \E f \in files : Listed = {f} /\ files = {f} /\ f.life # "open"
  BY <1>1 DEF Listed
<1>3. ASSUME NEW S \in SUBSET files PROVE Cardinality(S) <= 1
  <2>1. S = {} \/ \E f \in files : S = {f}
    BY <1>1, <1>3
  <2>2. CASE S = {}
    <3>1. Cardinality(S) = 0
      BY <2>2, FS_EmptySet
    <3> QED BY <3>1
  <2>3. CASE \E f \in files : S = {f}
    <3>1. Cardinality(S) = 1
      BY <2>3, FS_Singleton
    <3> QED BY <3>1
  <2> QED BY <2>1, <2>2, <2>3
<1> QED BY <1>1, <1>2, <1>3 DEF Listed

(* What the invariant says of an input that exists is what reconcile asks  *)
(* of the inventory.                                                       *)
LEMMA InventoryFromSound ==
  ASSUME SpoolSound, state # None
  PROVE  InventoryAccepted(state) /\ StateSound(state)
<1>1. StateSound(state) /\ ListSound(state, Listed)
  BY DEF SpoolSound
<1>2. CASE state.scan = None
  BY <1>1, <1>2 DEF ListSound, InventoryAccepted
<1>3. CASE state.scan # None
  <2> DEFINE s == state.scan
  <2>1. s \in Scan /\ Numbered(s)
    BY <1>1, <1>3 DEF StateSound, ScanSound
  <2>2. OneOrNone(s) /\ SegmentCount(s) \in Nat /\ s.delivered \in {s.compacted, s.compacted + 1}
        /\ s.compacted \in Nat
    BY <2>1, NumberedShape, ScanCounts
  <2>3. \A f \in Listed : InFence(f, state)
    BY <1>1, <1>3 DEF ListSound
  <2>4. Orphans(s) \subseteq files /\ Cardinality(Orphans(s)) <= 1
    <3>1. Orphans(s) \subseteq files
      BY DEF Orphans, Listed
    <3> QED BY <3>1, ListedOne
  <2>5. CASE s.segments = <<>>
    <3>1. \A f \in Listed : f.life = "ready" /\ ~s.complete /\ f.page = s.nextPage
      BY <1>1, <1>3, <2>5 DEF ListSound, OrphanSound
    <3>2. Adoptable(s)
      BY <2>4, <3>1 DEF Adoptable, Orphans
    <3>3. DOMAIN s.segments = {}
      BY <2>5
    <3> QED BY <1>1, <1>3, <2>3, <3>2, <3>3 DEF InventoryAccepted
  <2>6. CASE s.segments # <<>>
    <3> DEFINE ref == s.segments[1]
    <3>1. s.segments = <<ref>> /\ ref.sequence = s.compacted + 1 /\ SegmentCount(s) = s.compacted + 1
      BY <2>2, <2>6 DEF OneOrNone
    <3>2. DOMAIN s.segments = {1}
      BY <3>1
    <3>3. /\ \A f \in Listed : LocatedSound(f, state)
          /\ s.delivered = s.compacted => Listed # {}
          /\ s.delivered > s.compacted => \A f \in Listed : f.life = "delivered"
      BY <1>1, <1>3, <2>6 DEF ListSound
    <3>4. \A f \in Listed : f.id = ref.id /\ f.page = ref.page /\ Cardinality(f.rows) = ref.rows
                            /\ (~s.complete => f.truncated)
      BY <3>3 DEF LocatedSound
    <3>5. {f \in Listed : f.id = ref.id} = Listed
      BY <3>4
    <3>6. \A f \in Listed : MatchesReference(f, ref, s)
      BY <2>2, <3>1, <3>4 DEF MatchesReference
    <3>7. Orphans(s) = {}
      BY <3>2, <3>4 DEF Orphans, Referenced
    <3>8. Adoptable(s)
      BY <2>4, <3>7 DEF Adoptable
    <3>9. IF ref.sequence <= s.delivered THEN \A f \in Listed : f.life = "delivered" ELSE Listed # {}
      BY <2>2, <3>1, <3>3
    <3>10. \A i \in DOMAIN s.segments :
             LET r == s.segments[i]
                 located == {f \in Listed : f.id = r.id} IN
             /\ \A f \in located : MatchesReference(f, r, s)
             /\ IF r.sequence <= s.delivered
                THEN \A f \in located : f.life = "delivered"
                ELSE located # {}
      BY <3>2, <3>5, <3>6, <3>9
    <3> QED BY <1>1, <1>3, <2>3, <3>8, <3>10 DEF InventoryAccepted
  <2> QED BY <2>5, <2>6
<1> QED BY <1>1, <1>2, <1>3

(* An incomplete segment belongs to a scan, also while the daemon is down. *)
HasScan == state # None /\ state.scan # None
OpenInScan == \A f \in files : f.life = "open" => HasScan

LEMMA OpenKeeps == ASSUME ScanInv, OpenInScan, [Next]_vars PROVE OpenInScan'
<1>1. \A f \in files : f.life = "open" => daemon.pc \in {"down", "page", "collected"}
  BY DEF ScanInv, SpoolSound
<1>2. CASE state' = state /\ \A f \in files' : f.life = "open" => f \in files
  BY <1>2 DEF OpenInScan, HasScan
<1>3. CASE daemon.pc \notin {"down", "page", "collected"} /\ files' = files
  BY <1>1, <1>3 DEF OpenInScan
<1>4. CASE StartDaemon \/ StartRefused
  <2>1. files' = Listed
    BY <1>4 DEF StartDaemon, StartRefused, OpenSpool
  <2> QED BY <2>1 DEF OpenInScan, Listed
<1>5. CASE \/ Crash \/ EditConfiguration \/ Reload \/ BeginReconcile \/ AbortReconcile \/ Poll
           \/ SendBatch \/ NeedsCollection \/ CollectPage
           \/ InsertRow \/ DeleteRow \/ ReconcileRefused \/ UNCHANGED vars
  <2>1. UNCHANGED <<state, files>>
    <3>1. CASE Crash \/ EditConfiguration \/ Reload \/ BeginReconcile \/ AbortReconcile \/ Poll
      BY <3>1 DEF Crash, EditConfiguration, Reload, BeginReconcile, AbortReconcile, Poll, durable
    <3>2. CASE SendBatch \/ NeedsCollection \/ CollectPage
      BY <3>2 DEF SendBatch, NeedsCollection, CollectPage, durable
    <3>3. CASE InsertRow \/ DeleteRow
      BY <3>3 DEF InsertRow, DeleteRow, durable
    <3>4. CASE ReconcileRefused \/ UNCHANGED vars
      <4>1. UNCHANGED vars
        BY <3>4 DEF ReconcileRefused
      <4> QED BY <4>1 DEF vars, durable
    <3> QED BY <1>5, <3>1, <3>2, <3>3, <3>4
  <2> QED BY <1>2, <2>1
<1>6. CASE CompactDelivered \/ MarkDelivered \/ SealPage \/ AbortEmptyPage \/ FailPage
           \/ CancelForReload
  <2>1. CASE CompactDelivered
    BY <1>2, <2>1 DEF CompactDelivered
  <2>2. CASE AbortEmptyPage \/ FailPage \/ CancelForReload
    BY <1>2, <2>2 DEF AbortEmptyPage, FailPage, CancelForReload, Listed
  <2>3. \A f \in Segment, l \in {"ready", "delivered"} : [f EXCEPT !.life = l].life # "open"
    BY DEF Segment
  <2>4. CASE MarkDelivered
    <3>1. PICK f \in NextDelivery("ready") : files' = (files \ {f}) \cup {[f EXCEPT !.life = "delivered"]}
      BY <2>4 DEF MarkDelivered
    <3>2. f \in Segment
      BY <3>1 DEF NextDelivery, Listed, ScanInv, SpoolSound
    <3>3. [f EXCEPT !.life = "delivered"].life # "open" /\ state' = state
      BY <2>3, <2>4, <3>2 DEF MarkDelivered
    <3> QED BY <1>2, <3>1, <3>3
  <2>5. CASE SealPage
    <3>1. daemon.page \in Segment
      BY <2>5 DEF SealPage, ScanInv, DaemonSound, PageInFlight
    <3>2. /\ files' = Listed \cup {[daemon.page EXCEPT !.life = "ready"]} /\ state' = state
          /\ [daemon.page EXCEPT !.life = "ready"].life # "open"
      BY <2>3, <2>5, <3>1 DEF SealPage
    <3> QED BY <1>2, <3>2 DEF Listed
  <2> QED BY <1>6, <2>1, <2>2, <2>4, <2>5
<1>7. CASE \/ ActivateRevision \/ Prune \/ AdoptOrphan \/ Receipt \/ ConfirmDelivery \/ CommitScan
           \/ CreateState \/ BeginAttempt \/ RecordEmpty
  <2>1. CASE ActivateRevision \/ CreateState \/ BeginAttempt \/ RecordEmpty
    BY <1>3, <2>1 DEF ActivateRevision, CreateState, BeginAttempt, RecordEmpty
  <2>2. CASE Prune \/ AdoptOrphan \/ Receipt \/ ConfirmDelivery \/ CommitScan
    BY <1>3, <2>2 DEF Prune, AdoptOrphan, Receipt, ConfirmDelivery, CommitScan
  <2> QED BY <1>7, <2>1, <2>2
<1>8. CASE BeginPage
  BY <1>8 DEF BeginPage, OpenInScan, HasScan
<1> QED BY <1>4, <1>5, <1>6, <1>7, <1>8 DEF Next, Reconcile, Collect

(* The invariant gives the four that the model checker checks.             *)
LEMMA InvGivesRecoverable == ASSUME ScanInv, OpenInScan PROVE AlwaysRecoverable
<1>1. SpoolSound /\ RowsSound /\ DaemonSound
  BY DEF ScanInv
<1>2. state # None => state \in InputState /\ ValidState(state) /\ InventoryAccepted(state)
  BY <1>1, InventoryFromSound, SoundStateValid DEF StateSound
<1>3. state = None => files = {}
  BY <1>1 DEF SpoolSound
<1>4. TypeOK
  <2>1. source \cup indexed \subseteq 1 .. inserted
    BY <1>1 DEF RowsSound
  <2>2. daemon.unsent # None => daemon.pc = "reconcile"
    BY <1>1 DEF DaemonSound
  <2>3. files \subseteq Segment
    BY <1>1 DEF SpoolSound
  <2> QED BY <1>1, <1>2, <2>1, <2>2, <2>3 DEF TypeOK, DaemonSound
<1>5. OneSegmentInFlight
  <2>1. Cardinality(files) <= 1
    BY <1>1, ListedOne
  <2>2. ASSUME state # None, state.scan # None PROVE Len(state.scan.segments) <= 1
    <3>1. state.scan \in Scan /\ Numbered(state.scan)
      BY <1>1, <2>2 DEF SpoolSound, StateSound, ScanSound
    <3>2. state.scan.segments = <<>> \/ state.scan.segments = <<state.scan.segments[1]>>
      BY <3>1, NumberedShape DEF OneOrNone
    <3> DEFINE segments == state.scan.segments
    <3>3. CASE segments = <<>>
      BY <3>3
    <3>4. CASE segments = <<segments[1]>>
      <4>1. Len(segments) = 1
        <5> HIDE DEF segments
        <5> QED BY <3>4
      <4> QED BY <4>1
    <3> QED BY <3>2, <3>3, <3>4
  <2> QED BY <2>1, <2>2 DEF OneSegmentInFlight
<1>6. IdleSpoolIsClean
  <2> SUFFICES ASSUME state # None, state.scan = None PROVE files = {}
    BY DEF IdleSpoolIsClean
  <2>1. Listed = {}
    BY <1>2 DEF InventoryAccepted
  <2> QED BY <2>1 DEF OpenInScan, HasScan, Listed
<1> QED BY <1>2, <1>3, <1>4, <1>5, <1>6 DEF AlwaysRecoverable

LEMMA InvGivesRows == ASSUME ScanInv PROVE NoRowLost /\ NeverRefused /\ NoResendAfterReceipt
<1>1. RowsSound /\ ~refused
  BY DEF ScanInv
<1>2. NoRowSkipped
  BY <1>1 DEF RowsSound, Covered, NoRowSkipped
<1>3. NothingLost
  BY <1>1 DEF RowsSound
<1>4. NoResendAfterReceipt
  BY <1>1 DEF RowsSound, FileSound, NoResendAfterReceipt
<1> QED BY <1>1, <1>2, <1>3, <1>4 DEF NoRowLost, NeverRefused

-----------------------------------------------------------------------------
(* What the coordinator does with a call that fits it.                     *)

(* collection_completed on an attempt in progress.                         *)
LEMMA CompletionRecorded ==
  ASSUME NEW c \in Snapshot, Validate(c), c.active # None, NEW a, c.active.fence = FenceOf(c, a),
         c.active.collection = CollectionInProgress,
         NEW rows \in RowCount, NEW candidate \in OptCursor, ValidCandidate(c.committed, rows, candidate),
         NEW n, n = CollectionCompleted(c, FenceOf(c, a), rows, candidate).snap
  PROVE  /\ n \in Snapshot /\ CompletesCollection(c, n) /\ n # c
         /\ n.config = c.config /\ n.generation = c.generation /\ n.committed = c.committed
         /\ n.last = c.last /\ n.active # None /\ n.active.fence = c.active.fence
         /\ n.active.collection = CollectionCompletedState(rows, candidate)
         /\ n.active.delivery = c.active.delivery
<1> DEFINE fact == CollectionCompletedState(rows, candidate)
           active == [c.active EXCEPT !.collection = fact]
           t == [c EXCEPT !.active = active]
<1>1. c.active \in ActiveAttempt
  BY DEF Snapshot
<1>2. fact \in CollectionState /\ fact.state = "Completed" /\ fact.rows = rows /\ fact.candidate = candidate
  BY DEF CollectionCompletedState, CollectionState
<1>3. c.active.collection.state = "InProgress"
  BY DEF CollectionInProgress
<1> HIDE DEF fact
<1>4. /\ active \in ActiveAttempt /\ active # None /\ active.fence = c.active.fence
      /\ active.collection = fact /\ active.delivery = c.active.delivery /\ active # c.active
  BY <1>1, <1>2, <1>3 DEF ActiveAttempt
<1>5. HoldsFence(c, FenceOf(c, a)) /\ c.active.fence.attempt = a
  BY DEF HoldsFence, InContext, FenceOf
<1>6. CollectionCompleted(c, FenceOf(c, a), rows, candidate) = Reply(t, "Recorded")
  BY <1>3, <1>5 DEF CollectionCompleted, RecordCollection, fact
<1>7. n = t
  BY <1>6 DEF Reply
<1> HIDE DEF active
<1>8. /\ t \in Snapshot /\ t # c
      /\ t.config = c.config /\ t.generation = c.generation /\ t.committed = c.committed
      /\ t.last = c.last /\ t.active = active
  BY <1>4 DEF Snapshot
<1>9. CompletesCollection(c, n)
  <2>1. /\ n.active # None /\ n.active.fence = FenceOf(c, a) /\ n.active.collection.state = "Completed"
        /\ n.active.collection.rows = rows /\ n.active.collection.candidate = candidate
    BY <1>2, <1>4, <1>7, <1>8
  <2>2. Yields(CollectionCompleted(c, FenceOf(c, a), rows, candidate), n)
    BY <1>6, <1>7 DEF Yields, Reply
  <2> QED BY <2>1, <2>2 DEF CompletesCollection
<1> QED BY <1>4, <1>7, <1>8, <1>9 DEF fact

(* delivery_confirmed on an attempt in progress.                           *)
LEMMA ConfirmationRecorded ==
  ASSUME NEW c \in Snapshot, Validate(c), c.active # None, NEW a, c.active.fence = FenceOf(c, a),
         c.active.delivery.state = "InProgress", NEW rows \in RowCount,
         NEW n, n = DeliveryConfirmed(c, FenceOf(c, a), rows).snap
  PROVE  /\ n \in Snapshot /\ ChangesDelivery(c, n) /\ n # c
         /\ n.config = c.config /\ n.generation = c.generation /\ n.committed = c.committed
         /\ n.last = c.last /\ n.active # None /\ n.active.fence = c.active.fence
         /\ n.active.collection = c.active.collection
         /\ n.active.delivery = DeliveryConfirmedState(rows)
<1> DEFINE fact == DeliveryConfirmedState(rows)
           active == [c.active EXCEPT !.delivery = fact]
           t == [c EXCEPT !.active = active]
<1>1. c.active \in ActiveAttempt
  BY DEF Snapshot
<1>2. fact \in DeliveryState /\ fact.state = "Confirmed" /\ fact.rows = rows
  BY DEF DeliveryConfirmedState, DeliveryState
<1> HIDE DEF fact
<1>4. /\ active \in ActiveAttempt /\ active # None /\ active.fence = c.active.fence
      /\ active.collection = c.active.collection /\ active.delivery = fact /\ active # c.active
  BY <1>1, <1>2 DEF ActiveAttempt
<1>5. HoldsFence(c, FenceOf(c, a)) /\ c.active.fence.attempt = a
  BY DEF HoldsFence, InContext, FenceOf
<1>6. DeliveryConfirmed(c, FenceOf(c, a), rows) = Reply(t, "Recorded")
  BY <1>5 DEF DeliveryConfirmed, RecordDelivery, fact
<1>7. n = t
  BY <1>6 DEF Reply
<1> HIDE DEF active
<1>8. /\ t \in Snapshot /\ t # c
      /\ t.config = c.config /\ t.generation = c.generation /\ t.committed = c.committed
      /\ t.last = c.last /\ t.active = active
  BY <1>4 DEF Snapshot
<1>9. ChangesDelivery(c, n)
  <2>1. /\ n.active # None /\ n.active.fence = FenceOf(c, a) /\ n.active.delivery.state = "Confirmed"
        /\ n.active.delivery.rows = rows
    BY <1>2, <1>4, <1>7, <1>8
  <2>2. Yields(DeliveryConfirmed(c, FenceOf(c, a), rows), n)
    BY <1>6, <1>7 DEF Yields, Reply
  <2> QED BY <2>1, <2>2 DEF ChangesDelivery
<1> QED BY <1>4, <1>7, <1>8, <1>9 DEF fact

(* commit of an attempt whose two facts agree: its fence is not that of    *)
(* the last commit, which is a generation older.                           *)
LEMMA CommitInstalls ==
  ASSUME NEW c \in Snapshot, Validate(c), c.active # None, NEW a, c.active.fence = FenceOf(c, a),
         a \in AttemptId, ReadyToCommit(c.active), c.generation < MaxGeneration,
         NEW n, n = Commit(c, FenceOf(c, a)).snap
  PROVE  /\ n \in Snapshot /\ Commits(c, n) /\ n # c /\ ValidLast(n)
         /\ n.config = c.config /\ n.generation = c.generation + 1 /\ n.active = None
         /\ n.committed = IF c.active.collection.candidate = NoCursor
                          THEN c.committed ELSE c.active.collection.candidate
<1> DEFINE f == FenceOf(c, a)
           cursor == IF c.active.collection.candidate = NoCursor
                     THEN c.committed ELSE c.active.collection.candidate
           last == [fence |-> f, resulting |-> c.generation + 1]
<1>1. /\ c.active \in ActiveAttempt /\ c.config \in ConfigurationId /\ c.generation \in Generation
      /\ c.committed \in OptCursor
  BY DEF Snapshot
<1>2. c.active.collection \in CollectionState
  BY <1>1 DEF ActiveAttempt
<1>3. cursor \in OptCursor
  BY <1>1, <1>2 DEF CollectionState
<1>4. c.generation \in Nat /\ c.generation + 1 \in Generation
  BY <1>1 DEF Generation
<1>5. f \in Fence /\ f.generation = c.generation /\ f.config = c.config /\ f.attempt = a
  BY <1>1 DEF Fence, FenceOf
<1>6. ~(c.last # None /\ c.last.fence = f)
  <2> SUFFICES ASSUME c.last # None, c.last.fence = f PROVE FALSE
    OBVIOUS
  <2>1. c.last.fence.generation + 1 = c.generation
    BY DEF Validate, ValidLast
  <2> QED BY <1>4, <1>5, <2>1
<1>7. HoldsFence(c, f)
  BY <1>5 DEF HoldsFence, InContext
<1> HIDE DEF f
<1>8. Commit(c, f) = Reply(Promoted(c, f), "Committed")
  BY <1>6, <1>7 DEF Commit
<1>9. n = Promoted(c, f)
  BY <1>8 DEF Reply, f
<1>10. last \in CommittedAttempt /\ last # None /\ last.fence = f /\ last.resulting = c.generation + 1
  BY <1>4, <1>5 DEF CommittedAttempt
<1> HIDE DEF cursor, last
<1>11. n = [config |-> c.config, generation |-> c.generation + 1, committed |-> cursor,
            active |-> None, last |-> last]
  BY <1>9 DEF Promoted, cursor, last
<1>12. /\ n \in Snapshot /\ n.config = c.config /\ n.generation = c.generation + 1 /\ n.active = None
       /\ n.committed = cursor /\ n.last = last
  BY <1>1, <1>3, <1>4, <1>10, <1>11 DEF Snapshot
<1>13. n # c
  BY <1>12
<1>14. ValidLast(n)
  BY <1>4, <1>5, <1>10, <1>12 DEF ValidLast
<1>15. Commits(c, n)
  BY <1>8, <1>9 DEF Commits, Yields, Reply, f
<1> QED BY <1>12, <1>13, <1>14, <1>15 DEF cursor

(* start_attempt when nothing is active.                                   *)
LEMMA StartInstalls ==
  ASSUME NEW c \in Snapshot, Validate(c), c.active = None, NEW a \in AttemptId,
         NEW n, n = StartAttempt(c, FenceOf(c, a)).snap
  PROVE  /\ n \in Snapshot /\ StartsAttempt(c, n) /\ n # c
         /\ n.config = c.config /\ n.generation = c.generation /\ n.committed = c.committed
         /\ n.last = c.last /\ n.active # None /\ n.active.fence = FenceOf(c, a)
         /\ n.active.collection = CollectionInProgress /\ n.active.delivery = DeliveryIn("InProgress")
<1> DEFINE f == FenceOf(c, a)
           active == [fence |-> f, collection |-> CollectionInProgress, delivery |-> DeliveryIn("InProgress")]
           t == [c EXCEPT !.active = active]
<1>1. f \in Fence /\ InContext(c, f.config, f.generation)
  BY DEF Snapshot, Fence, FenceOf, InContext
<1> HIDE DEF f
<1>2. CollectionInProgress \in CollectionState /\ DeliveryIn("InProgress") \in DeliveryState
  BY DEF CollectionInProgress, DeliveryIn, CollectionState, DeliveryState, OptCursor, NoCursor
<1>3. /\ active \in ActiveAttempt /\ active # None /\ active.fence = f
      /\ active.collection = CollectionInProgress /\ active.delivery = DeliveryIn("InProgress")
  BY <1>1, <1>2 DEF ActiveAttempt
<1>4. StartAttempt(c, f) = Reply(t, "Started")
  BY <1>1 DEF StartAttempt
<1>5. n = t
  BY <1>4 DEF Reply, f
<1> HIDE DEF active
<1>6. /\ t \in Snapshot /\ t # c
      /\ t.config = c.config /\ t.generation = c.generation /\ t.committed = c.committed
      /\ t.last = c.last /\ t.active = active
  BY <1>3 DEF Snapshot
<1>7. StartsAttempt(c, n)
  <2>1. n.active # None /\ n.active.fence = f
    BY <1>3, <1>5, <1>6
  <2>2. Yields(StartAttempt(c, f), n)
    BY <1>4, <1>5 DEF Yields, Reply
  <2> QED BY <2>1, <2>2 DEF StartsAttempt
<1> QED BY <1>3, <1>5, <1>6, <1>7 DEF f

-----------------------------------------------------------------------------
(* The scan in progress.                                                   *)

LEMMA ScanTypes ==
  ASSUME SpoolSound, state # None, state.scan # None
  PROVE  LET s == state.scan
             c == state.coordinator IN
         /\ StateSound(state) /\ ListSound(state, Listed) /\ state \in InputState
         /\ c \in Snapshot /\ Validate(c) /\ c.generation \in Nat /\ c.generation < MaxScans
         /\ c.generation < MaxGeneration /\ c.committed \in Nat
         /\ s \in Scan /\ s.attempt \in AttemptId
         /\ c.active # None /\ c.active \in ActiveAttempt
         /\ c.active.fence = FenceOf(c, s.attempt) /\ CurrentFence = FenceOf(c, s.attempt)
         /\ s.base = c.committed /\ Numbered(s) /\ CursorsSound(s) /\ ProgressSound(s, c.active)
<1> DEFINE s == state.scan
           c == state.coordinator
<1>1. StateSound(state) /\ ListSound(state, Listed) /\ state \in InputState
  BY DEF SpoolSound, StateSound
<1>2. c \in Snapshot /\ Validate(c) /\ c.generation \in Nat /\ c.committed \in Nat
  BY <1>1, StateTypes, SoundStateValid
<1>3. /\ s \in Scan /\ c.active # None /\ c.active.fence = FenceOf(c, s.attempt) /\ c.generation < MaxScans
      /\ s.base = c.committed /\ Numbered(s) /\ CursorsSound(s) /\ ProgressSound(s, c.active)
  BY <1>1 DEF StateSound, ScanSound
<1>4. s.attempt \in AttemptId
  BY <1>3 DEF Scan
<1>5. c.active \in ActiveAttempt
  BY <1>1, <1>3, StateTypes
<1>6. CurrentFence = FenceOf(c, s.attempt)
  BY <1>3 DEF CurrentFence, FenceOf
<1>7. c.generation < MaxGeneration
  BY <1>2, <1>3
<1> QED BY <1>1, <1>2, <1>3, <1>4, <1>5, <1>6, <1>7

LEMMA ScanNumbersOf ==
  ASSUME SpoolSound, state # None, state.scan # None
  PROVE  LET s == state.scan IN
         /\ OneOrNone(s) /\ SealedRows(s) \in Nat /\ SegmentCount(s) \in Nat
         /\ s.compacted \in Nat /\ s.compactedRows \in Nat /\ s.delivered \in Nat /\ s.nextPage \in Nat
         /\ s.resume \in Nat /\ s.maximum \in Nat /\ s.base \in Nat
         /\ s.delivered \in {s.compacted, s.compacted + 1} /\ s.delivered <= SegmentCount(s)
         /\ s.nextPage = SegmentCount(s) + 1
         /\ (SealedRows(s) = 0 <=> SegmentCount(s) = 0)
<1>1. state.scan \in Scan /\ Numbered(state.scan) /\ CursorsSound(state.scan)
  BY ScanTypes
<1>2. state.scan.nextPage = SegmentCount(state.scan) + 1 /\ state.scan.delivered <= SegmentCount(state.scan)
  BY <1>1 DEF Numbered
<1> QED BY <1>1, <1>2, ScanCounts, NumberedShape, RowsAndSegments

(* Between pages every listed file is an orphan and nothing is left to     *)
(* receipt, compact or prune.                                              *)
LEMMA NoReference ==
  ASSUME SpoolSound, state # None, state.scan # None, state.scan.segments = <<>>
  PROVE  LET s == state.scan IN
         /\ DOMAIN s.segments = {} /\ Referenced(s) = {} /\ Orphans(s) = Listed
         /\ ReceiptedFiles(s) = {} /\ Removable(s) = 0
         /\ SealedRows(s) = s.compactedRows /\ SegmentCount(s) = s.compacted
         /\ s.delivered = s.compacted
         /\ \A f \in Listed : OrphanSound(f, state)
<1> DEFINE s == state.scan
<1>1. DOMAIN s.segments = {}
  OBVIOUS
<1>2. Referenced(s) = {} /\ Orphans(s) = Listed
  BY <1>1 DEF Referenced, Orphans
<1>3. ReceiptedFiles(s) = {}
  BY <1>1 DEF ReceiptedFiles
<1>4. Removable(s) = 0
  <2>1. {i \in DOMAIN s.segments : s.segments[i].sequence <= s.delivered} = {}
    BY <1>1
  <2> QED BY <2>1, FS_EmptySet DEF Removable
<1>5. SealedRows(s) = s.compactedRows /\ SegmentCount(s) = s.compacted
  BY ScanTypes, ScanCounts
<1>6. s.delivered = s.compacted
  <2>1. s.compacted \in Nat /\ s.delivered \in {s.compacted, s.compacted + 1} /\ s.delivered <= SegmentCount(s)
    BY ScanNumbersOf
  <2>2. \A x \in Nat : ~(x + 1 <= x)
    BY ONLY Successor
  <2> QED BY ONLY <1>5, <2>1, <2>2
<1>7. \A f \in Listed : OrphanSound(f, state)
  BY ScanTypes DEF ListSound
<1> QED BY <1>1, <1>2, <1>3, <1>4, <1>5, <1>6, <1>7

(* With a reference the one listed file, if any, is its own; once it is    *)
(* receipted the file is to be compacted and the reference pruned.         *)
LEMMA OneReference ==
  ASSUME SpoolSound, state # None, state.scan # None, state.scan.segments # <<>>
  PROVE  LET s == state.scan
             ref == s.segments[1] IN
         /\ s.segments = <<ref>> /\ DOMAIN s.segments = {1} /\ ref \in Reference
         /\ ref.sequence = s.compacted + 1 /\ ref.page = ref.sequence
         /\ ref.rows \in Nat /\ ref.rows > 0
         /\ SealedRows(s) = s.compactedRows + ref.rows /\ SegmentCount(s) = s.compacted + 1
         /\ Referenced(s) = {ref.id} /\ Orphans(s) = {}
         /\ ReceiptedFiles(s) = IF s.delivered = s.compacted THEN {} ELSE Listed
         /\ Removable(s) = IF s.delivered = s.compacted THEN 0 ELSE 1
         /\ \A f \in Listed : LocatedSound(f, state) /\ f.id = ref.id
         /\ s.delivered = s.compacted => Listed # {}
         /\ s.delivered # s.compacted => \A f \in Listed : f.life = "delivered"
<1> DEFINE s == state.scan
           ref == s.segments[1]
<1>1. s.compacted \in Nat /\ s.delivered \in {s.compacted, s.compacted + 1} /\ OneOrNone(s)
  BY ScanNumbersOf
<1>2. /\ s.segments = <<ref>> /\ ref \in Reference
      /\ ref.sequence = s.compacted + 1 /\ ref.page = ref.sequence
      /\ ref.rows \in Nat /\ ref.rows > 0
      /\ SealedRows(s) = s.compactedRows + ref.rows /\ SegmentCount(s) = s.compacted + 1
  BY <1>1 DEF OneOrNone
<1>3. DOMAIN s.segments = {1}
  BY <1>2
<1>4. Referenced(s) = {ref.id}
  BY <1>3 DEF Referenced
<1>5. /\ \A f \in Listed : LocatedSound(f, state)
      /\ s.delivered = s.compacted => Listed # {}
      /\ s.delivered > s.compacted => \A f \in Listed : f.life = "delivered"
  BY ScanTypes DEF ListSound
<1>6. \A f \in Listed : f.id = ref.id
  BY <1>5 DEF LocatedSound
<1>7. Orphans(s) = {}
  BY <1>4, <1>6 DEF Orphans
<1>8. s.delivered = s.compacted \/ s.delivered > s.compacted
  BY <1>1
<1>9. ref.sequence <= s.delivered <=> s.delivered # s.compacted
  BY <1>1, <1>2
<1>10. ReceiptedFiles(s) = IF s.delivered = s.compacted THEN {} ELSE Listed
  BY <1>3, <1>6, <1>9 DEF ReceiptedFiles
<1>11. Removable(s) = IF s.delivered = s.compacted THEN 0 ELSE 1
  <2>1. {i \in DOMAIN s.segments : s.segments[i].sequence <= s.delivered} =
          IF s.delivered = s.compacted THEN {} ELSE {1}
    BY <1>3, <1>9
  <2> QED BY <2>1, FS_EmptySet, FS_Singleton DEF Removable
<1> QED BY <1>2, <1>3, <1>4, <1>5, <1>6, <1>7, <1>8, <1>10, <1>11

-----------------------------------------------------------------------------
(* The proposals: the store accepts each, and each is sound.               *)

\* p is st with another coordinator and another scan.
Replaces(st, p, n, s) ==
  /\ p \in InputState /\ p.fingerprint = st.fingerprint /\ p.configGeneration = st.configGeneration
  /\ p.coordinator = n /\ p.scan = s

LEMMA ReplacedState ==
  ASSUME NEW st \in InputState, NEW n \in Snapshot, NEW s \in Scan \cup {None}
  PROVE  /\ Replaces(st, [st EXCEPT !.coordinator = n, !.scan = s], n, s)
         /\ Replaces(st, [st EXCEPT !.scan = s], st.coordinator, s)
         /\ Replaces(st, [st EXCEPT !.coordinator = n], n, st.scan)
BY DEF Replaces, InputState

LEMMA ReplacedSound ==
  ASSUME NEW st, StateSound(st), NEW n, NEW s, NEW p, Replaces(st, p, n, s),
         n.config = st.coordinator.config, ValidLast(n),
         IF s = None THEN n.active = None ELSE ScanSound(s, n)
  PROVE  StateSound(p)
BY DEF StateSound, Replaces

(* Scans with the same references count the same.                          *)
LEMMA SameCounts ==
  ASSUME NEW s, NEW t, t.segments = s.segments, t.compacted = s.compacted, t.compactedRows = s.compactedRows
  PROVE  SealedRows(t) = SealedRows(s) /\ SegmentCount(t) = SegmentCount(s)
BY DEF SealedRows, SegmentCount

(* Sequences of one element or none.                                       *)
LEMMA ShortSequences ==
  ASSUME NEW ref
  PROVE  /\ SubSeq(<<ref>>, 1, 1) = <<ref>> /\ SubSeq(<<ref>>, 2, 1) = <<>> /\ Len(<<ref>>) = 1
         /\ Append(<<>>, ref) = <<ref>> /\ IsPrefix(<<>>, <<ref>>) /\ Len(<<>>) = 0
         /\ <<ref>> # <<>> /\ <<ref>>[1] = ref
<1>0. <<ref>> \in Seq({ref}) /\ Len(<<ref>>) = 1 /\ <<ref>> # <<>> /\ <<ref>>[1] = ref
  OBVIOUS
<1>1. SubSeq(<<ref>>, 1, 1) = <<ref>>
  <2> DEFINE q == SubSeq(<<ref>>, 1, 1)
  <2>1. q \in Seq({ref}) /\ Len(q) = 1 /\ q[1] = ref
    BY <1>0
  <2> HIDE DEF q
  <2>2. q = <<ref>>
    BY <2>1
  <2> QED BY <2>2 DEF q
<1>2. SubSeq(<<ref>>, 2, 1) = <<>>
  OBVIOUS
<1>3. Append(<<>>, ref) = <<ref>> /\ Len(<<>>) = 0
  OBVIOUS
<1>4. SubSeq(<<>>, 1, 0) = SubSeq(<<ref>>, 1, 0)
  OBVIOUS
<1> QED BY <1>0, <1>1, <1>2, <1>3, <1>4 DEF IsPrefix

(* A scan with one more receipt.                                           *)
LEMMA ReceiptAccepted ==
  ASSUME SpoolSound, state # None, state.scan # None,
         state.scan.segments # <<>>, state.scan.delivered = state.scan.compacted
  PROVE  LET t == [state.scan EXCEPT !.delivered = state.scan.compacted + 1] IN
         /\ Accepts(state, ReceiptProposal) /\ StateSound(ReceiptProposal)
         /\ Replaces(state, ReceiptProposal, state.coordinator, t)
<1> DEFINE s == state.scan
           c == state.coordinator
           p == ReceiptProposal
           d == s.compacted + 1
           t == [s EXCEPT !.delivered = d]
<1>1. /\ StateSound(state) /\ state \in InputState /\ c \in Snapshot /\ s \in Scan
      /\ c.active # None /\ c.active.fence = FenceOf(c, s.attempt) /\ c.generation < MaxScans
      /\ s.base = c.committed /\ Numbered(s) /\ CursorsSound(s) /\ ProgressSound(s, c.active)
  BY ScanTypes
<1>2. /\ s.compacted \in Nat /\ SegmentCount(s) = d /\ s.delivered = s.compacted
      /\ d \in Nat /\ d # s.compacted
  <2>1. s.compacted \in Nat
    BY ScanNumbersOf
  <2>2. SegmentCount(s) = d
    BY OneReference
  <2>3. d \in Nat /\ d # s.compacted
    BY ONLY <2>1, Successor
  <2> QED BY ONLY <2>1, <2>2, <2>3, state.scan.delivered = state.scan.compacted
<1>5. p = [state EXCEPT !.scan = t]
  BY <1>1 DEF ReceiptProposal, InputState, Scan
<1>0. state.scan = s /\ state.coordinator = c /\ d = s.compacted + 1
  OBVIOUS
<1> HIDE DEF s, c, d
<1>3. /\ t \in Scan /\ t.attempt = s.attempt /\ t.base = s.base /\ t.resume = s.resume
      /\ t.maximum = s.maximum /\ t.compacted = s.compacted /\ t.compactedRows = s.compactedRows
      /\ t.nextPage = s.nextPage /\ t.complete = s.complete /\ t.segments = s.segments
      /\ t.delivered = d
  BY <1>1, <1>2 DEF Scan
<1>4. t # None
  BY <1>3
<1> HIDE DEF t
<1>6. SealedRows(t) = SealedRows(s) /\ SegmentCount(t) = SegmentCount(s)
  BY <1>3, SameCounts
<1>7. Replaces(state, p, c, t)
  BY <1>0, <1>1, <1>3, <1>5, ReplacedState
<1>8. Numbered(t)
  BY <1>0, <1>1, <1>2, <1>3, <1>6 DEF Numbered
<1>9. CursorsSound(t)
  BY <1>1, <1>3, <1>6 DEF CursorsSound
<1>10. ProgressSound(t, c.active)
  BY <1>1, <1>2, <1>3, <1>6 DEF ProgressSound
<1>11. ScanSound(t, c)
  BY <1>1, <1>3, <1>8, <1>9, <1>10 DEF ScanSound
<1>12. StateSound(p)
  <2>1. ValidLast(c)
    BY <1>0, <1>1 DEF StateSound
  <2> QED BY <1>0, <1>1, <1>4, <1>7, <1>11, <2>1, ReplacedSound
<1>13. ReceiptAdvance(s, t)
  <2>1. t = [s EXCEPT !.delivered = s.delivered + 1]
    BY <1>0, <1>2 DEF t
  <2> QED BY <1>0, <1>2, <2>1 DEF ReceiptAdvance
<1>14. ValidTransition(state, p)
  <2>1. p.fingerprint = state.fingerprint /\ p.configGeneration = state.configGeneration
        /\ p.coordinator = c /\ p.scan = t
    BY <1>7 DEF Replaces
  <2>2. ScanProgress(state, p)
    BY <1>0, <1>2, <1>3, <1>4, <1>13, <2>1 DEF ScanProgress
  <2> QED BY <1>0, <2>1, <2>2 DEF ValidTransition
<1> QED BY <1>7, <1>12, <1>14, SoundStateValid DEF Accepts, t, s, c, d

(* A scan whose one receipted reference is pruned into the prefix.         *)
LEMMA PruneAccepted ==
  ASSUME SpoolSound, state # None, state.scan # None,
         state.scan.segments # <<>>, state.scan.delivered # state.scan.compacted
  PROVE  LET s == state.scan
             t == [s EXCEPT !.compacted = s.compacted + 1,
                            !.compactedRows = s.compactedRows + s.segments[1].rows, !.segments = <<>>] IN
         /\ Accepts(state, PruneProposal) /\ StateSound(PruneProposal)
         /\ Replaces(state, PruneProposal, state.coordinator, t)
<1> DEFINE s == state.scan
           c == state.coordinator
           p == PruneProposal
           ref == s.segments[1]
           r == ref.rows
           n == s.compacted + 1
           k == s.compactedRows + r
           t == [s EXCEPT !.compacted = n, !.compactedRows = k, !.segments = <<>>]
<1>1. /\ StateSound(state) /\ state \in InputState /\ c \in Snapshot /\ s \in Scan
      /\ c.active # None /\ c.active.fence = FenceOf(c, s.attempt) /\ c.generation < MaxScans
      /\ s.base = c.committed /\ Numbered(s) /\ CursorsSound(s) /\ ProgressSound(s, c.active)
  BY ScanTypes
<1>2. /\ s.segments = <<ref>> /\ ref.sequence = n /\ ref.rows \in Nat /\ ref.rows > 0
      /\ SealedRows(s) = k /\ SegmentCount(s) = n /\ Removable(s) = 1
  BY OneReference
<1>3. /\ s.compacted \in Nat /\ s.compactedRows \in Nat /\ s.delivered \in {s.compacted, n}
      /\ s.delivered # s.compacted
  BY ScanNumbersOf
<1>0. state.scan = s /\ state.coordinator = c /\ n = s.compacted + 1 /\ k = s.compactedRows + r /\ r = ref.rows
  OBVIOUS
<1> HIDE DEF s, c, ref, r, n, k
<1>4. n \in Nat /\ k \in Nat /\ n > s.compacted /\ n # 0 /\ k # 0 /\ s.delivered = n /\ n - s.compacted = 1
  BY <1>0, <1>2, <1>3
<1>5. SubSeq(s.segments, 1, 1) = <<ref>> /\ SubSeq(s.segments, 2, 1) = <<>> /\ Len(s.segments) = 1
  BY <1>2, ShortSequences
<1>6. RowsOf(SubSeq(s.segments, 1, 1)) = r
  BY <1>0, <1>2, <1>5, RowsOfShort
<1>7. p = [state EXCEPT !.scan = t]
  <2>1. p = [state EXCEPT !.scan.compacted = s.segments[1].sequence,
                          !.scan.compactedRows = state.scan.compactedRows + RowsOf(SubSeq(s.segments, 1, 1)),
                          !.scan.segments = SubSeq(state.scan.segments, 2, 1)]
    BY <1>0, <1>1, <1>2, <1>5 DEF PruneProposal, InputState, Scan
  <2>2. s.segments[1].sequence = n
    BY <1>2 DEF ref
  <2> QED BY <1>0, <1>1, <1>5, <1>6, <2>1, <2>2 DEF InputState, Scan
<1>8. /\ t \in Scan /\ t.attempt = s.attempt /\ t.base = s.base /\ t.resume = s.resume
      /\ t.maximum = s.maximum /\ t.compacted = n /\ t.compactedRows = k
      /\ t.nextPage = s.nextPage /\ t.complete = s.complete /\ t.segments = <<>>
      /\ t.delivered = s.delivered
  <2>1. <<>> \in Seq(Reference)
    OBVIOUS
  <2> QED BY <1>1, <1>4, <2>1 DEF Scan
<1>9. t # None
  BY <1>8
<1>10. t = [s EXCEPT !.compacted = n, !.compactedRows = s.compactedRows + RowsOf(SubSeq(s.segments, 1, 1)),
                     !.segments = SubSeq(s.segments, 2, 1)]
  BY <1>0, <1>5, <1>6
<1> HIDE DEF t
<1>11. SealedRows(t) = k /\ SegmentCount(t) = n
  BY <1>8, ScanCounts
<1>12. Replaces(state, p, c, t)
  BY <1>0, <1>1, <1>7, <1>8, ReplacedState
<1>13. Numbered(t)
  BY <1>1, <1>2, <1>4, <1>8, <1>11 DEF Numbered
<1>14. CursorsSound(t)
  BY <1>1, <1>2, <1>4, <1>8, <1>11 DEF CursorsSound
<1>15. ProgressSound(t, c.active)
  BY <1>1, <1>2, <1>8, <1>11 DEF ProgressSound
<1>16. ScanSound(t, c)
  BY <1>1, <1>8, <1>13, <1>14, <1>15 DEF ScanSound
<1>17. StateSound(p)
  <2>1. ValidLast(c)
    BY <1>0, <1>1 DEF StateSound
  <2> QED BY <1>0, <1>1, <1>9, <1>12, <1>16, <2>1, ReplacedSound
<1>18. ScanCompaction(s, t)
  <2>1. t.compacted - s.compacted = 1 /\ t.compacted > s.compacted /\ t.compacted <= s.delivered
    BY <1>3, <1>4, <1>8
  <2>2. t = [s EXCEPT !.compacted = t.compacted,
                      !.compactedRows = s.compactedRows + RowsOf(SubSeq(s.segments, 1, t.compacted - s.compacted)),
                      !.segments = SubSeq(s.segments, (t.compacted - s.compacted) + 1, Len(s.segments))]
    <3>1. (t.compacted - s.compacted) + 1 = 2
      BY <2>1
    <3> QED BY <1>5, <1>8, <1>10, <2>1, <3>1
  <2> QED BY <1>5, <2>1, <2>2 DEF ScanCompaction
<1>19. ValidTransition(state, p)
  <2>1. p.fingerprint = state.fingerprint /\ p.configGeneration = state.configGeneration
        /\ p.coordinator = c /\ p.scan = t
    BY <1>12 DEF Replaces
  <2>2. ScanProgress(state, p)
    BY <1>0, <1>3, <1>4, <1>8, <1>9, <1>18, <2>1 DEF ScanProgress
  <2> QED BY <1>0, <2>1, <2>2 DEF ValidTransition
<1> QED BY <1>12, <1>17, <1>19, SoundStateValid DEF Accepts, t, n, k, r, ref, s, c

(* A scan with one page more, complete or not, and the completion recorded *)
(* with it.                                                                *)
LEMMA CompletionAccepted ==
  ASSUME SpoolSound, state # None, state.scan # None, ~state.scan.complete,
         NEW t \in Scan, t.attempt = state.scan.attempt, t.base = state.scan.base,
         t.delivered = state.scan.delivered, t.compacted = state.scan.compacted,
         t.compactedRows = state.scan.compactedRows,
         Numbered(t), CursorsSound(t), SealedRows(t) <= MaxInserts, ScanAppend(state.scan, t, t.complete),
         t.complete \/ t.segments # state.scan.segments,
         NEW p, p = WithCompletion([state EXCEPT !.scan = t])
  PROVE  /\ Accepts(state, p) /\ StateSound(p)
         /\ Replaces(state, p, p.coordinator, t)
         /\ p.coordinator.config = state.coordinator.config
         /\ p.coordinator.generation = state.coordinator.generation
         /\ p.coordinator.committed = state.coordinator.committed
         /\ p.coordinator.active # None
         /\ p.coordinator.active.fence = state.coordinator.active.fence
<1> DEFINE s == state.scan
           c == state.coordinator
           q == [state EXCEPT !.scan = t]
           n == CollectionCompleted(c, FenceOf(c, s.attempt), SealedRows(t), t.maximum).snap
<1>1. /\ StateSound(state) /\ state \in InputState /\ c \in Snapshot /\ Validate(c) /\ s \in Scan
      /\ c.active # None /\ c.active.fence = FenceOf(c, s.attempt) /\ c.generation < MaxScans
      /\ s.base = c.committed /\ c.committed \in Nat /\ ProgressSound(s, c.active)
      /\ CurrentFence = FenceOf(c, s.attempt)
  BY ScanTypes
<1>2. ValidLast(c)
  BY <1>1 DEF StateSound
<1>3. c.active.collection = CollectionInProgress /\ c.active.delivery = DeliveryIn("InProgress")
  BY <1>1 DEF ProgressSound
<1>4. Replaces(state, q, c, t) /\ t # None
  BY <1>1, ReplacedState
<1>5. /\ q.fingerprint = state.fingerprint /\ q.configGeneration = state.configGeneration
      /\ q.coordinator = c /\ q.scan = t /\ q \in InputState
  BY <1>4 DEF Replaces
<1>6. CASE ~t.complete
  <2>1. p = q
    BY <1>5, <1>6 DEF WithCompletion
  <2>2. ProgressSound(t, c.active)
    BY <1>3, <1>6 DEF ProgressSound
  <2>3. ScanSound(t, c)
    BY <1>1, <2>2 DEF ScanSound
  <2>4. StateSound(q)
    BY <1>1, <1>2, <1>4, <2>3, ReplacedSound
  <2>5. ScanProgress(state, q)
    <3>1. ScanAppend(s, t, FALSE)
      <4>1. t.complete = FALSE
        BY <1>6 DEF Scan
      <4> QED BY <4>1
    <3>2. c.active.collection.state = "InProgress"
      BY <1>3 DEF CollectionInProgress
    <3> QED BY <1>4, <1>5, <3>1, <3>2 DEF ScanProgress
  <2>6. ValidTransition(state, q)
    BY <1>5, <2>5 DEF ValidTransition
  <2> HIDE DEF q
  <2> QED BY <1>1, <1>4, <1>5, <2>1, <2>4, <2>6, SoundStateValid DEF Accepts
<1>7. CASE t.complete
  <2>1. p = [q EXCEPT !.coordinator = n]
    BY <1>1, <1>5, <1>7 DEF WithCompletion
  <2>2. SealedRows(t) \in RowCount /\ t.maximum \in OptCursor
    <3>1. SealedRows(t) \in Nat
      BY NumberedShape
    <3>2. SealedRows(t) \in 0 .. MaxInserts
      BY <3>1
    <3> QED BY <3>2 DEF Scan
  <2>3. ValidCandidate(c.committed, SealedRows(t), t.maximum)
    <3>1. SealedRows(t) = 0 <=> SegmentCount(t) = 0
      BY RowsAndSegments
    <3>2. t.maximum \in Nat /\ t.resume \in Nat
      BY ScanCounts
    <3> QED BY <1>1, <3>1, <3>2 DEF ValidCandidate, CursorsSound, NoCursor
  <2>4. /\ n \in Snapshot /\ CompletesCollection(c, n) /\ n # c
        /\ n.config = c.config /\ n.generation = c.generation /\ n.committed = c.committed
        /\ n.last = c.last /\ n.active # None /\ n.active.fence = c.active.fence
        /\ n.active.collection = CollectionCompletedState(SealedRows(t), t.maximum)
        /\ n.active.delivery = c.active.delivery
    BY <1>1, <1>3, <2>2, <2>3, CompletionRecorded
  <2> HIDE DEF n, q, c, s
  <2>5. Replaces(q, p, n, q.scan)
    BY <1>5, <2>1, <2>4, ReplacedState
  <2>6. Replaces(state, p, n, t)
    BY <1>5, <2>5 DEF Replaces
  <2>7. ProgressSound(t, n.active)
    BY <1>3, <1>7, <2>4 DEF ProgressSound
  <2>8. n.active.fence = FenceOf(n, t.attempt)
    BY <1>1, <2>4 DEF FenceOf, s
  <2>9. ScanSound(t, n)
    BY <1>1, <2>4, <2>7, <2>8 DEF ScanSound, s
  <2>10. ValidLast(n)
    BY <1>2, <2>4 DEF ValidLast
  <2>11. StateSound(p)
    BY <1>1, <1>4, <2>4, <2>6, <2>9, <2>10, ReplacedSound DEF c
  <2>12. ScanAppend(s, t, TRUE)
    <3>1. t.complete = TRUE
      BY <1>7 DEF Scan
    <3> QED BY <3>1 DEF s
  <2>13. ValidTransition(state, p)
    BY <1>4, <2>4, <2>6, <2>12 DEF ValidTransition, Replaces, c, s
  <2>14. p.coordinator = n
    BY <2>6 DEF Replaces
  <2> QED BY <2>4, <2>6, <2>11, <2>13, <2>14, SoundStateValid DEF Accepts, c
<1> QED BY <1>6, <1>7

\* The scan after adoption of f.
AdoptedReference(s, f) ==
  [id |-> f.id, sequence |-> SegmentCount(s) + 1, page |-> s.nextPage, rows |-> Cardinality(f.rows)]
AdoptedScan(s, f) ==
  [s EXCEPT !.segments = <<AdoptedReference(s, f)>>, !.resume = f.resume, !.maximum = f.candidate,
            !.nextPage = s.nextPage + 1, !.complete = ~f.truncated]

\* p is the current state with scan t, and a completion with it or not.
Progresses(p, t) ==
  /\ Accepts(state, p) /\ StateSound(p)
  /\ Replaces(state, p, p.coordinator, t)
  /\ p.coordinator.config = state.coordinator.config
  /\ p.coordinator.generation = state.coordinator.generation
  /\ p.coordinator.committed = state.coordinator.committed
  /\ p.coordinator.active # None
  /\ p.coordinator.active.fence = state.coordinator.active.fence

(* An orphan with its page's positions past the resume cursor is adopted.  *)
LEMMA AdoptAccepted ==
  ASSUME SpoolSound, state # None, state.scan # None, state.scan.segments = <<>>,
         NEW f \in Segment, PageSound(f, state), ~state.scan.complete, f.resume <= MaxInserts
  PROVE  Progresses(AdoptProposal(f), AdoptedScan(state.scan, f))
<1> DEFINE s == state.scan
           c == state.coordinator
           card == Cardinality(f.rows)
           count == SegmentCount(s)
           ref == AdoptedReference(s, f)
           page == s.nextPage + 1
           t == AdoptedScan(s, f)
<1>1. /\ state \in InputState /\ s \in Scan /\ s.base = c.committed /\ c.committed \in Nat
      /\ CursorsSound(s)
  BY ScanTypes
<1>2. /\ SealedRows(s) \in Nat /\ count \in Nat /\ s.compacted \in Nat /\ s.compactedRows \in Nat
      /\ s.nextPage = count + 1 /\ s.nextPage \in Nat /\ s.resume \in Nat /\ s.maximum \in Nat /\ s.base \in Nat
  BY ScanNumbersOf
<1>3. count = s.compacted /\ s.delivered = s.compacted /\ SealedRows(s) = s.compactedRows
  BY NoReference
<1>4. /\ f.id \in SegmentId /\ f.resume \in OptCursor /\ f.candidate \in OptCursor
      /\ f.truncated \in BOOLEAN
  BY DEF Segment
<1>5. f.resume \in Nat /\ f.candidate \in Nat
  BY <1>4 DEF OptCursor, NoCursor
<1>6. /\ f.resume > s.resume /\ card > 0 /\ card + s.resume <= f.resume
      /\ f.candidate >= f.resume /\ f.candidate >= c.committed /\ f.candidate \in {f.resume, c.committed}
  BY DEF PageSound
<1>7. card \in Nat
  <2>1. f.rows \in SUBSET Row /\ IsFiniteSet(f.rows)
    <3>1. f.rows \subseteq 1 .. f.resume
      <4>1. f.rows \subseteq Row /\ \A r \in f.rows : r > s.resume /\ r <= f.resume
        BY DEF Segment, PageSound
      <4>2. \A r \in f.rows : r \in Nat
        BY <4>1
      <4>3. ASSUME NEW r \in f.rows PROVE r \in 1 .. f.resume
        <5>1. r \in Nat /\ r > s.resume /\ r <= f.resume /\ s.resume \in Nat
          BY <1>2, <4>1, <4>2
        <5> QED BY <1>5, <5>1
      <4> QED BY <4>3
    <3>2. IsFiniteSet(1 .. f.resume)
      <4>1. 1 \in Int /\ f.resume \in Int
        BY <1>5
      <4> QED BY <4>1, FS_Interval
    <3> QED BY <3>1, <3>2, FS_Subset DEF Segment
  <2> QED BY <2>1, FS_CardinalityType
<1>8. AdoptProposal(f) = WithCompletion([state EXCEPT !.scan = t])
  <2>1. Append(s.segments, ref) = <<ref>>
    <3> HIDE DEF ref
    <3> QED BY ShortSequences
  <2>2. AdoptProposal(f) =
          WithCompletion([state EXCEPT !.scan.segments = <<ref>>, !.scan.resume = f.resume,
                                       !.scan.maximum = f.candidate, !.scan.nextPage = page,
                                       !.scan.complete = ~f.truncated])
    BY <1>1, <2>1 DEF AdoptProposal, AdoptedReference, InputState, Scan
  <2>3. [state EXCEPT !.scan.segments = <<ref>>, !.scan.resume = f.resume,
                      !.scan.maximum = f.candidate, !.scan.nextPage = page,
                      !.scan.complete = ~f.truncated] = [state EXCEPT !.scan = t]
    <3> HIDE DEF ref
    <3> QED BY <1>1 DEF AdoptedScan, InputState, Scan, ref
  <2> QED BY <2>2, <2>3
<1>9. /\ ref \in Reference /\ ref.sequence = s.compacted + 1 /\ ref.page = ref.sequence
      /\ ref.rows = card /\ ref.id = f.id
  BY <1>2, <1>3, <1>4, <1>7 DEF AdoptedReference, Reference
<1> HIDE DEF ref, card, count
<1>10. page \in Nat /\ <<ref>> \in Seq(Reference) /\ <<ref>> # <<>> /\ <<ref>>[1] = ref /\ Len(<<ref>>) = 1
       /\ IsPrefix(<<>>, <<ref>>) /\ Len(<<>>) = 0
  <2>1. page \in Nat
    BY ONLY <1>2, Successor
  <2>2. <<ref>> \in Seq(Reference)
    BY <1>9
  <2> QED BY <2>1, <2>2, ShortSequences
<1> HIDE DEF page
<1>11. t = [s EXCEPT !.segments = <<ref>>, !.resume = f.resume, !.maximum = f.candidate,
                     !.nextPage = page, !.complete = ~f.truncated]
  BY DEF AdoptedScan, ref, page
<1>0. state.scan = s /\ state.coordinator = c
  OBVIOUS
<1> HIDE DEF t, s, c
<1>12. /\ t \in Scan /\ t.attempt = s.attempt /\ t.base = s.base /\ t.resume = f.resume
       /\ t.maximum = f.candidate /\ t.compacted = s.compacted /\ t.compactedRows = s.compactedRows
       /\ t.nextPage = page /\ t.complete = ~f.truncated /\ t.segments = <<ref>> /\ t.delivered = s.delivered
  BY <1>1, <1>4, <1>10, <1>11 DEF Scan
<1>13. SealedRows(t) = s.compactedRows + card /\ SegmentCount(t) = s.compacted + 1
  BY <1>9, <1>12, ScanCounts
<1>14. Numbered(t)
  <2>1. t.segments[1] = ref
    BY <1>10, <1>12
  <2>2. t.nextPage = SegmentCount(t) + 1
    BY <1>2, <1>3, <1>12, <1>13 DEF page
  <2>3. ref.rows > 0
    BY <1>6, <1>9
  <2>4. t.compacted <= t.delivered /\ t.delivered <= SegmentCount(t)
    BY ONLY <1>2, <1>3, <1>12, <1>13, Successor
  <2> QED BY <1>9, <1>12, <2>1, <2>2, <2>3, <2>4 DEF Numbered
<1>15. SealedRows(t) <= t.resume /\ t.resume > 0
  <2>1. s.compactedRows <= s.resume
    BY <1>1, <1>3 DEF CursorsSound
  <2>2. s.compactedRows + card <= f.resume /\ f.resume > 0
    <3>1. card > 0 /\ card + s.resume <= f.resume
      BY <1>6
    <3>2. s.compactedRows \in Nat /\ s.resume \in Nat
      BY <1>2
    <3> QED BY ONLY <1>5, <1>7, <2>1, <3>1, <3>2, ChainedSum
  <2> QED BY <1>12, <1>13, <2>2
<1>16. CursorsSound(t)
  <2>1. t.compacted = 0 <=> t.compactedRows = 0
    BY <1>1, <1>12 DEF CursorsSound
  <2>2. SegmentCount(t) # 0
    BY ONLY <1>2, <1>13, Successor
  <2>3. t.maximum >= t.resume /\ t.maximum >= t.base /\ t.maximum \in {t.resume, t.base}
    BY <1>1, <1>6, <1>12
  <2> QED BY <1>15, <2>1, <2>2, <2>3 DEF CursorsSound
<1>17. SealedRows(t) <= MaxInserts
  <2>1. SealedRows(t) \in Nat
    BY ONLY <1>2, <1>7, <1>13
  <2>2. SealedRows(t) <= f.resume
    BY <1>12, <1>15
  <2>3. f.resume <= MaxInserts /\ MaxInserts \in Nat
    OBVIOUS
  <2> QED BY ONLY <1>5, <2>1, <2>2, <2>3, Chained
<1>18. ScanAppend(s, t, t.complete)
  <2>1. IsPrefix(s.segments, t.segments) /\ Len(t.segments) = Len(s.segments) + 1
    BY <1>0, <1>10, <1>12
  <2>2. t.nextPage = s.nextPage + 1 /\ t.resume > s.resume
    BY <1>6, <1>12 DEF page
  <2>3. t.maximum >= s.maximum
    <3>1. s.maximum \in {0, s.resume, s.base}
      BY <1>1 DEF CursorsSound, NoCursor
    <3>2. s.base \in Nat /\ f.candidate >= s.base /\ f.candidate >= f.resume /\ f.resume > s.resume
      <4>1. s.base \in Nat
        BY <1>2
      <4>2. f.candidate >= s.base
        BY <1>1, <1>6
      <4>3. f.candidate >= f.resume /\ f.resume > s.resume
        BY <1>6
      <4> QED BY <4>1, <4>2, <4>3
    <3>3. f.candidate >= s.maximum
      <4>1. CASE s.maximum = 0
        BY <1>5, <4>1
      <4>2. CASE s.maximum = s.resume
        <5>1. \A x, y, z \in Nat : y >= z /\ z > x => y >= x
          OBVIOUS
        <5>2. s.resume \in Nat
          BY <1>2
        <5>3. f.candidate >= s.resume
          BY <1>5, <3>2, <5>1, <5>2
        <5> QED BY <4>2, <5>3
      <4>3. CASE s.maximum = s.base
        BY <3>2, <4>3
      <4> QED BY <3>1, <4>1, <4>2, <4>3
    <3> QED BY <1>12, <3>3
  <2>4. t = [s EXCEPT !.complete = t.complete, !.segments = t.segments, !.nextPage = t.nextPage,
                      !.resume = t.resume, !.maximum = t.maximum]
    BY <1>1, <1>11, <1>12 DEF Scan
  <2> QED BY <1>0, <2>1, <2>2, <2>3, <2>4 DEF ScanAppend
<1>19. t.segments # s.segments
  BY <1>0, <1>10, <1>12
<1> QED BY <1>0, <1>8, <1>12, <1>14, <1>16, <1>17, <1>18, <1>19, CompletionAccepted DEF Progresses, t, s

(* An empty page completes the scan.                                       *)
LEMMA EmptyAccepted ==
  ASSUME SpoolSound, state # None, state.scan # None, state.scan.segments = <<>>,
         ~state.scan.complete, state.scan.resume <= MaxInserts
  PROVE  Progresses(EmptyProposal, [state.scan EXCEPT !.complete = TRUE])
<1> DEFINE s == state.scan
           t == [s EXCEPT !.complete = TRUE]
<1>1. state \in InputState /\ s \in Scan /\ Numbered(s) /\ CursorsSound(s)
  BY ScanTypes
<1>2. SealedRows(s) \in Nat /\ s.resume \in Nat /\ SealedRows(s) <= s.resume
  BY <1>1, ScanNumbersOf DEF CursorsSound
<1>3. EmptyProposal = WithCompletion([state EXCEPT !.scan = t])
  BY <1>1 DEF EmptyProposal, InputState, Scan
<1>0. state.scan = s
  OBVIOUS
<1> HIDE DEF s
<1>4. /\ t \in Scan /\ t.attempt = s.attempt /\ t.base = s.base /\ t.resume = s.resume
      /\ t.maximum = s.maximum /\ t.compacted = s.compacted /\ t.compactedRows = s.compactedRows
      /\ t.nextPage = s.nextPage /\ t.complete = TRUE /\ t.segments = s.segments /\ t.delivered = s.delivered
  BY <1>1 DEF Scan
<1> HIDE DEF t
<1>5. SealedRows(t) = SealedRows(s) /\ SegmentCount(t) = SegmentCount(s)
  BY <1>4, SameCounts
<1>6. Numbered(t)
  BY <1>1, <1>4, <1>5 DEF Numbered
<1>7. CursorsSound(t)
  BY <1>1, <1>4, <1>5 DEF CursorsSound
<1>8. SealedRows(t) <= MaxInserts
  BY <1>0, <1>2, <1>5
<1>9. ScanAppend(s, t, t.complete)
  <2>1. IsPrefix(s.segments, t.segments)
    BY <1>0, <1>4 DEF IsPrefix
  <2>2. t = [s EXCEPT !.complete = t.complete, !.segments = t.segments, !.nextPage = t.nextPage,
                      !.resume = t.resume, !.maximum = t.maximum]
    BY <1>1, <1>4 DEF Scan, t
  <2>3. t = [s EXCEPT !.complete = TRUE]
    BY DEF t
  <2> QED BY <1>0, <1>4, <2>1, <2>2, <2>3 DEF ScanAppend
<1> QED BY <1>0, <1>3, <1>4, <1>6, <1>7, <1>8, <1>9, CompletionAccepted DEF Progresses, t, s

(* A fully receipted, complete scan is confirmed.                          *)
LEMMA ConfirmAccepted ==
  ASSUME SpoolSound, state # None, state.scan # None, state.scan.complete,
         state.scan.delivered = SegmentCount(state.scan), state.scan.resume <= MaxInserts,
         state.coordinator.active.delivery.state = "InProgress"
  PROVE  Progresses(ConfirmProposal, state.scan)
<1> DEFINE s == state.scan
           c == state.coordinator
           p == ConfirmProposal
           n == DeliveryConfirmed(c, FenceOf(c, s.attempt), SealedRows(s)).snap
<1>1. /\ StateSound(state) /\ state \in InputState /\ c \in Snapshot /\ Validate(c) /\ s \in Scan
      /\ c.active # None /\ c.active.fence = FenceOf(c, s.attempt) /\ c.generation < MaxScans
      /\ s.base = c.committed /\ Numbered(s) /\ CursorsSound(s) /\ ProgressSound(s, c.active)
      /\ CurrentFence = FenceOf(c, s.attempt)
  BY ScanTypes
<1>2. SealedRows(s) \in RowCount
  <2>1. SealedRows(s) \in Nat /\ s.resume \in Nat /\ SealedRows(s) <= s.resume /\ s.resume <= MaxInserts
    BY <1>1, ScanNumbersOf DEF CursorsSound
  <2>2. \A x, y \in Nat : x <= y /\ y <= MaxInserts => x \in 0 .. MaxInserts
    OBVIOUS
  <2> QED BY <2>1, <2>2
<1>3. p = [state EXCEPT !.coordinator = n]
  BY <1>1 DEF ConfirmProposal, InputState
<1>4. /\ n \in Snapshot /\ ChangesDelivery(c, n) /\ n # c
      /\ n.config = c.config /\ n.generation = c.generation /\ n.committed = c.committed
      /\ n.last = c.last /\ n.active # None /\ n.active.fence = c.active.fence
      /\ n.active.collection = c.active.collection
      /\ n.active.delivery = DeliveryConfirmedState(SealedRows(s))
  BY <1>1, <1>2, ConfirmationRecorded
<1>0. state.scan = s /\ state.coordinator = c
  OBVIOUS
<1> HIDE DEF n, s, c
<1>5. Replaces(state, p, n, s)
  BY <1>0, <1>1, <1>3, <1>4, ReplacedState
<1>6. ValidLast(n)
  <2>1. ValidLast(c)
    BY <1>0, <1>1 DEF StateSound
  <2> QED BY <1>4, <2>1 DEF ValidLast
<1>7. ProgressSound(s, n.active)
  BY <1>0, <1>1, <1>4 DEF ProgressSound
<1>8. n.active.fence = FenceOf(n, s.attempt)
  BY <1>1, <1>4 DEF FenceOf
<1>9. ScanSound(s, n)
  BY <1>1, <1>4, <1>7, <1>8 DEF ScanSound
<1>10. StateSound(p)
  BY <1>0, <1>1, <1>4, <1>5, <1>6, <1>9, ReplacedSound
<1>11. FullReceipt(s)
  BY <1>0 DEF FullReceipt
<1>12. ValidTransition(state, p)
  BY <1>0, <1>4, <1>5, <1>11 DEF ValidTransition, Replaces
<1>13. p.coordinator = n
  BY <1>5 DEF Replaces
<1> QED BY <1>0, <1>4, <1>5, <1>10, <1>12, <1>13, SoundStateValid DEF Accepts, Progresses

(* A confirmed scan is committed: the cursor moves to the scan's maximum,  *)
(* or stays if there were no rows.                                         *)
LEMMA CommitAccepted ==
  ASSUME SpoolSound, state # None, state.scan # None, state.scan.complete,
         state.scan.delivered = SegmentCount(state.scan),
         state.coordinator.active.delivery = DeliveryConfirmedState(SealedRows(state.scan))
  PROVE  /\ Accepts(state, CommitProposal) /\ StateSound(CommitProposal)
         /\ Replaces(state, CommitProposal, CommitProposal.coordinator, None)
         /\ CommitProposal.coordinator.generation = state.coordinator.generation + 1
         /\ CommitProposal.coordinator.committed = IF state.scan.maximum = NoCursor
                                                   THEN state.coordinator.committed ELSE state.scan.maximum
<1> DEFINE s == state.scan
           c == state.coordinator
           p == CommitProposal
           n == Commit(c, FenceOf(c, s.attempt)).snap
<1>1. /\ StateSound(state) /\ state \in InputState /\ c \in Snapshot /\ Validate(c) /\ s \in Scan
      /\ c.active # None /\ c.active.fence = FenceOf(c, s.attempt) /\ c.generation < MaxGeneration
      /\ ProgressSound(s, c.active) /\ CurrentFence = FenceOf(c, s.attempt) /\ s.attempt \in AttemptId
  BY ScanTypes
<1>2. p = [state EXCEPT !.coordinator = n, !.scan = None]
  BY <1>1 DEF CommitProposal, InputState
<1>3. c.active.collection = CollectionCompletedState(SealedRows(s), s.maximum)
  BY <1>1 DEF ProgressSound
<1>4. ReadyToCommit(c.active) /\ c.active.collection.candidate = s.maximum
  BY <1>3 DEF ReadyToCommit, CollectionCompletedState, DeliveryConfirmedState
<1>5. /\ n \in Snapshot /\ Commits(c, n) /\ n # c /\ ValidLast(n)
      /\ n.config = c.config /\ n.generation = c.generation + 1 /\ n.active = None
      /\ n.committed = IF c.active.collection.candidate = NoCursor
                       THEN c.committed ELSE c.active.collection.candidate
  BY <1>1, <1>4, CommitInstalls
<1>0. state.scan = s /\ state.coordinator = c
  OBVIOUS
<1> HIDE DEF n, s, c
<1>6. Replaces(state, p, n, None)
  BY <1>1, <1>2, <1>5, ReplacedState
<1>7. StateSound(p)
  BY <1>0, <1>1, <1>5, <1>6, ReplacedSound
<1>8. FullReceipt(s)
  BY <1>0 DEF FullReceipt
<1>9. ValidTransition(state, p)
  BY <1>0, <1>5, <1>6, <1>8 DEF ValidTransition, Replaces
<1>10. p.coordinator = n
  BY <1>6 DEF Replaces
<1> QED BY <1>0, <1>4, <1>5, <1>6, <1>7, <1>9, <1>10, SoundStateValid DEF Accepts

\* A new attempt's scan.
FreshScan(c, attempt) ==
  [attempt |-> attempt, base |-> c.committed,
   resume |-> NoCursor, maximum |-> NoCursor, compacted |-> 0,
   compactedRows |-> 0, nextPage |-> 1, complete |-> FALSE,
   segments |-> <<>>, delivered |-> 0]

(* A new attempt is started.                                               *)
LEMMA StartAccepted ==
  ASSUME SpoolSound, state # None, state.scan = None, state.coordinator.active = None,
         state.coordinator.generation < MaxScans, NEW a \in AttemptId
  PROVE  /\ Accepts(state, StartProposal(a)) /\ StateSound(StartProposal(a))
         /\ Replaces(state, StartProposal(a), StartProposal(a).coordinator, FreshScan(state.coordinator, a))
         /\ StartProposal(a).coordinator.generation = state.coordinator.generation
         /\ StartProposal(a).coordinator.committed = state.coordinator.committed
<1> DEFINE c == state.coordinator
           p == StartProposal(a)
           n == StartAttempt(c, FenceOf(c, a)).snap
           t == FreshScan(c, a)
<1>1. StateSound(state) /\ state \in InputState /\ c \in Snapshot /\ Validate(c)
      /\ c.committed \in OptCursor /\ c.committed \in Nat
  BY StateTypes, SoundStateValid DEF SpoolSound, StateSound
<1>2. p = [state EXCEPT !.coordinator = n, !.scan = t]
  BY <1>1 DEF StartProposal, FenceOf, FreshScan, InputState
<1>3. /\ n \in Snapshot /\ StartsAttempt(c, n) /\ n # c
      /\ n.config = c.config /\ n.generation = c.generation /\ n.committed = c.committed
      /\ n.last = c.last /\ n.active # None /\ n.active.fence = FenceOf(c, a)
      /\ n.active.collection = CollectionInProgress /\ n.active.delivery = DeliveryIn("InProgress")
  BY <1>1, StartInstalls
<1>0. state.coordinator = c
  OBVIOUS
<1> HIDE DEF n, c
<1>4. /\ t \in Scan /\ t.attempt = a /\ t.base = c.committed /\ t.resume = 0
      /\ t.maximum = 0 /\ t.compacted = 0 /\ t.compactedRows = 0
      /\ t.nextPage = 1 /\ t.complete = FALSE /\ t.segments = <<>> /\ t.delivered = 0
  <2>1. <<>> \in Seq(Reference) /\ 0 \in OptCursor
    BY DEF OptCursor, NoCursor
  <2> QED BY <1>1, <2>1 DEF FreshScan, Scan, NoCursor
<1> HIDE DEF t
<1>5. SealedRows(t) = 0 /\ SegmentCount(t) = 0
  BY <1>4, ScanCounts
<1>6. Numbered(t) /\ CursorsSound(t)
  BY <1>4, <1>5 DEF Numbered, CursorsSound, NoCursor
<1>7. ProgressSound(t, n.active)
  BY <1>3, <1>4 DEF ProgressSound
<1>8. n.active.fence = FenceOf(n, t.attempt)
  BY <1>3, <1>4 DEF FenceOf
<1>9. ScanSound(t, n)
  BY <1>0, <1>3, <1>4, <1>6, <1>7, <1>8 DEF ScanSound
<1>10. Replaces(state, p, n, t) /\ t # None
  <2>1. t \in Scan \cup {None} /\ t # None
    BY <1>4
  <2>2. Replaces(state, [state EXCEPT !.coordinator = n, !.scan = t], n, t)
    BY <1>1, <1>3, <2>1, ReplacedState
  <2> QED BY <1>2, <2>1, <2>2
<1>11. ValidLast(n)
  <2>1. ValidLast(c)
    BY <1>0, <1>1 DEF StateSound
  <2> QED BY <1>3, <2>1 DEF ValidLast
<1>12. StateSound(p)
  BY <1>0, <1>1, <1>3, <1>9, <1>10, <1>11, ReplacedSound
<1>13. InitialScan(t)
  BY <1>4 DEF InitialScan, NoCursor
<1>14. ValidTransition(state, p)
  <2>1. /\ p.fingerprint = state.fingerprint /\ p.configGeneration = state.configGeneration
        /\ p.coordinator = n /\ p.scan = t
    BY <1>10 DEF Replaces
  <2>2. StartsAttempt(c, n) /\ state.scan = None /\ p.scan # None /\ InitialScan(p.scan)
    BY <1>3, <1>10, <1>13, <2>1
  <2> HIDE DEF p
  <2> QED BY <1>0, <1>3, <2>1, <2>2 DEF ValidTransition
<1>15. p.coordinator = n
  BY <1>10 DEF Replaces
<1> QED BY <1>0, <1>3, <1>10, <1>12, <1>14, <1>15, SoundStateValid DEF Accepts, t

(* A state with no scan that ensure_input creates or activates.            *)
LEMMA UnscannedSound ==
  ASSUME NEW fingerprint \in Fingerprint, NEW g \in 1 .. (MaxEdits + 1),
         NEW generation \in Generation, NEW committed \in OptCursor, NEW p,
         p = [fingerprint |-> fingerprint, configGeneration |-> g,
              coordinator |-> NewSnapshot(ConfigurationFence(fingerprint, g), generation, committed),
              scan |-> None]
  PROVE  /\ StateSound(p) /\ p.scan = None /\ p.fingerprint = fingerprint /\ p.configGeneration = g
         /\ p.coordinator.generation = generation /\ p.coordinator.committed = committed
<1> DEFINE n == NewSnapshot(ConfigurationFence(fingerprint, g), generation, committed)
<1>1. ConfigurationFence(fingerprint, g) \in ConfigurationId
  BY DEF ConfigurationFence
<1>2. /\ n \in Snapshot /\ n.config = ConfigurationFence(fingerprint, g) /\ n.generation = generation
      /\ n.committed = committed /\ n.active = None /\ n.last = None
  BY <1>1 DEF NewSnapshot, Snapshot
<1> HIDE DEF n
<1>3. p = [fingerprint |-> fingerprint, configGeneration |-> g, coordinator |-> n, scan |-> None]
  BY DEF n
<1>4. g \in Nat
  OBVIOUS
<1>5. /\ p \in InputState /\ p.scan = None /\ p.fingerprint = fingerprint /\ p.configGeneration = g
      /\ p.coordinator = n
  BY <1>2, <1>3, <1>4 DEF InputState
<1>6. ValidLast(n)
  BY <1>2 DEF ValidLast
<1>7. StateSound(p)
  BY <1>2, <1>5, <1>6 DEF StateSound
<1> QED BY <1>2, <1>5, <1>7

-----------------------------------------------------------------------------
(* Sets of positions.                                                      *)

(* A bounded set of positions has a largest one.                           *)
LEMMA MaxIsIn ==
  ASSUME NEW S, S \subseteq Nat, S # {}, NEW b \in Nat, \A x \in S : x <= b
  PROVE  Max(S) \in S /\ \A x \in S : x <= Max(S)
<1> DEFINE U == {u \in Nat : \A x \in S : x <= u}
<1>1. U \subseteq Nat /\ b \in U
  OBVIOUS
<1>2. PICK u \in U : \A v \in U : ~(<<v, u>> \in OpToRel(<, Nat))
  <2> HIDE DEF U
  <2>1. IsWellFoundedOn(OpToRel(<, Nat), Nat)
    BY NatLessThanWellFounded
  <2>2. U # {}
    BY <1>1
  <2> QED BY <1>1, <2>1, <2>2, WFMin
<1>3. \A v \in U : ~(v < u)
  BY <1>2 DEF OpToRel
<1>4. u \in S
  <2> SUFFICES ASSUME u \notin S PROVE FALSE
    OBVIOUS
  <2>1. \A x \in S : x <= u - 1
    OBVIOUS
  <2>2. u - 1 \in Nat
    <3>1. PICK x \in S : TRUE
      OBVIOUS
    <3>2. x \in Nat /\ x <= u - 1 /\ u \in Nat
      BY <2>1
    <3> QED BY <3>2
  <2>3. u - 1 \in U
    BY <2>1, <2>2
  <2> QED BY <1>3, <2>3
<1>5. \A x \in S : u >= x
  OBVIOUS
<1>6. Max(S) \in S /\ \A x \in S : Max(S) >= x
  <2> HIDE DEF U
  <2> QED BY <1>4, <1>5 DEF Max
<1>7. \A x, y \in Nat : x >= y => y <= x
  OBVIOUS
<1> QED BY <1>6, <1>7

(* As many positions fit between two as lie between them.                  *)
LEMMA SpanCount ==
  ASSUME NEW S, NEW a \in Nat, NEW b \in Nat, S # {}, \A x \in S : x \in Nat /\ x > a /\ x <= b
  PROVE  IsFiniteSet(S) /\ Cardinality(S) \in Nat /\ Cardinality(S) > 0 /\ Cardinality(S) + a <= b
<1>1. S \subseteq (a + 1) .. b
  OBVIOUS
<1>2. a + 1 \in Int /\ b \in Int /\ ~(a + 1 > b)
  <2>1. PICK x \in S : x \in Nat /\ x > a /\ x <= b
    OBVIOUS
  <2> QED BY <2>1
<1>3. IsFiniteSet((a + 1) .. b) /\ Cardinality((a + 1) .. b) = b - (a + 1) + 1
  BY <1>2, FS_Interval
<1>4. IsFiniteSet(S) /\ Cardinality(S) <= Cardinality((a + 1) .. b)
  BY <1>1, <1>3, FS_Subset
<1>5. Cardinality(S) \in Nat /\ Cardinality(S) # 0
  BY <1>4, FS_CardinalityType, FS_EmptySet
<1> QED BY <1>2, <1>3, <1>4, <1>5

(* The first rows of a result hold every row of it up to each of them.     *)
LEMMA SmallestIsPrefix ==
  ASSUME NEW S, IsFiniteSet(S), S \subseteq Nat, NEW n \in Nat, NEW r \in S,
         NEW m \in Smallest(S, n), r <= m
  PROVE  r \in Smallest(S, n)
<1> DEFINE below(x) == {q \in S : q < x}
<1>1. Cardinality(below(m)) < n /\ m \in S
  BY DEF Smallest
<1>2. below(r) \subseteq below(m)
  <2>1. ASSUME NEW q \in S, q < r PROVE q < m
    <3>1. q \in Nat /\ r \in Nat /\ m \in Nat
      BY <1>1
    <3> QED BY <2>1, <3>1
  <2> QED BY <2>1
<1>3. IsFiniteSet(below(m)) /\ IsFiniteSet(below(r))
  BY FS_Subset
<1> HIDE DEF below
<1>4. Cardinality(below(r)) <= Cardinality(below(m)) /\ Cardinality(below(r)) \in Nat
      /\ Cardinality(below(m)) \in Nat
  BY <1>2, <1>3, FS_Subset, FS_CardinalityType
<1>5. Cardinality(below(r)) < n
  BY <1>1, <1>4
<1> QED BY <1>5 DEF Smallest, below

-----------------------------------------------------------------------------
(* What a step leaves alone.                                               *)

DaemonType ==
  [pc: {"down", "idle", "reconcile", "wave", "page", "collected", "empty"},
   prepared: Fingerprint, page: Segment \cup {None}, unsent: {None} \cup SUBSET Row]

LEMMA ListedFrame ==
  /\ files' = files => Listed' = Listed
  /\ files' = Listed => Listed' = Listed
BY DEF Listed

LEMMA SpoolFrame ==
  ASSUME SpoolSound, state' = state, files' = files \/ files' = Listed,
         \A f \in files' : f.life = "open" => daemon'.pc \in {"down", "page", "collected"}
  PROVE  SpoolSound'
<1>1. Listed' = Listed
  BY ListedFrame
<1>2. Listed \subseteq Segment /\ (Listed = {} \/ \E f \in Listed : Listed = {f})
  BY ListedOne
<1>3. files' \subseteq Segment /\ (files' = {} \/ \E f \in files' : files' = {f})
  BY <1>2 DEF SpoolSound
<1>4. state = None => files' = {}
  BY DEF SpoolSound, Listed
<1>5. state # None => StateSound(state) /\ ListSound(state, Listed)
  BY DEF SpoolSound
<1>6. StateSound(state)' <=> StateSound(state)
  OBVIOUS
<1>7. ListSound(state, Listed)' <=> ListSound(state, Listed)
  BY <1>1
<1> QED BY <1>1, <1>3, <1>4, <1>5, <1>6, <1>7 DEF SpoolSound

LEMMA RowsFrame ==
  ASSUME RowsSound, state' = state, Listed' = Listed, UNCHANGED <<source, inserted, indexed, receipts>>
  PROVE  RowsSound'
BY DEF RowsSound, Committed, Covered, NothingLost, FileSound, ReceiptsSound

LEMMA EditsFrame ==
  ASSUME EditsSound, configured' = configured, edits' = edits, daemon'.prepared = daemon.prepared,
         state = None <=> state' = None,
         state # None => state'.fingerprint = state.fingerprint
                         /\ state'.configGeneration = state.configGeneration
  PROVE  EditsSound'
BY DEF EditsSound, Differ

(* The daemon between turns, or not running.                               *)
LEMMA QuietDaemon ==
  ASSUME daemon' \in DaemonType, daemon'.pc \in {"down", "idle"}, daemon'.page = None, daemon'.unsent = None
  PROVE  DaemonSound'
BY DEF DaemonSound, DaemonType

LEMMA QuietRecords ==
  ASSUME DaemonSound
  PROVE  /\ daemon \in DaemonType
         /\ Idle(daemon) \in DaemonType /\ Idle(daemon).pc = "idle" /\ Idle(daemon).page = None
         /\ Idle(daemon).unsent = None /\ Idle(daemon).prepared = daemon.prepared
         /\ Down(daemon) \in DaemonType /\ Down(daemon).pc = "down" /\ Down(daemon).page = None
         /\ Down(daemon).unsent = None /\ Down(daemon).prepared = daemon.prepared
<1>1. daemon \in DaemonType
  BY DEF DaemonSound, DaemonType
<1>2. /\ Idle(daemon) \in DaemonType /\ Idle(daemon).pc = "idle" /\ Idle(daemon).page = None
      /\ Idle(daemon).unsent = None /\ Idle(daemon).prepared = daemon.prepared
  BY <1>1 DEF DaemonType, Idle
<1>3. /\ Down(daemon) \in DaemonType /\ Down(daemon).pc = "down" /\ Down(daemon).page = None
      /\ Down(daemon).unsent = None /\ Down(daemon).prepared = daemon.prepared
  BY <1>1 DEF DaemonType, Down
<1> QED BY <1>1, <1>2, <1>3

(* No open file is left when the daemon is between turns.                  *)
LEMMA NothingOpen ==
  ASSUME SpoolSound, daemon.pc \notin {"down", "page", "collected"}
  PROVE  files = Listed /\ \A f \in files : f.life # "open"
BY DEF SpoolSound, Listed

(* A turn that ends, with or without its open file.                        *)
LEMMA TurnEnds ==
  ASSUME ScanInv, state' = state, files' = files \/ files' = Listed,
         \A f \in files' : f.life = "open" => daemon'.pc = "down",
         UNCHANGED <<source, inserted, indexed, receipts, configured, edits, refused>>,
         daemon' = Idle(daemon) \/ daemon' = Down(daemon)
  PROVE  ScanInv'
<1>1. SpoolSound /\ RowsSound /\ DaemonSound /\ EditsSound /\ ~refused
  BY DEF ScanInv
<1>2. /\ daemon' \in DaemonType /\ daemon'.pc \in {"down", "idle"} /\ daemon'.page = None
      /\ daemon'.unsent = None /\ daemon'.prepared = daemon.prepared
  BY <1>1, QuietRecords
<1>3. DaemonSound'
  BY <1>2, QuietDaemon
<1>4. SpoolSound'
  BY <1>1, SpoolFrame
<1>5. RowsSound'
  BY <1>1, RowsFrame, ListedFrame
<1>6. EditsSound'
  BY <1>1, <1>2, EditsFrame
<1> QED BY <1>1, <1>3, <1>4, <1>5, <1>6 DEF ScanInv

-----------------------------------------------------------------------------
(* The steps that end a turn.                                              *)

LEMMA CrashKeeps == ASSUME ScanInv, Crash PROVE ScanInv'
<1>1. SpoolSound /\ DaemonSound
  BY DEF ScanInv
<1>2. daemon'.pc = "down"
  BY <1>1, QuietRecords DEF Crash
<1> QED BY <1>2, TurnEnds DEF Crash, durable, world, ghosts

LEMMA AbortReconcileKeeps == ASSUME ScanInv, AbortReconcile PROVE ScanInv'
<1>1. SpoolSound /\ daemon.pc = "reconcile"
  BY DEF ScanInv, AbortReconcile
<1>2. \A f \in files : f.life # "open"
  BY <1>1, NothingOpen
<1> QED BY <1>2, TurnEnds DEF AbortReconcile, durable, world, ghosts

LEMMA PollKeeps == ASSUME ScanInv, Poll PROVE ScanInv'
<1>1. SpoolSound /\ daemon.pc = "wave"
  BY DEF ScanInv, Poll
<1>2. \A f \in files : f.life # "open"
  BY <1>1, NothingOpen
<1> QED BY <1>2, TurnEnds DEF Poll, durable, world, ghosts

LEMMA FailPageKeeps == ASSUME ScanInv, FailPage PROVE ScanInv'
<1>1. \A f \in files' : f.life # "open"
  BY DEF FailPage, Listed
<1> QED BY <1>1, TurnEnds DEF FailPage, world, ghosts

LEMMA CancelForReloadKeeps == ASSUME ScanInv, CancelForReload PROVE ScanInv'
<1>1. \A f \in files' : f.life # "open"
  BY DEF CancelForReload, Listed
<1> QED BY <1>1, TurnEnds DEF CancelForReload, world, ghosts

LEMMA StutterKeeps == ASSUME ScanInv, UNCHANGED vars PROVE ScanInv'
<1>1. UNCHANGED <<state, files, daemon, source, inserted, indexed, receipts, configured, edits, refused>>
  BY DEF vars, durable, world, ghosts
<1>2. Listed' = Listed
  BY <1>1, ListedFrame
<1>3. SpoolSound' <=> SpoolSound
  BY <1>1, <1>2 DEF SpoolSound
<1>4. RowsSound'
  BY <1>1, <1>2, RowsFrame DEF ScanInv
<1>5. DaemonSound' <=> DaemonSound
  BY <1>1, <1>2 DEF DaemonSound, PageInFlight, BetweenPages, Covered
<1>6. EditsSound' <=> EditsSound
  BY <1>1 DEF EditsSound
<1> QED BY <1>1, <1>3, <1>4, <1>5, <1>6 DEF ScanInv

-----------------------------------------------------------------------------
(* Starting, and the configuration.                                        *)

(* activate_configuration: no scan and no file is left, and the new        *)
(* revision has an edit to its account.                                    *)
LEMMA ActivationKeeps ==
  ASSUME SpoolSound, RowsSound, state # None, NEW fingerprint \in Fingerprint,
         Activatable(state, fingerprint), state.configGeneration + 1 <= MaxEdits + 1,
         state' = Activated(state, fingerprint), Listed' = Listed,
         UNCHANGED <<source, inserted, indexed, receipts>>
  PROVE  /\ StateSound(state') /\ ListSound(state', Listed') /\ RowsSound' /\ state' # None
         /\ state'.fingerprint = fingerprint /\ state'.configGeneration = state.configGeneration + 1
         /\ Listed = {} /\ Committed' = Committed
<1> DEFINE g == state.configGeneration + 1
           c == state.coordinator
<1>1. StateSound(state) /\ ListSound(state, Listed) /\ state.scan = None
  BY DEF SpoolSound, Activatable
<1>2. /\ c.generation \in Generation /\ c.generation \in Nat /\ c.committed \in OptCursor
      /\ state.configGeneration \in Nat
  BY <1>1, StateTypes DEF StateSound
<1>3. g \in 1 .. (MaxEdits + 1)
  BY <1>2
<1>4. state' = [fingerprint |-> fingerprint, configGeneration |-> g,
                coordinator |-> NewSnapshot(ConfigurationFence(fingerprint, g), c.generation, c.committed),
                scan |-> None]
  BY DEF Activated
<1> HIDE DEF g
<1>5. /\ StateSound(state') /\ state'.scan = None /\ state'.fingerprint = fingerprint
      /\ state'.configGeneration = g
      /\ state'.coordinator.generation = c.generation /\ state'.coordinator.committed = c.committed
  BY <1>2, <1>3, <1>4, UnscannedSound
<1>6. state' # None
  BY <1>5 DEF StateSound
<1>7. Listed = {}
  BY <1>1 DEF ListSound
<1>8. ListSound(state', Listed')
  BY <1>5, <1>7 DEF ListSound
<1>9. Committed' = Committed
  BY <1>5, <1>6 DEF Committed
<1>10. ReceiptsSound'
  <2>1. ReceiptsSound
    BY DEF RowsSound
  <2> QED BY <1>1, <1>5, <1>6, <2>1 DEF ReceiptsSound
<1>11. NothingLost'
  BY <1>5 DEF NothingLost
<1>12. RowsSound'
  BY <1>5, <1>7, <1>9, <1>10, <1>11 DEF RowsSound, Covered
<1> QED BY <1>5, <1>6, <1>7, <1>8, <1>9, <1>12 DEF g

\* What EditsSound says of the revisions named v, w and x.
LEMMA DifferFacts ==
  /\ \A v, w : Differ(v, w) \in {0, 1} /\ (v = w => Differ(v, w) = 0) /\ (v # w => Differ(v, w) = 1)
  /\ \A v, w, x : Differ(v, x) <= Differ(v, w) + Differ(w, x)
BY DEF Differ

LEMMA StartDaemonKeeps == ASSUME ScanInv, StartDaemon PROVE ScanInv' /\ Committed' = Committed
<1>1. SpoolSound /\ RowsSound /\ DaemonSound /\ EditsSound /\ ~refused
  BY DEF ScanInv
<1>2. /\ daemon.pc = "down" /\ files' = Listed
      /\ daemon' = [daemon EXCEPT !.pc = "idle", !.prepared = configured]
      /\ UNCHANGED <<source, inserted, indexed, receipts, configured, edits, refused>>
  BY DEF StartDaemon, OpenSpool, world, ghosts
<1>3. configured \in Fingerprint /\ edits \in 0 .. MaxEdits
  BY <1>1 DEF EditsSound
<1>4. daemon.page = None /\ daemon.unsent = None /\ daemon \in DaemonType
  BY <1>1, <1>2 DEF DaemonSound, DaemonType
<1>5. /\ daemon' \in DaemonType /\ daemon'.pc = "idle" /\ daemon'.prepared = configured
      /\ daemon'.page = None /\ daemon'.unsent = None
  BY <1>2, <1>3, <1>4 DEF DaemonType
<1>6. DaemonSound'
  BY <1>5, QuietDaemon
<1>7. Listed' = Listed
  BY <1>2, ListedFrame
<1>8. \A f \in files' : f.life # "open"
  BY <1>2 DEF Listed
<1> DEFINE d == Differ(daemon.prepared, configured)
           e == Differ(state.fingerprint, daemon.prepared)
<1>9. CASE state' = state /\ (state # None => RevisionCurrent(configured))
  <2>1. SpoolSound'
    BY <1>1, <1>2, <1>8, <1>9, SpoolFrame
  <2>2. RowsSound'
    BY <1>1, <1>2, <1>7, <1>9, RowsFrame
  <2>3. EditsSound'
    <3>1. Differ(configured, configured) = 0 /\ d \in {0, 1} /\ e \in {0, 1}
      BY DifferFacts
    <3>2. CASE state = None
      BY <1>2, <1>3, <1>5, <1>9, <3>1, <3>2 DEF EditsSound
    <3>3. CASE state # None
      <4>1. state.configGeneration \in Nat /\ state.configGeneration + e + d <= edits + 1
        BY <1>1, <3>3, StateTypes DEF EditsSound, SpoolSound, StateSound
      <4>2. state.fingerprint = configured
        BY <1>9, <3>3 DEF RevisionCurrent
      <4> HIDE DEF d, e
      <4>3. state.configGeneration + 0 + 0 <= edits + 1
        BY <1>3, <3>1, <4>1
      <4> QED BY <1>2, <1>3, <1>5, <1>9, <3>1, <3>3, <4>2, <4>3 DEF EditsSound
    <3> QED BY <3>2, <3>3
  <2>4. Committed' = Committed
    BY <1>9 DEF Committed
  <2> QED BY <1>1, <1>2, <1>6, <2>1, <2>2, <2>3, <2>4 DEF ScanInv
<1>10. CASE state # None /\ Activatable(state, configured) /\ state' = Activated(state, configured)
  <2>1. state.configGeneration \in Nat /\ state.configGeneration + e + d <= edits + 1
    BY <1>1, <1>10, StateTypes DEF EditsSound, SpoolSound, StateSound
  <2>2. d \in {0, 1} /\ e \in {0, 1} /\ d + e >= 1
    <3>1. Differ(state.fingerprint, configured) = 1
      BY <1>10, DifferFacts DEF Activatable
    <3> QED BY <3>1, DifferFacts
  <2> HIDE DEF d, e
  <2>3. state.configGeneration + 1 <= edits + 1 /\ state.configGeneration + 1 <= MaxEdits + 1
    BY <1>3, <2>1, <2>2
  <2>4. /\ StateSound(state') /\ ListSound(state', Listed') /\ RowsSound' /\ state' # None
        /\ state'.fingerprint = configured /\ state'.configGeneration = state.configGeneration + 1
        /\ Listed = {} /\ Committed' = Committed
    BY <1>1, <1>2, <1>3, <1>7, <1>10, <2>3, ActivationKeeps
  <2>5. SpoolSound'
    BY <1>2, <2>4 DEF SpoolSound
  <2>6. EditsSound'
    <3>1. Differ(configured, configured) = 0
      BY DifferFacts
    <3>2. (state.configGeneration + 1) + 0 + 0 <= edits + 1
      BY <2>1, <2>3
    <3> QED BY <1>2, <1>3, <1>5, <2>4, <3>1, <3>2 DEF EditsSound
  <2> QED BY <1>1, <1>2, <1>6, <2>4, <2>5, <2>6 DEF ScanInv
<1> QED BY <1>9, <1>10 DEF StartDaemon

LEMMA DaemonFrame ==
  ASSUME DaemonSound, UNCHANGED <<state, daemon, source, inserted, indexed>>, Listed' = Listed
  PROVE  DaemonSound'
BY DEF DaemonSound, PageInFlight, BetweenPages, Covered

LEMMA StartRefusedKeeps == ASSUME ScanInv, StartRefused PROVE ScanInv'
<1>1. SpoolSound /\ RowsSound /\ DaemonSound /\ EditsSound /\ ~refused
  BY DEF ScanInv
<1>2. /\ files' = Listed
      /\ UNCHANGED <<state, daemon, source, inserted, indexed, receipts, configured, edits, refused>>
  BY DEF StartRefused, OpenSpool, world, ghosts
<1>3. Listed' = Listed /\ \A f \in files' : f.life # "open"
  BY <1>2, ListedFrame DEF Listed
<1>4. SpoolSound'
  BY <1>1, <1>2, <1>3, SpoolFrame
<1>5. RowsSound'
  BY <1>1, <1>2, <1>3, RowsFrame
<1>6. DaemonSound'
  BY <1>1, <1>2, <1>3, DaemonFrame
<1>7. EditsSound'
  BY <1>1, <1>2, EditsFrame
<1> QED BY <1>1, <1>2, <1>4, <1>5, <1>6, <1>7 DEF ScanInv

LEMMA EditKeeps == ASSUME ScanInv, EditConfiguration PROVE ScanInv'
<1>1. SpoolSound /\ RowsSound /\ DaemonSound /\ EditsSound /\ ~refused
  BY DEF ScanInv
<1>2. /\ edits < MaxEdits /\ edits' = edits + 1 /\ configured' \in Fingerprint
      /\ UNCHANGED <<state, files, daemon, source, inserted, indexed, receipts, refused>>
  BY DEF EditConfiguration, durable, ghosts
<1>3. Listed' = Listed
  BY <1>2, ListedFrame
<1>4. SpoolSound'
  BY <1>1, <1>2, <1>3 DEF SpoolSound
<1>5. RowsSound'
  BY <1>1, <1>2, <1>3, RowsFrame
<1>6. DaemonSound'
  BY <1>1, <1>2, <1>3, DaemonFrame
<1>7. EditsSound'
  <2> DEFINE d == Differ(daemon.prepared, configured)
             h == Differ(daemon.prepared, configured')
             e == Differ(state.fingerprint, daemon.prepared)
  <2>1. d \in {0, 1} /\ h \in {0, 1} /\ e \in {0, 1}
    BY DifferFacts
  <2>2. edits \in 0 .. MaxEdits /\ edits + 1 \in 0 .. MaxEdits
    BY <1>1, <1>2 DEF EditsSound
  <2>3. CASE state = None
    <3>1. d <= edits
      BY <1>1, <2>3 DEF EditsSound
    <3> HIDE DEF d, h
    <3>2. h <= edits + 1
      BY <2>1, <2>2, <3>1
    <3> QED BY <1>2, <2>2, <2>3, <3>2 DEF EditsSound, h
  <2>4. CASE state # None
    <3>1. state.configGeneration \in Nat /\ state.configGeneration + e + d <= edits + 1
      BY <1>1, <2>4, StateTypes DEF EditsSound, SpoolSound, StateSound
    <3> HIDE DEF d, e, h
    <3>2. state.configGeneration + e + h <= (edits + 1) + 1
      BY <2>1, <2>2, <3>1
    <3> QED BY <1>2, <2>2, <2>4, <3>2 DEF EditsSound, e, h
  <2> QED BY <2>3, <2>4
<1> QED BY <1>1, <1>2, <1>4, <1>5, <1>6, <1>7 DEF ScanInv

(* A reload brings the loaded revision up to the configured one.           *)
LEMMA ReloadKeeps == ASSUME ScanInv, Reload PROVE ScanInv'
<1>1. SpoolSound /\ RowsSound /\ DaemonSound /\ EditsSound /\ ~refused
  BY DEF ScanInv
<1>2. /\ daemon.pc = "wave" /\ daemon' = [Idle(daemon) EXCEPT !.prepared = configured]
      /\ UNCHANGED <<state, files, source, inserted, indexed, receipts, configured, edits, refused>>
  BY DEF Reload, durable, world, ghosts
<1>3. configured \in Fingerprint /\ edits \in 0 .. MaxEdits
  BY <1>1 DEF EditsSound
<1>4. /\ daemon' \in DaemonType /\ daemon'.pc = "idle" /\ daemon'.prepared = configured
      /\ daemon'.page = None /\ daemon'.unsent = None
  <2>1. /\ Idle(daemon) \in DaemonType /\ Idle(daemon).pc = "idle" /\ Idle(daemon).page = None
        /\ Idle(daemon).unsent = None
    BY <1>1, QuietRecords
  <2> DEFINE i == Idle(daemon)
  <2> HIDE DEF i
  <2>2. daemon' = [i EXCEPT !.prepared = configured] /\ i \in DaemonType /\ i.pc = "idle"
        /\ i.page = None /\ i.unsent = None
    BY <1>2, <2>1 DEF i
  <2> QED BY <1>3, <2>2 DEF DaemonType
<1>5. \A f \in files : f.life # "open"
  BY <1>1, <1>2, NothingOpen
<1>6. SpoolSound'
  BY <1>1, <1>2, <1>5, SpoolFrame
<1>7. RowsSound'
  BY <1>1, <1>2, ListedFrame, RowsFrame
<1>8. DaemonSound'
  BY <1>4, QuietDaemon
<1>9. EditsSound'
  <2> DEFINE d == Differ(daemon.prepared, configured)
             e == Differ(state.fingerprint, daemon.prepared)
             h == Differ(state.fingerprint, configured)
  <2>1. d \in {0, 1} /\ e \in {0, 1} /\ h \in {0, 1} /\ h <= e + d /\ Differ(configured, configured) = 0
    BY DifferFacts
  <2>2. CASE state = None
    BY <1>2, <1>3, <1>4, <2>1, <2>2 DEF EditsSound
  <2>3. CASE state # None
    <3>1. state.configGeneration \in Nat /\ state.configGeneration + e + d <= edits + 1
      BY <1>1, <2>3, StateTypes DEF EditsSound, SpoolSound, StateSound
    <3> HIDE DEF d, e, h
    <3>2. state.configGeneration + h + 0 <= edits + 1
      BY <1>3, <2>1, <3>1
    <3> QED BY <1>2, <1>3, <1>4, <2>1, <2>3, <3>2 DEF EditsSound, h
  <2> QED BY <2>2, <2>3
<1> QED BY <1>1, <1>2, <1>6, <1>7, <1>8, <1>9 DEF ScanInv

LEMMA ActivateRevisionKeeps == ASSUME ScanInv, ActivateRevision PROVE ScanInv' /\ Committed' = Committed
<1>1. SpoolSound /\ RowsSound /\ DaemonSound /\ EditsSound /\ ~refused
  BY DEF ScanInv
<1>2. /\ daemon.pc = "idle" /\ state # None /\ Activatable(state, daemon.prepared)
      /\ state' = Activated(state, daemon.prepared)
      /\ UNCHANGED <<files, daemon, source, inserted, indexed, receipts, configured, edits, refused>>
  BY DEF ActivateRevision, RevisionActivatable, world, ghosts
<1>3. configured \in Fingerprint /\ edits \in 0 .. MaxEdits
  BY <1>1 DEF EditsSound
<1>4. daemon \in DaemonType /\ daemon.prepared \in Fingerprint
      /\ daemon.page = None /\ daemon.unsent = None
  BY <1>1, <1>2 DEF DaemonSound, DaemonType
<1>5. Listed' = Listed
  BY <1>2, ListedFrame
<1> DEFINE d == Differ(daemon.prepared, configured)
<1>6. d \in {0, 1} /\ Differ(state.fingerprint, daemon.prepared) = 1
      /\ Differ(daemon.prepared, daemon.prepared) = 0
  BY <1>2, DifferFacts DEF Activatable
<1>7. state.configGeneration \in Nat /\ state.configGeneration + 1 + d <= edits + 1
  BY <1>1, <1>2, <1>6, StateTypes DEF EditsSound, SpoolSound, StateSound
<1> HIDE DEF d
<1>8. state.configGeneration + 1 <= MaxEdits + 1
  BY <1>3, <1>6, <1>7
<1>9. /\ StateSound(state') /\ ListSound(state', Listed') /\ RowsSound' /\ state' # None
      /\ state'.fingerprint = daemon.prepared /\ state'.configGeneration = state.configGeneration + 1
      /\ Listed = {} /\ Committed' = Committed
  BY <1>1, <1>2, <1>4, <1>5, <1>8, ActivationKeeps
<1>10. SpoolSound'
  BY <1>1, <1>2, <1>9 DEF SpoolSound
<1>11. DaemonSound'
  BY <1>2, <1>4, QuietDaemon
<1>12. EditsSound'
  <2>1. (state.configGeneration + 1) + 0 + d <= edits + 1
    BY <1>7, <1>3, <1>6
  <2> QED BY <1>2, <1>3, <1>6, <1>9, <2>1 DEF EditsSound, d
<1>13. Committed' = Committed
  BY <1>9
<1> QED BY <1>1, <1>2, <1>9, <1>10, <1>11, <1>12, <1>13 DEF ScanInv

(* A turn begins: with a scan to reconcile, or with nothing to do before   *)
(* the collection.                                                         *)
LEMMA BeginReconcileKeeps == ASSUME ScanInv, BeginReconcile PROVE ScanInv'
<1>1. SpoolSound /\ RowsSound /\ DaemonSound /\ EditsSound /\ ~refused
  BY DEF ScanInv
<1> DEFINE to == IF NoScan THEN "wave" ELSE "reconcile"
<1>2. /\ daemon.pc = "idle" /\ daemon' = [daemon EXCEPT !.pc = to]
      /\ state # None => state.fingerprint = daemon.prepared
      /\ UNCHANGED <<state, files, source, inserted, indexed, receipts, configured, edits, refused>>
  BY DEF BeginReconcile, RevisionCurrent, durable, world, ghosts
<1>3. to \in {"wave", "reconcile"} /\ (to = "wave" <=> NoScan)
  OBVIOUS
<1> HIDE DEF to
<1>4. daemon \in DaemonType /\ daemon.page = None /\ daemon.unsent = None
  BY <1>1, <1>2 DEF DaemonSound, DaemonType
<1>5. /\ daemon' \in DaemonType /\ daemon'.pc = to /\ daemon'.prepared = daemon.prepared
      /\ daemon'.page = None /\ daemon'.unsent = None
  BY <1>2, <1>3, <1>4 DEF DaemonType
<1>6. \A f \in files : f.life # "open"
  BY <1>1, <1>2, NothingOpen
<1>7. Listed' = Listed
  BY <1>2, ListedFrame
<1>8. SpoolSound'
  BY <1>1, <1>2, <1>6, SpoolFrame
<1>9. RowsSound'
  BY <1>1, <1>2, <1>7, RowsFrame
<1>10. DaemonSound'
  <2>1. NoScan => Listed = {}
    BY <1>1 DEF NoScan, SpoolSound, ListSound, Listed
  <2>2. to = "wave" => /\ Listed' = {}
                       /\ state' # None => state'.fingerprint = daemon'.prepared
                       /\ ~(state' # None /\ state'.scan # None)
    BY <1>2, <1>3, <1>5, <1>7, <2>1 DEF NoScan
  <2>3. to = "reconcile" => state' # None /\ state'.scan # None /\ state'.fingerprint = daemon'.prepared
    BY <1>2, <1>3, <1>5 DEF NoScan
  <2> QED BY <1>3, <1>5, <2>2, <2>3 DEF DaemonSound, DaemonType
<1>11. EditsSound'
  BY <1>1, <1>2, <1>5, EditsFrame
<1> QED BY <1>1, <1>2, <1>8, <1>9, <1>10, <1>11 DEF ScanInv

-----------------------------------------------------------------------------
(* Reconcile.                                                              *)

LEMMA Reconciling ==
  ASSUME ScanInv, daemon.pc = "reconcile"
  PROVE  /\ SpoolSound /\ RowsSound /\ DaemonSound /\ EditsSound /\ ~refused
         /\ state # None /\ state.scan # None /\ state.fingerprint = daemon.prepared
         /\ daemon \in DaemonType /\ daemon.page = None /\ files = Listed
         /\ \A f \in files : f.life # "open"
         /\ state.scan.resume <= inserted /\ inserted \in Nat /\ inserted <= MaxInserts
<1>1. SpoolSound /\ RowsSound /\ DaemonSound /\ EditsSound /\ ~refused
  BY DEF ScanInv
<1>2. /\ state # None /\ state.scan # None /\ state.fingerprint = daemon.prepared
      /\ daemon \in DaemonType /\ daemon.page = None
  BY <1>1 DEF DaemonSound, DaemonType
<1>3. files = Listed /\ \A f \in files : f.life # "open"
  BY <1>1, NothingOpen
<1>4. state.scan.resume <= inserted /\ inserted \in Nat /\ inserted <= MaxInserts
  BY <1>1, <1>2 DEF RowsSound
<1> QED BY <1>1, <1>2, <1>3, <1>4

LEMMA ReconcilingDaemon ==
  ASSUME daemon' \in DaemonType, daemon'.pc = "reconcile", daemon'.page = None, daemon'.unsent = None,
         state' # None, state'.scan # None, state'.fingerprint = daemon'.prepared
  PROVE  DaemonSound'
BY DEF DaemonSound, DaemonType

LEMMA WaitingDaemon ==
  ASSUME daemon' \in DaemonType, daemon'.pc = "wave", daemon'.page = None, daemon'.unsent = None,
         Listed' = {}, state' # None => state'.fingerprint = daemon'.prepared,
         state' # None /\ state'.scan # None => ~state'.scan.complete /\ state'.scan.segments = <<>>
  PROVE  DaemonSound'
BY DEF DaemonSound, DaemonType, BetweenPages

(* A replacement that moves neither cursor leaves the rows as they were.   *)
LEMMA RowsOfReplacement ==
  ASSUME RowsSound, state # None, state.scan # None, state' # None, state'.scan # None,
         state'.coordinator.generation = state.coordinator.generation,
         state'.coordinator.committed = state.coordinator.committed,
         state'.scan.resume = state.scan.resume, Listed' = Listed,
         UNCHANGED <<source, inserted, indexed, receipts>>
  PROVE  RowsSound'
<1>1. Committed' = Committed
  BY DEF Committed
<1>2. NothingLost'
  BY DEF RowsSound, NothingLost
<1>3. ReceiptsSound'
  BY DEF RowsSound, ReceiptsSound
<1>4. \A f \in Listed' : FileSound(f)'
  BY DEF RowsSound, FileSound, Covered
<1> QED BY <1>1, <1>2, <1>3, <1>4 DEF RowsSound, Covered

(* An accepted proposal is the next state.                                 *)
LEMMA Exchanged ==
  ASSUME NEW p, Accepts(state, p), CompareExchange(p)
  PROVE  state' = p /\ refused' = refused
BY DEF CompareExchange

(* compact_delivered removes the file of a receipted page, all of whose    *)
(* rows are in Splunk.                                                     *)
LEMMA CompactKeeps == ASSUME ScanInv, CompactDelivered PROVE ScanInv'
<1>0. daemon.pc = "reconcile"
  BY DEF CompactDelivered
<1>1. /\ SpoolSound /\ RowsSound /\ DaemonSound /\ EditsSound /\ ~refused
      /\ state # None /\ state.scan # None /\ state.fingerprint = daemon.prepared
      /\ daemon \in DaemonType /\ daemon.page = None /\ files = Listed
  BY <1>0, Reconciling DEF ScanInv
<1>2. PICK f \in ReceiptedFiles(state.scan) : files' = files \ {f}
  BY DEF CompactDelivered
<1>3. UNCHANGED <<state, daemon, source, inserted, indexed, receipts, configured, edits, refused>>
  BY DEF CompactDelivered, world, ghosts
<1>4. state.scan.segments # <<>> /\ state.scan.delivered # state.scan.compacted
  BY <1>1, <1>2, NoReference, OneReference
<1>5. f \in Listed /\ f.life = "delivered"
  BY <1>1, <1>2, <1>4, OneReference
<1>6. files = {f}
  BY <1>1, <1>5, ListedOne
<1>7. files' = {} /\ Listed' = {}
  BY <1>2, <1>6 DEF Listed
<1>8. SpoolSound'
  <2>1. StateSound(state) /\ ListSound(state, Listed)
    BY <1>1 DEF SpoolSound
  <2>2. ListSound(state, {})
    BY <1>1, <1>4 DEF ListSound
  <2>3. StateSound(state)' /\ ListSound(state, Listed)'
    BY <1>3, <1>7, <2>1, <2>2
  <2> QED BY <1>1, <1>3, <1>7, <2>3 DEF SpoolSound
<1>9. RowsSound'
  <2>1. f.rows \subseteq indexed
    BY <1>1, <1>5 DEF RowsSound, FileSound
  <2>2. NothingLost'
    BY <1>1, <1>3, <1>6, <1>7, <2>1 DEF RowsSound, NothingLost
  <2>3. ReceiptsSound' /\ Committed' = Committed
    BY <1>1, <1>3 DEF RowsSound, ReceiptsSound, Committed
  <2> QED BY <1>1, <1>3, <1>7, <2>2, <2>3 DEF RowsSound, Covered
<1>10. DaemonSound'
  <2>1. daemon.unsent = None
    BY <1>1, <1>4 DEF DaemonSound
  <2> QED BY <1>0, <1>1, <1>3, <2>1, ReconcilingDaemon
<1>11. EditsSound'
  BY <1>1, <1>3, EditsFrame
<1> QED BY <1>1, <1>3, <1>8, <1>9, <1>10, <1>11 DEF ScanInv

LEMMA PruneKeeps == ASSUME ScanInv, Prune PROVE ScanInv' /\ Committed' = Committed
<1>0. daemon.pc = "reconcile"
  BY DEF Prune
<1>1. /\ SpoolSound /\ RowsSound /\ DaemonSound /\ EditsSound /\ ~refused
      /\ state # None /\ state.scan # None /\ state.fingerprint = daemon.prepared
      /\ daemon \in DaemonType /\ daemon.page = None /\ files = Listed
  BY <1>0, Reconciling DEF ScanInv
<1>2. /\ ReceiptedFiles(state.scan) = {} /\ Removable(state.scan) > 0 /\ CompareExchange(PruneProposal)
      /\ UNCHANGED <<files, daemon, source, inserted, indexed, receipts, configured, edits>>
  BY DEF Prune, world
<1>3. state.scan.segments # <<>> /\ state.scan.delivered # state.scan.compacted
  <2>1. state.scan.segments # <<>>
    BY <1>1, <1>2, NoReference
  <2> QED BY <1>1, <1>2, <2>1, OneReference
<1>4. Listed = {}
  BY <1>1, <1>2, <1>3, OneReference
<1> DEFINE s == state.scan
           t == [s EXCEPT !.compacted = s.compacted + 1,
                          !.compactedRows = s.compactedRows + s.segments[1].rows, !.segments = <<>>]
<1>5. /\ Accepts(state, PruneProposal) /\ StateSound(PruneProposal)
      /\ Replaces(state, PruneProposal, state.coordinator, t)
  BY <1>1, <1>3, PruneAccepted
<1>6. s \in Scan
  BY <1>1, ScanTypes
<1>7. t.segments = <<>> /\ t.resume = s.resume /\ t # None
  <2>1. t.segments = <<>> /\ t.resume = s.resume
    BY <1>6 DEF Scan
  <2>2. t # None
    <3>1. state.coordinator.active # None
      BY <1>1, ScanTypes
    <3> HIDE DEF t
    <3> QED BY <1>5, <3>1 DEF Replaces, StateSound
  <2> QED BY <2>1, <2>2
<1> HIDE DEF t
<1>8. state' = PruneProposal /\ refused' = refused
  BY <1>2, <1>5, Exchanged
<1>9. /\ state'.coordinator = state.coordinator /\ state'.scan = t /\ state' # None
      /\ state'.fingerprint = state.fingerprint /\ state'.configGeneration = state.configGeneration
  BY <1>5, <1>8 DEF Replaces
<1>10. Listed' = Listed
  BY <1>2, ListedFrame
<1>11. SpoolSound'
  <2>1. StateSound(state')
    BY <1>5, <1>8
  <2>2. ListSound(state', {})
    BY <1>7, <1>9 DEF ListSound
  <2> QED BY <1>1, <1>2, <1>4, <1>9, <1>10, <2>1, <2>2 DEF SpoolSound
<1>12. RowsSound'
  BY <1>1, <1>2, <1>7, <1>9, <1>10, RowsOfReplacement
<1>13. DaemonSound'
  <2>1. daemon.unsent = None
    BY <1>1, <1>3 DEF DaemonSound
  <2> QED BY <1>0, <1>1, <1>2, <1>7, <1>9, <2>1, ReconcilingDaemon
<1>14. EditsSound'
  BY <1>1, <1>2, <1>9, EditsFrame
<1>15. Committed' = Committed
  BY <1>1, <1>9 DEF Committed
<1> QED BY <1>1, <1>8, <1>11, <1>12, <1>13, <1>14, <1>15 DEF ScanInv

(* adopt_orphan moves the resume cursor over the page whose file is there. *)
LEMMA AdoptKeeps == ASSUME ScanInv, AdoptOrphan PROVE ScanInv' /\ Committed' = Committed
<1>0. daemon.pc = "reconcile"
  BY DEF AdoptOrphan
<1>1. /\ SpoolSound /\ RowsSound /\ DaemonSound /\ EditsSound /\ ~refused
      /\ state # None /\ state.scan # None /\ state.fingerprint = daemon.prepared
      /\ daemon \in DaemonType /\ daemon.page = None /\ files = Listed
      /\ inserted \in Nat /\ inserted <= MaxInserts
  BY <1>0, Reconciling DEF ScanInv
<1>2. PICK f \in Orphans(state.scan) : CompareExchange(AdoptProposal(f))
  BY DEF AdoptOrphan
<1>3. UNCHANGED <<files, daemon, source, inserted, indexed, receipts, configured, edits>>
  BY DEF AdoptOrphan, world
<1> DEFINE s == state.scan
           c == state.coordinator
           p == AdoptProposal(f)
           t == AdoptedScan(s, f)
           ref == AdoptedReference(s, f)
<1>4. s.segments = <<>>
  BY <1>1, <1>2, OneReference
<1>5. f \in Listed /\ OrphanSound(f, state)
  BY <1>1, <1>2, <1>4, NoReference
<1>6. files = {f} /\ Listed = {f} /\ f \in Segment
  BY <1>1, <1>5, ListedOne
<1>7. PageSound(f, state) /\ ~s.complete /\ f.page = s.nextPage
  BY <1>5 DEF OrphanSound
<1>8. FileSound(f) /\ f.resume <= inserted
  BY <1>1, <1>5 DEF RowsSound, FileSound
<1>9. f.resume \in Nat
  BY <1>6 DEF Segment, OptCursor, NoCursor
<1>10. f.resume <= MaxInserts
  BY <1>1, <1>8, <1>9
<1>11. Progresses(p, t)
  BY <1>1, <1>4, <1>6, <1>7, <1>10, AdoptAccepted
<1>12. state' = p /\ refused' = refused
  BY <1>2, <1>11, Exchanged DEF Progresses
<1>13. s \in Scan /\ s.resume \in Nat /\ SegmentCount(s) = s.compacted /\ s.delivered = s.compacted
  BY <1>1, <1>4, ScanTypes, ScanNumbersOf, NoReference
<1>14. /\ t.segments = <<ref>> /\ t.resume = f.resume /\ t.complete = ~f.truncated
       /\ t.delivered = s.delivered /\ t.compacted = s.compacted
  BY <1>13 DEF AdoptedScan, Scan
<1>15. ref.id = f.id /\ ref.page = s.nextPage /\ ref.rows = Cardinality(f.rows)
  BY DEF AdoptedReference
<1>16. t.segments # <<>> /\ t.segments[1] = ref
  <2> HIDE DEF ref, t
  <2> QED BY <1>14, ShortSequences
<1> HIDE DEF p, t, ref
<1>17. /\ StateSound(p) /\ p # None /\ p.scan = t
       /\ p.fingerprint = state.fingerprint /\ p.configGeneration = state.configGeneration
       /\ p.coordinator.generation = c.generation /\ p.coordinator.committed = c.committed
       /\ p.coordinator.active # None /\ p.coordinator.active.fence = c.active.fence
  BY <1>11 DEF Progresses, Replaces
<1>18. p.scan # None
  BY <1>17 DEF StateSound
<1>19. Listed' = {f} /\ files' = files
  BY <1>3, <1>6, ListedFrame
<1>20. SpoolSound'
  <2>1. InFence(f, state) /\ \A r \in f.rows : r <= f.resume
    BY <1>1, <1>5, ScanTypes DEF ListSound
  <2>2. InFence(f, p)
    BY <1>17, <2>1 DEF InFence
  <2>3. LocatedSound(f, p)
    BY <1>7, <1>14, <1>15, <1>16, <1>17 DEF LocatedSound
  <2>4. ~(t.delivered > t.compacted)
    <3>1. s.delivered \in Nat
      BY <1>1, ScanNumbersOf
    <3> QED BY <1>13, <1>14, <3>1
  <2>5. ListSound(p, {f})
    BY <1>16, <1>17, <1>18, <2>1, <2>2, <2>3, <2>4 DEF ListSound
  <2>6. files' \subseteq Segment /\ (\E g \in files' : files' = {g}) /\ \A g \in files' : g.life # "open"
    BY <1>5, <1>6, <1>19 DEF Listed
  <2> QED BY <1>12, <1>17, <1>19, <2>5, <2>6 DEF SpoolSound
<1>21. RowsSound'
  <2>1. Committed' = Committed
    BY <1>1, <1>12, <1>17 DEF Committed
  <2>2. NothingLost'
    <3>1. \A r \in source : r <= f.resume => r \in indexed \/ r \in f.rows
      BY <1>8 DEF FileSound, Covered
    <3> QED BY <1>3, <1>12, <1>14, <1>17, <1>19, <3>1 DEF NothingLost
  <2>3. ReceiptsSound'
    <3>1. ReceiptsSound
      BY <1>1 DEF RowsSound
    <3>2. f.resume > s.resume
      BY <1>7 DEF PageSound
    <3>3. ASSUME NEW g \in Generation, NEW r \in Row, <<g, r>> \in receipts
          PROVE  /\ g <= p.coordinator.generation
                 /\ g = p.coordinator.generation => r <= t.resume
      <4>1. g <= c.generation /\ (g = c.generation => r <= s.resume)
        BY <3>1, <3>3 DEF ReceiptsSound
      <4>2. g = c.generation => r <= f.resume
        <5>1. r \in Nat
          OBVIOUS
        <5>2. \A x, y, z \in Nat : x <= y /\ z > y => x <= z
          OBVIOUS
        <5> QED BY <1>9, <1>13, <3>2, <4>1, <5>1, <5>2
      <4> QED BY <1>14, <1>17, <4>1, <4>2
    <3>4. receipts' = receipts /\ state' # None /\ state'.scan # None
      BY <1>3, <1>12, <1>17, <1>18
    <3> QED BY <1>12, <1>17, <3>1, <3>3, <3>4 DEF ReceiptsSound
  <2>4. \A g \in Listed' : FileSound(g)'
    BY <1>3, <1>8, <1>19 DEF FileSound, Covered
  <2>5. state'.scan.resume <= inserted
    BY <1>8, <1>12, <1>14, <1>17
  <2> QED BY <1>1, <1>3, <2>1, <2>2, <2>3, <2>4, <2>5 DEF RowsSound, Covered
<1>22. DaemonSound'
  <2>1. daemon.unsent = None
    BY <1>1, <1>4 DEF DaemonSound
  <2> QED BY <1>0, <1>1, <1>3, <1>12, <1>17, <1>18, <2>1, ReconcilingDaemon
<1>23. EditsSound'
  BY <1>1, <1>3, <1>12, <1>17, EditsFrame
<1>24. Committed' = Committed
  BY <1>1, <1>12, <1>17 DEF Committed
<1> QED BY <1>1, <1>12, <1>20, <1>21, <1>22, <1>23, <1>24 DEF ScanInv

(* The file whose turn it is to be delivered: the one of the unreceipted   *)
(* reference.                                                              *)
LEMMA NextDeliveryFile ==
  ASSUME SpoolSound, state # None, state.scan # None, NEW life, NEW f \in NextDelivery(life)
  PROVE  /\ state.scan.segments # <<>> /\ state.scan.delivered = state.scan.compacted
         /\ f \in Listed /\ f.life = life /\ files = {f} /\ Listed = {f} /\ f \in Segment
         /\ LocatedSound(f, state) /\ InFence(f, state) /\ \A r \in f.rows : r <= f.resume
<1>1. /\ f \in Listed /\ f.life = life /\ PrefixPruned
      /\ \E i \in DOMAIN state.scan.segments : state.scan.segments[i].sequence = state.scan.delivered + 1
  BY DEF NextDelivery
<1>2. state.scan.segments # <<>>
  BY <1>1, NoReference
<1>3. state.scan.delivered = state.scan.compacted
  BY <1>1, <1>2, OneReference DEF PrefixPruned
<1>4. files = {f} /\ Listed = {f} /\ f \in Segment
  BY <1>1, ListedOne
<1>5. LocatedSound(f, state)
  BY <1>1, <1>2, OneReference
<1>6. InFence(f, state) /\ \A r \in f.rows : r <= f.resume
  BY <1>1, ScanTypes DEF ListSound
<1> QED BY <1>1, <1>2, <1>3, <1>4, <1>5, <1>6

(* More rows in Splunk lose nothing.                                       *)
LEMMA RowsGrow ==
  ASSUME RowsSound, UNCHANGED <<state, source, inserted, receipts>>, Listed' = Listed,
         indexed \subseteq indexed', indexed' \subseteq 1 .. inserted
  PROVE  RowsSound'
<1>1. Committed' = Committed /\ ReceiptsSound'
  BY DEF RowsSound, Committed, ReceiptsSound
<1>2. NothingLost'
  BY DEF RowsSound, NothingLost
<1>3. \A f \in Listed' : FileSound(f)'
  BY DEF RowsSound, FileSound, Covered
<1> QED BY <1>1, <1>2, <1>3 DEF RowsSound, Covered

LEMMA SendKeeps == ASSUME ScanInv, SendBatch PROVE ScanInv'
<1>0. daemon.pc = "reconcile"
  BY DEF SendBatch
<1>1. /\ SpoolSound /\ RowsSound /\ DaemonSound /\ EditsSound /\ ~refused
      /\ state # None /\ state.scan # None /\ state.fingerprint = daemon.prepared
      /\ daemon \in DaemonType /\ daemon.page = None /\ files = Listed
      /\ inserted \in Nat /\ inserted <= MaxInserts
  BY <1>0, Reconciling DEF ScanInv
<1>2. UNCHANGED <<state, files, source, inserted, receipts, configured, edits, refused>>
  BY DEF SendBatch, durable, ghosts
<1> DEFINE left(f) == IF daemon.unsent = None THEN f.rows ELSE daemon.unsent
<1>3. PICK f \in NextDelivery("ready") :
        /\ indexed' = indexed \cup Smallest(left(f), BatchEvents)
        /\ daemon' = [daemon EXCEPT !.unsent = left(f) \ Smallest(left(f), BatchEvents)]
  BY DEF SendBatch
<1>4. /\ state.scan.segments # <<>> /\ state.scan.delivered = state.scan.compacted
      /\ f \in Listed /\ f.life = "ready" /\ Listed = {f} /\ f \in Segment
      /\ \A r \in f.rows : r <= f.resume
  BY <1>1, NextDeliveryFile
<1> DEFINE unsent == left(f)
           batch == Smallest(unsent, BatchEvents)
<1>5. unsent \subseteq 1 .. inserted
  <2>1. CASE daemon.unsent = None
    <3>1. f.resume <= inserted /\ f.resume \in Nat /\ f.rows \subseteq Row
      BY <1>1, <1>4 DEF RowsSound, FileSound, Segment, OptCursor, NoCursor
    <3>2. ASSUME NEW r \in f.rows PROVE r \in 1 .. inserted
      <4>1. r \in Nat /\ r > 0 /\ r <= f.resume
        <5>1. r \in Row /\ r <= f.resume
          BY <1>4, <3>1
        <5>2. \A q \in Position : q \in Nat /\ q > 0
          OBVIOUS
        <5> QED BY <5>1, <5>2
      <4> QED BY <1>1, <3>1, <4>1
    <3> QED BY <2>1, <3>2
  <2>2. CASE daemon.unsent # None
    BY <1>1, <2>2 DEF DaemonSound
  <2> QED BY <2>1, <2>2
<1>6. \A r \in f.rows : r \in indexed \/ r \in unsent
  BY <1>1, <1>4 DEF DaemonSound
<1> HIDE DEF left, unsent
<1>7. batch \subseteq unsent
  BY DEF Smallest
<1>8. indexed' = indexed \cup batch /\ daemon' = [daemon EXCEPT !.unsent = unsent \ batch]
  BY <1>3 DEF unsent
<1> HIDE DEF batch
<1>9. (unsent \ batch) \in SUBSET Row /\ unsent \ batch # None
  <2>1. 1 .. inserted \subseteq Row
    <3>1. 1 .. inserted \subseteq 1 .. MaxInserts
      BY <1>1
    <3> QED BY <3>1
  <2>2. (unsent \ batch) \in SUBSET Row
    BY <1>5, <2>1
  <2> QED BY <2>2
<1>10. /\ daemon' \in DaemonType /\ daemon'.pc = "reconcile" /\ daemon'.page = None
       /\ daemon'.prepared = daemon.prepared /\ daemon'.unsent = unsent \ batch
  <2> DEFINE rest == unsent \ batch
  <2> HIDE DEF rest
  <2>1. rest \in SUBSET Row /\ daemon' = [daemon EXCEPT !.unsent = rest]
    BY <1>8, <1>9 DEF rest
  <2>2. /\ daemon' \in DaemonType /\ daemon'.pc = "reconcile" /\ daemon'.page = None
        /\ daemon'.prepared = daemon.prepared /\ daemon'.unsent = rest
    BY <1>0, <1>1, <2>1 DEF DaemonType
  <2> QED BY <2>2 DEF rest
<1>11. Listed' = Listed
  BY <1>2, ListedFrame
<1>12. indexed \subseteq indexed' /\ indexed' \subseteq 1 .. inserted
  <2>1. indexed \subseteq 1 .. inserted
    BY <1>1 DEF RowsSound
  <2> QED BY <1>5, <1>7, <1>8, <2>1
<1>13. SpoolSound'
  <2>1. \A g \in files' : g.life # "open"
    BY <1>1, <1>2 DEF Listed
  <2> QED BY <1>1, <1>2, <2>1, SpoolFrame
<1>14. RowsSound'
  BY <1>1, <1>2, <1>11, <1>12, RowsGrow
<1>15. DaemonSound'
  <2>1. daemon'.unsent \subseteq 1 .. inserted'
    BY <1>2, <1>5, <1>10
  <2>2. \A g \in Listed' : g.life = "ready" /\ \A r \in g.rows : r \in indexed' \/ r \in daemon'.unsent
    BY <1>4, <1>6, <1>8, <1>10, <1>11
  <2>3. state'.scan.segments # <<>> /\ state'.scan.delivered = state'.scan.compacted
    BY <1>2, <1>4
  <2>4. state' # None /\ state'.scan # None /\ state'.fingerprint = daemon'.prepared
    BY <1>1, <1>2, <1>10
  <2> QED BY <1>10, <2>1, <2>2, <2>3, <2>4 DEF DaemonSound, DaemonType
<1>16. EditsSound'
  BY <1>1, <1>2, <1>10, EditsFrame
<1> QED BY <1>1, <1>2, <1>13, <1>14, <1>15, <1>16 DEF ScanInv

(* A page all of whose requests were acknowledged is marked delivered.     *)
LEMMA MarkKeeps == ASSUME ScanInv, MarkDelivered PROVE ScanInv'
<1>0. daemon.pc = "reconcile" /\ daemon.unsent = {}
  BY DEF MarkDelivered
<1>1. /\ SpoolSound /\ RowsSound /\ DaemonSound /\ EditsSound /\ ~refused
      /\ state # None /\ state.scan # None /\ state.fingerprint = daemon.prepared
      /\ daemon \in DaemonType /\ daemon.page = None /\ files = Listed
  BY <1>0, Reconciling DEF ScanInv
<1>2. /\ UNCHANGED <<state, source, inserted, indexed, receipts, configured, edits, refused>>
      /\ daemon' = [daemon EXCEPT !.unsent = None]
  BY DEF MarkDelivered, world, ghosts
<1>3. PICK f \in NextDelivery("ready") : files' = (files \ {f}) \cup {[f EXCEPT !.life = "delivered"]}
  BY DEF MarkDelivered
<1>4. /\ state.scan.segments # <<>> /\ state.scan.delivered = state.scan.compacted
      /\ f \in Listed /\ files = {f} /\ Listed = {f} /\ f \in Segment
      /\ LocatedSound(f, state) /\ InFence(f, state) /\ \A r \in f.rows : r <= f.resume
  BY <1>1, NextDeliveryFile
<1> DEFINE g == [f EXCEPT !.life = "delivered"]
<1>5. /\ g \in Segment /\ g.life = "delivered" /\ g.id = f.id /\ g.fingerprint = f.fingerprint
      /\ g.configGeneration = f.configGeneration /\ g.attempt = f.attempt /\ g.generation = f.generation
      /\ g.page = f.page /\ g.rows = f.rows /\ g.truncated = f.truncated /\ g.resume = f.resume
  BY <1>4 DEF Segment
<1>6. files' = {g}
  BY <1>3, <1>4
<1> HIDE DEF g
<1>7. Listed' = {g}
  BY <1>5, <1>6 DEF Listed
<1>8. \A r \in f.rows : r \in indexed
  <2>1. daemon.unsent # None
    BY <1>0
  <2> QED BY <1>0, <1>1, <1>4, <2>1 DEF DaemonSound
<1>9. SpoolSound'
  <2>1. InFence(g, state) /\ \A r \in g.rows : r <= g.resume
    BY <1>4, <1>5 DEF InFence
  <2>2. LocatedSound(g, state)
    BY <1>4, <1>5 DEF LocatedSound
  <2>3. ListSound(state, {g})
    BY <1>1, <1>4, <1>5, <2>1, <2>2 DEF ListSound
  <2>4. StateSound(state)
    BY <1>1, ScanTypes
  <2>5. StateSound(state)' /\ ListSound(state, Listed)'
    BY <1>2, <1>7, <2>3, <2>4
  <2> QED BY <1>1, <1>2, <1>5, <1>6, <2>5 DEF SpoolSound
<1>10. RowsSound'
  <2>1. FileSound(f)
    BY <1>1, <1>4 DEF RowsSound
  <2>2. FileSound(g)'
    BY <1>2, <1>5, <1>8, <2>1 DEF FileSound, Covered
  <2>3. NothingLost'
    BY <1>1, <1>2, <1>4, <1>5, <1>7 DEF RowsSound, NothingLost
  <2>4. ReceiptsSound' /\ Committed' = Committed
    BY <1>1, <1>2 DEF RowsSound, ReceiptsSound, Committed
  <2> QED BY <1>1, <1>2, <1>7, <2>2, <2>3, <2>4 DEF RowsSound, Covered
<1>11. /\ daemon' \in DaemonType /\ daemon'.pc = "reconcile" /\ daemon'.page = None
       /\ daemon'.prepared = daemon.prepared /\ daemon'.unsent = None
  BY <1>0, <1>1, <1>2 DEF DaemonType
<1>12. DaemonSound'
  BY <1>1, <1>2, <1>11, ReconcilingDaemon
<1>13. EditsSound'
  BY <1>1, <1>2, <1>11, EditsFrame
<1> QED BY <1>1, <1>2, <1>9, <1>10, <1>12, <1>13 DEF ScanInv

(* A receipt is for the delivered page behind the resume cursor.           *)
LEMMA ReceiptKeeps == ASSUME ScanInv, Receipt PROVE ScanInv' /\ Committed' = Committed
<1>0. daemon.pc = "reconcile"
  BY DEF Receipt
<1>1. /\ SpoolSound /\ RowsSound /\ DaemonSound /\ EditsSound /\ ~refused
      /\ state # None /\ state.scan # None /\ state.fingerprint = daemon.prepared
      /\ daemon \in DaemonType /\ daemon.page = None /\ files = Listed
  BY <1>0, Reconciling DEF ScanInv
<1>2. /\ UNCHANGED <<files, daemon, source, inserted, indexed, configured, edits>>
      /\ CompareExchange(ReceiptProposal)
  BY DEF Receipt, world
<1>3. PICK f \in NextDelivery("delivered") : receipts' = receipts \cup ({f.generation} \X f.rows)
  BY DEF Receipt
<1>4. /\ state.scan.segments # <<>> /\ state.scan.delivered = state.scan.compacted
      /\ f \in Listed /\ f.life = "delivered" /\ files = {f} /\ Listed = {f} /\ f \in Segment
      /\ LocatedSound(f, state) /\ InFence(f, state) /\ \A r \in f.rows : r <= f.resume
  BY <1>1, NextDeliveryFile
<1> DEFINE s == state.scan
           t == [s EXCEPT !.delivered = s.compacted + 1]
           p == ReceiptProposal
<1>5. /\ Accepts(state, p) /\ StateSound(p) /\ Replaces(state, p, state.coordinator, t)
  BY <1>1, <1>4, ReceiptAccepted
<1>6. state' = p /\ refused' = refused
  BY <1>2, <1>5, Exchanged
<1>7. s \in Scan
  BY <1>1, ScanTypes
<1>8. /\ t.segments = s.segments /\ t.resume = s.resume /\ t.complete = s.complete
      /\ t.compacted = s.compacted /\ t.delivered = s.compacted + 1
  BY <1>7 DEF Scan
<1> HIDE DEF t, p
<1>9. /\ state'.coordinator = state.coordinator /\ state'.scan = t /\ state' # None
      /\ state'.fingerprint = state.fingerprint /\ state'.configGeneration = state.configGeneration
  BY <1>5, <1>6 DEF Replaces
<1>10. t # None
  <2>1. state.coordinator.active # None
    BY <1>1, ScanTypes
  <2> QED BY <1>5, <2>1 DEF Replaces, StateSound
<1>11. Listed' = Listed
  BY <1>2, ListedFrame
<1>12. SpoolSound'
  <2>1. StateSound(state')
    BY <1>5, <1>6
  <2>2. InFence(f, state')
    BY <1>4, <1>9 DEF InFence
  <2>3. LocatedSound(f, state')
    BY <1>4, <1>8, <1>9 DEF LocatedSound
  <2>4. t.delivered # t.compacted
    <3>1. s.compacted \in Nat
      BY <1>1, ScanNumbersOf
    <3> QED BY <1>8, <3>1
  <2>5. ListSound(state', {f})
    BY <1>4, <1>8, <1>9, <1>10, <2>2, <2>3, <2>4 DEF ListSound
  <2> QED BY <1>1, <1>2, <1>4, <1>9, <1>11, <2>1, <2>5 DEF SpoolSound
<1>13. RowsSound'
  <2>1. Committed' = Committed
    BY <1>1, <1>9 DEF Committed
  <2>2. NothingLost'
    BY <1>1, <1>2, <1>8, <1>9, <1>11 DEF RowsSound, NothingLost
  <2>3. ReceiptsSound'
    <3>1. f.generation = state.coordinator.generation /\ f.resume = s.resume
      BY <1>4 DEF InFence, LocatedSound
    <3>2. f.generation \in Generation /\ f.rows \subseteq Row /\ state.coordinator.generation \in Nat
      BY <1>1, <1>4, ScanTypes DEF Segment
    <3>3. receipts' \subseteq Generation \X Row
      BY <1>1, <1>3, <3>2 DEF RowsSound, ReceiptsSound
    <3>4. ASSUME NEW g \in Generation, NEW r \in Row, <<g, r>> \in receipts'
          PROVE  g <= state.coordinator.generation /\ (g = state.coordinator.generation => r <= s.resume)
      <4>1. CASE <<g, r>> \in receipts
        BY <1>1, <4>1 DEF RowsSound, ReceiptsSound
      <4>2. CASE g = f.generation /\ r \in f.rows
        BY <1>4, <3>1, <3>2, <4>2
      <4> QED BY <1>3, <3>4, <4>1, <4>2
    <3> QED BY <1>8, <1>9, <1>10, <3>3, <3>4 DEF ReceiptsSound
  <2>4. \A g \in Listed' : FileSound(g)'
    <3>1. FileSound(f)
      BY <1>1, <1>4 DEF RowsSound
    <3> QED BY <1>2, <1>4, <1>11, <3>1 DEF FileSound, Covered
  <2>5. state'.scan.resume <= inserted
    BY <1>1, <1>8, <1>9 DEF RowsSound
  <2> QED BY <1>1, <1>2, <2>1, <2>2, <2>3, <2>4, <2>5 DEF RowsSound, Covered
<1>14. DaemonSound'
  <2>1. daemon.unsent = None
    BY <1>1, <1>4 DEF DaemonSound
  <2> QED BY <1>0, <1>1, <1>2, <1>9, <1>10, <2>1, ReconcilingDaemon
<1>15. EditsSound'
  BY <1>1, <1>2, <1>9, EditsFrame
<1>16. Committed' = Committed
  BY <1>1, <1>9 DEF Committed
<1> QED BY <1>1, <1>6, <1>12, <1>13, <1>14, <1>15, <1>16 DEF ScanInv

(* A finished prefix leaves no file and no reference.                      *)
LEMMA FinishedIsEmpty ==
  ASSUME SpoolSound, state # None, state.scan # None, PrefixFinished
  PROVE  Listed = {} /\ state.scan.segments = <<>> /\ state.scan.delivered = SegmentCount(state.scan)
<1>1. state.scan.delivered = SegmentCount(state.scan) /\ PrefixPruned /\ Orphans(state.scan) = {}
  BY DEF PrefixFinished
<1>2. state.scan.segments = <<>>
  <2> SUFFICES ASSUME state.scan.segments # <<>> PROVE FALSE
    OBVIOUS
  <2>1. state.scan.delivered = state.scan.compacted /\ SegmentCount(state.scan) = state.scan.compacted + 1
    BY <1>1, OneReference DEF PrefixPruned
  <2>2. state.scan.compacted \in Nat
    BY ScanNumbersOf
  <2>3. \A n \in Nat : n # n + 1
    OBVIOUS
  <2> QED BY <1>1, <2>1, <2>2, <2>3
<1>3. Listed = {}
  BY <1>1, <1>2, NoReference
<1> QED BY <1>1, <1>2, <1>3

LEMMA NeedsCollectionKeeps == ASSUME ScanInv, NeedsCollection PROVE ScanInv'
<1>0. daemon.pc = "reconcile"
  BY DEF NeedsCollection
<1>1. /\ SpoolSound /\ RowsSound /\ DaemonSound /\ EditsSound /\ ~refused
      /\ state # None /\ state.scan # None /\ state.fingerprint = daemon.prepared
      /\ daemon \in DaemonType /\ daemon.page = None /\ files = Listed
  BY <1>0, Reconciling DEF ScanInv
<1>2. /\ UNCHANGED <<state, files, source, inserted, indexed, receipts, configured, edits, refused>>
      /\ daemon' = [daemon EXCEPT !.pc = "wave"] /\ PrefixFinished /\ ~state.scan.complete
  BY DEF NeedsCollection, durable, world, ghosts
<1>3. Listed = {} /\ state.scan.segments = <<>>
  BY <1>1, <1>2, FinishedIsEmpty
<1>4. daemon.unsent = None
  BY <1>1, <1>3 DEF DaemonSound
<1>5. /\ daemon' \in DaemonType /\ daemon'.pc = "wave" /\ daemon'.page = None
      /\ daemon'.prepared = daemon.prepared /\ daemon'.unsent = None
  BY <1>1, <1>2, <1>4 DEF DaemonType
<1>6. Listed' = Listed
  BY <1>2, ListedFrame
<1>7. DaemonSound'
  BY <1>1, <1>2, <1>3, <1>5, <1>6, WaitingDaemon
<1>8. SpoolSound'
  BY <1>1, <1>2, <1>3, SpoolFrame
<1>9. RowsSound'
  BY <1>1, <1>2, <1>6, RowsFrame
<1>10. EditsSound'
  BY <1>1, <1>2, <1>5, EditsFrame
<1> QED BY <1>1, <1>2, <1>7, <1>8, <1>9, <1>10 DEF ScanInv

LEMMA ConfirmKeeps == ASSUME ScanInv, ConfirmDelivery PROVE ScanInv' /\ Committed' = Committed
<1>0. daemon.pc = "reconcile"
  BY DEF ConfirmDelivery
<1>1. /\ SpoolSound /\ RowsSound /\ DaemonSound /\ EditsSound /\ ~refused
      /\ state # None /\ state.scan # None /\ state.fingerprint = daemon.prepared
      /\ daemon \in DaemonType /\ daemon.page = None /\ files = Listed
      /\ state.scan.resume <= inserted /\ inserted \in Nat /\ inserted <= MaxInserts
  BY <1>0, Reconciling DEF ScanInv
<1>2. /\ UNCHANGED <<files, daemon, source, inserted, indexed, receipts, configured, edits>>
      /\ CompareExchange(ConfirmProposal) /\ PrefixFinished /\ state.scan.complete
      /\ state.coordinator.active.delivery.state = "InProgress"
  BY DEF ConfirmDelivery, world
<1>3. Listed = {} /\ state.scan.segments = <<>> /\ state.scan.delivered = SegmentCount(state.scan)
  BY <1>1, <1>2, FinishedIsEmpty
<1>4. state.scan.resume <= MaxInserts
  <2>1. state.scan.resume \in Nat
    BY <1>1, ScanNumbersOf
  <2> QED BY <1>1, <2>1
<1> DEFINE p == ConfirmProposal
<1>5. Progresses(p, state.scan)
  BY <1>1, <1>2, <1>3, <1>4, ConfirmAccepted
<1> HIDE DEF p
<1>6. state' = p /\ refused' = refused
  BY <1>2, <1>5, Exchanged DEF Progresses, p
<1>7. /\ StateSound(p) /\ p # None /\ p.scan = state.scan
      /\ p.fingerprint = state.fingerprint /\ p.configGeneration = state.configGeneration
      /\ p.coordinator.generation = state.coordinator.generation
      /\ p.coordinator.committed = state.coordinator.committed
  BY <1>5 DEF Progresses, Replaces
<1>8. Listed' = Listed
  BY <1>2, ListedFrame
<1>9. SpoolSound'
  <2>1. ListSound(state', {})
    BY <1>1, <1>3, <1>6, <1>7 DEF ListSound
  <2> QED BY <1>1, <1>2, <1>3, <1>6, <1>7, <1>8, <2>1 DEF SpoolSound
<1>10. RowsSound'
  BY <1>1, <1>2, <1>6, <1>7, <1>8, RowsOfReplacement
<1>11. DaemonSound'
  <2>1. daemon.unsent = None
    BY <1>1, <1>3 DEF DaemonSound
  <2> QED BY <1>0, <1>1, <1>2, <1>6, <1>7, <2>1, ReconcilingDaemon
<1>12. EditsSound'
  BY <1>1, <1>2, <1>6, <1>7, EditsFrame
<1>13. Committed' = Committed
  BY <1>1, <1>6, <1>7 DEF Committed
<1> QED BY <1>1, <1>6, <1>9, <1>10, <1>11, <1>12, <1>13 DEF ScanInv

(* A commit moves the cursor to the later of the resume cursor and itself: *)
(* over rows that are all in Splunk.                                       *)
LEMMA CommitKeeps ==
  ASSUME ScanInv, CommitScan
  PROVE  /\ ScanInv'
         /\ \/ Committed' = Committed
            \/ Committed' \in Row /\ Committed' > Committed /\ Covered(Committed', {})
<1>0. daemon.pc = "reconcile"
  BY DEF CommitScan
<1>1. /\ SpoolSound /\ RowsSound /\ DaemonSound /\ EditsSound /\ ~refused
      /\ state # None /\ state.scan # None /\ state.fingerprint = daemon.prepared
      /\ daemon \in DaemonType /\ daemon.page = None /\ files = Listed
      /\ state.scan.resume <= inserted
  BY <1>0, Reconciling DEF ScanInv
<1>2. /\ UNCHANGED <<files, source, inserted, indexed, receipts, configured, edits>>
      /\ CompareExchange(CommitProposal) /\ PrefixFinished /\ state.scan.complete
      /\ state.coordinator.active.delivery = DeliveryConfirmedState(SealedRows(state.scan))
      /\ daemon' = [daemon EXCEPT !.pc = "wave"]
  BY DEF CommitScan, world
<1>3. Listed = {} /\ state.scan.segments = <<>> /\ state.scan.delivered = SegmentCount(state.scan)
  BY <1>1, <1>2, FinishedIsEmpty
<1> DEFINE p == CommitProposal
           s == state.scan
           c == state.coordinator
<1>4. /\ Accepts(state, p) /\ StateSound(p)
      /\ Replaces(state, p, p.coordinator, None)
      /\ p.coordinator.generation = c.generation + 1
      /\ p.coordinator.committed = IF s.maximum = NoCursor THEN c.committed ELSE s.maximum
  BY <1>1, <1>2, <1>3, CommitAccepted
<1> HIDE DEF p
<1>5. state' = p /\ refused' = refused
  BY <1>2, <1>4, Exchanged DEF p
<1>6. /\ p # None /\ p.scan = None /\ p.fingerprint = state.fingerprint
      /\ p.configGeneration = state.configGeneration
  BY <1>4 DEF Replaces
<1>7. daemon.unsent = None
  BY <1>1, <1>3 DEF DaemonSound
<1>8. /\ daemon' \in DaemonType /\ daemon'.pc = "wave" /\ daemon'.page = None
      /\ daemon'.prepared = daemon.prepared /\ daemon'.unsent = None
  BY <1>1, <1>2, <1>7 DEF DaemonType
<1>9. Listed' = {} /\ files' = {}
  BY <1>1, <1>2, <1>3 DEF Listed
<1>10. SpoolSound'
  <2>1. ListSound(state', {})
    BY <1>5, <1>6 DEF ListSound
  <2> QED BY <1>4, <1>5, <1>6, <1>9, <2>1 DEF SpoolSound
<1>11. RowsSound'
  <2>1. p.coordinator.committed \in {c.committed, s.resume}
    <3>1. s.maximum \in {NoCursor, s.resume, s.base} /\ s.base = c.committed
      BY <1>1, ScanTypes DEF CursorsSound
    <3> QED BY <1>4, <3>1
  <2>2. Committed = c.committed /\ Committed' = p.coordinator.committed
    BY <1>1, <1>5, <1>6 DEF Committed
  <2>3. c.committed <= inserted /\ Covered(c.committed, {})
    BY <1>1, <2>2 DEF RowsSound
  <2>4. Covered(s.resume, {})
    BY <1>1, <1>3 DEF RowsSound, NothingLost, Covered
  <2>5. Committed' <= inserted' /\ Covered(Committed, {})'
    <3>1. Covered(p.coordinator.committed, {})
      BY <2>1, <2>3, <2>4
    <3>2. p.coordinator.committed <= inserted
      BY <1>1, <2>1, <2>3
    <3> QED BY <1>2, <2>2, <3>1, <3>2 DEF Covered
  <2>6. NothingLost'
    BY <1>5, <1>6 DEF NothingLost
  <2>7. ReceiptsSound'
    <3>1. c.generation \in Nat
      BY <1>1, ScanTypes
    <3>2. ASSUME NEW g \in Generation, NEW r \in Row, <<g, r>> \in receipts
          PROVE  g <= c.generation + 1 /\ g # c.generation + 1
      <4>1. g <= c.generation
        BY <1>1, <3>2 DEF RowsSound, ReceiptsSound
      <4>2. g \in Nat
        BY DEF Generation
      <4> QED BY <3>1, <4>1, <4>2
    <3> QED BY <1>1, <1>2, <1>4, <1>5, <1>6, <3>2 DEF RowsSound, ReceiptsSound
  <2> QED BY <1>1, <1>2, <1>5, <1>6, <1>9, <2>5, <2>6, <2>7 DEF RowsSound
<1>12. DaemonSound'
  BY <1>1, <1>5, <1>6, <1>8, <1>9, WaitingDaemon
<1>13. EditsSound'
  BY <1>1, <1>2, <1>5, <1>6, <1>8, EditsFrame
<1>14. \/ Committed' = Committed
       \/ Committed' \in Row /\ Committed' > Committed /\ Covered(Committed', {})
  <2>1. /\ s \in Scan /\ s.resume \in Nat /\ c.committed \in Nat /\ s.base = c.committed
        /\ s.maximum \in Nat /\ CursorsSound(s)
    BY <1>1, ScanTypes, ScanCounts
  <2>2. Committed = c.committed /\ Committed' = p.coordinator.committed
    BY <1>1, <1>5, <1>6 DEF Committed
  <2>3. Covered(s.resume, {})
    BY <1>1, <1>3 DEF RowsSound, NothingLost, Covered
  <2>4. \/ Committed' = Committed
        \/ Committed' = s.resume /\ s.resume > 0 /\ s.resume >= c.committed
    <3>1. s.maximum = NoCursor \/ (s.maximum \in {s.resume, s.base} /\ s.maximum >= s.base /\ s.resume > 0)
      BY <2>1 DEF CursorsSound
    <3> QED BY <1>4, <2>1, <2>2, <3>1
  <2>5. CASE Committed' # Committed
    <3>1. s.resume \in 1 .. MaxInserts
      <4>1. inserted \in Nat /\ inserted <= MaxInserts
        BY <1>1 DEF RowsSound
      <4> QED BY <1>1, <2>1, <2>4, <2>5, <4>1
    <3>2. s.resume > c.committed
      BY <2>1, <2>2, <2>4, <2>5
    <3> QED BY <2>2, <2>3, <2>4, <2>5, <3>1, <3>2
  <2> QED BY <2>5
<1> QED BY <1>1, <1>5, <1>10, <1>11, <1>12, <1>13, <1>14 DEF ScanInv

-----------------------------------------------------------------------------
(* Collection.                                                             *)

LEMMA Waiting ==
  ASSUME ScanInv, daemon.pc = "wave"
  PROVE  /\ SpoolSound /\ RowsSound /\ DaemonSound /\ EditsSound /\ ~refused
         /\ Listed = {} /\ files = {} /\ daemon \in DaemonType /\ daemon.page = None /\ daemon.unsent = None
         /\ state # None => state.fingerprint = daemon.prepared
         /\ state # None /\ state.scan # None => ~state.scan.complete /\ state.scan.segments = <<>>
<1>1. SpoolSound /\ RowsSound /\ DaemonSound /\ EditsSound /\ ~refused
  BY DEF ScanInv
<1>2. /\ Listed = {} /\ daemon \in DaemonType /\ daemon.page = None /\ daemon.unsent = None
      /\ state # None => state.fingerprint = daemon.prepared
      /\ state # None /\ state.scan # None => ~state.scan.complete /\ state.scan.segments = <<>>
  BY <1>1 DEF DaemonSound, DaemonType, BetweenPages
<1>3. files = {}
  BY <1>1, <1>2, NothingOpen
<1> QED BY <1>1, <1>2, <1>3

(* A state that is created, or whose first scan of a generation starts:    *)
(* no row has a receipt under that generation yet.                         *)
LEMMA CreateKeeps == ASSUME ScanInv, CreateState PROVE ScanInv' /\ Committed' = Committed
<1>0. daemon.pc = "wave" /\ state = None /\ state' = InitialState(daemon.prepared)
  BY DEF CreateState
<1>1. /\ SpoolSound /\ RowsSound /\ DaemonSound /\ EditsSound /\ ~refused
      /\ Listed = {} /\ files = {} /\ daemon \in DaemonType /\ daemon.page = None /\ daemon.unsent = None
  BY <1>0, Waiting
<1>2. UNCHANGED <<files, daemon, source, inserted, indexed, receipts, configured, edits, refused>>
  BY DEF CreateState, world, ghosts
<1>3. daemon.prepared \in Fingerprint /\ 0 \in Generation /\ 1 \in 1 .. (MaxEdits + 1) /\ NoCursor \in OptCursor
  BY <1>1 DEF DaemonType, Generation, OptCursor
<1>4. /\ StateSound(state') /\ state'.scan = None /\ state'.fingerprint = daemon.prepared
      /\ state'.configGeneration = 1
      /\ state'.coordinator.generation = 0 /\ state'.coordinator.committed = NoCursor
  BY <1>0, <1>3, UnscannedSound DEF InitialState
<1>5. state' # None
  BY <1>4 DEF StateSound
<1>6. Listed' = {} /\ files' = {}
  BY <1>1, <1>2 DEF Listed
<1>7. SpoolSound'
  <2>1. ListSound(state', {})
    BY <1>4 DEF ListSound
  <2> QED BY <1>4, <1>5, <1>6, <2>1 DEF SpoolSound
<1>8. RowsSound'
  <2>1. Committed' = Committed
    BY <1>0, <1>4, <1>5 DEF Committed
  <2>2. /\ \A g \in Generation, r \in Row : <<g, r>> \notin receipts
        /\ receipts \subseteq Generation \X Row
    BY <1>0, <1>1 DEF RowsSound, ReceiptsSound
  <2>3. ReceiptsSound'
    BY <1>2, <2>2 DEF ReceiptsSound
  <2>4. NothingLost'
    BY <1>4 DEF NothingLost
  <2> QED BY <1>1, <1>2, <1>4, <1>6, <2>1, <2>3, <2>4 DEF RowsSound, Covered
<1>9. DaemonSound'
  BY <1>0, <1>1, <1>2, <1>4, <1>6, WaitingDaemon
<1>10. EditsSound'
  <2> DEFINE d == Differ(daemon.prepared, configured)
  <2>1. edits \in 0 .. MaxEdits /\ configured \in Fingerprint /\ d <= edits
    BY <1>0, <1>1 DEF EditsSound
  <2>2. Differ(daemon.prepared, daemon.prepared) = 0 /\ d \in {0, 1}
    BY DifferFacts
  <2> HIDE DEF d
  <2>3. 1 + 0 + d <= edits + 1
    BY <2>1, <2>2
  <2> QED BY <1>2, <1>4, <1>5, <2>1, <2>2, <2>3 DEF EditsSound, d
<1>11. Committed' = Committed
  BY <1>0, <1>4, <1>5 DEF Committed
<1> QED BY <1>1, <1>2, <1>7, <1>8, <1>9, <1>10, <1>11 DEF ScanInv

LEMMA BeginAttemptKeeps == ASSUME ScanInv, BeginAttempt PROVE ScanInv' /\ Committed' = Committed
<1>0. daemon.pc = "wave" /\ state # None /\ state.coordinator.active = None
      /\ state.coordinator.generation < MaxScans
  BY DEF BeginAttempt
<1>1. /\ SpoolSound /\ RowsSound /\ DaemonSound /\ EditsSound /\ ~refused
      /\ Listed = {} /\ files = {} /\ daemon \in DaemonType /\ daemon.page = None /\ daemon.unsent = None
      /\ state.fingerprint = daemon.prepared
  BY <1>0, Waiting
<1>2. UNCHANGED <<files, daemon, source, inserted, indexed, receipts, configured, edits>>
  BY DEF BeginAttempt, world
<1>3. PICK a \in AttemptId : CompareExchange(StartProposal(a))
  BY DEF BeginAttempt, FreshAttempt
<1>4. state.scan = None
  BY <1>0, <1>1 DEF SpoolSound, StateSound, ScanSound
<1> DEFINE p == StartProposal(a)
           t == FreshScan(state.coordinator, a)
<1>5. /\ Accepts(state, p) /\ StateSound(p)
      /\ Replaces(state, p, p.coordinator, t)
      /\ p.coordinator.generation = state.coordinator.generation
      /\ p.coordinator.committed = state.coordinator.committed
  BY <1>0, <1>1, <1>4, StartAccepted
<1>6. t.resume = 0 /\ t.complete = FALSE /\ t.segments = <<>>
  BY DEF FreshScan, NoCursor
<1> HIDE DEF p, t
<1>7. state' = p /\ refused' = refused
  BY <1>3, <1>5, Exchanged DEF p
<1>8. /\ p # None /\ p.scan = t /\ p.fingerprint = state.fingerprint
      /\ p.configGeneration = state.configGeneration
  BY <1>5 DEF Replaces
<1>9. Listed' = {} /\ files' = {}
  BY <1>1, <1>2 DEF Listed
<1>10. SpoolSound'
  <2>1. ListSound(state', {})
    BY <1>6, <1>7, <1>8 DEF ListSound
  <2> QED BY <1>5, <1>7, <1>8, <1>9, <2>1 DEF SpoolSound
<1>11. RowsSound'
  <2>1. Committed' = Committed
    BY <1>0, <1>5, <1>7, <1>8 DEF Committed
  <2>2. inserted \in Nat /\ source \subseteq 1 .. inserted
    BY <1>1 DEF RowsSound
  <2>3. NothingLost'
    <3>1. \A r \in source : ~(r <= 0)
      BY <2>2
    <3> QED BY <1>2, <1>6, <1>7, <1>8, <3>1 DEF NothingLost
  <2>4. ReceiptsSound'
    <3>1. \A g \in Generation, r \in Row : <<g, r>> \in receipts =>
            g <= state.coordinator.generation /\ g # state.coordinator.generation
      BY <1>1, <1>4 DEF RowsSound, ReceiptsSound
    <3>2. receipts' \subseteq Generation \X Row
      BY <1>1, <1>2 DEF RowsSound, ReceiptsSound
    <3> QED BY <1>2, <1>5, <1>7, <1>8, <3>1, <3>2 DEF ReceiptsSound
  <2>5. state'.scan.resume <= inserted
    BY <1>6, <1>7, <1>8, <2>2
  <2> QED BY <1>1, <1>2, <1>9, <2>1, <2>3, <2>4, <2>5 DEF RowsSound, Covered
<1>12. DaemonSound'
  BY <1>0, <1>1, <1>2, <1>6, <1>7, <1>8, <1>9, WaitingDaemon
<1>13. EditsSound'
  BY <1>0, <1>1, <1>2, <1>7, <1>8, EditsFrame
<1>14. Committed' = Committed
  BY <1>0, <1>5, <1>7, <1>8 DEF Committed
<1> QED BY <1>1, <1>7, <1>10, <1>11, <1>12, <1>13, <1>14 DEF ScanInv

LEMMA PageDaemon ==
  ASSUME daemon' \in DaemonType, daemon'.pc \in {"page", "collected", "empty"}, daemon'.page \in Segment,
         daemon'.unsent = None, PageInFlight'
  PROVE  DaemonSound'
BY DEF DaemonSound, DaemonType

(* A page begins with an empty open file under the scan's fence.           *)
LEMMA BeginPageKeeps == ASSUME ScanInv, BeginPage PROVE ScanInv'
<1>0. daemon.pc = "wave" /\ state # None /\ state.scan # None
  BY DEF BeginPage
<1>1. /\ SpoolSound /\ RowsSound /\ DaemonSound /\ EditsSound /\ ~refused
      /\ Listed = {} /\ files = {} /\ daemon \in DaemonType /\ daemon.page = None /\ daemon.unsent = None
      /\ state.fingerprint = daemon.prepared /\ ~state.scan.complete /\ state.scan.segments = <<>>
  BY <1>0, Waiting
<1>2. UNCHANGED <<state, source, inserted, indexed, receipts, configured, edits, refused>>
  BY DEF BeginPage, world, ghosts
<1> DEFINE c == state.coordinator
           i == CHOOSE i \in SegmentId : i \notin Referenced(state.scan) \cup {f.id : f \in files}
           request == <<c.committed, state.scan.resume>>
           g == [id |-> i, life |-> "open",
                 fingerprint |-> daemon.prepared, configGeneration |-> state.configGeneration,
                 attempt |-> CurrentFence.attempt, generation |-> c.generation,
                 page |-> state.scan.nextPage, rows |-> {}, truncated |-> FALSE,
                 request |-> request, candidate |-> NoCursor, resume |-> NoCursor]
<1>3. files' = files \cup {g} /\ daemon' = [daemon EXCEPT !.pc = "page", !.page = g]
  BY DEF BeginPage
<1>4. i \in SegmentId
  <2>1. Referenced(state.scan) = {}
    BY <1>0, <1>1, NoReference
  <2>2. \E j \in SegmentId : j \notin Referenced(state.scan) \cup {f.id : f \in files}
    BY <1>1, <2>1
  <2> QED BY <2>2
<1>5. CurrentFence.attempt = state.scan.attempt /\ state.scan.attempt \in AttemptId
  BY <1>0, <1>1, ScanTypes DEF FenceOf
<1>6. /\ c.generation \in Generation /\ state.configGeneration \in Nat /\ state.scan.nextPage \in Nat
      /\ daemon.prepared \in Fingerprint /\ request \in OptCursor \X OptCursor
  <2>1. state \in InputState /\ state.scan \in Scan
    BY <1>0, <1>1, ScanTypes
  <2>2. state.scan.resume \in OptCursor /\ state.scan.nextPage \in Nat
    BY <2>1 DEF Scan
  <2>3. c.committed \in OptCursor /\ c.generation \in Generation /\ state.configGeneration \in Nat
    BY <2>1, StateTypes
  <2> QED BY <1>1, <2>2, <2>3 DEF DaemonType
<1> HIDE DEF i, request
<1>7. /\ g \in Segment /\ g.life = "open" /\ g.fingerprint = daemon.prepared
      /\ g.configGeneration = state.configGeneration /\ g.attempt = state.scan.attempt
      /\ g.generation = c.generation /\ g.page = state.scan.nextPage /\ g.rows = {} /\ g.request = request
  <2>1. NoCursor \in OptCursor /\ {} \in SUBSET Row
    BY DEF OptCursor
  <2>2. g \in Segment
    BY <1>4, <1>5, <1>6, <2>1 DEF Segment
  <2> QED BY <1>5, <2>2
<1> HIDE DEF g
<1>8. files' = {g} /\ Listed' = {}
  <2>1. files' = {g}
    BY <1>1, <1>3
  <2> QED BY <1>7, <2>1 DEF Listed
<1>9. /\ daemon' \in DaemonType /\ daemon'.pc = "page" /\ daemon'.page = g
      /\ daemon'.prepared = daemon.prepared /\ daemon'.unsent = None
  BY <1>1, <1>3, <1>7 DEF DaemonType
<1>10. SpoolSound'
  <2>1. StateSound(state) /\ ListSound(state, {})
    BY <1>0, <1>1, ScanTypes
  <2>2. StateSound(state)' /\ ListSound(state, Listed)'
    BY <1>2, <1>8, <2>1
  <2> QED BY <1>0, <1>2, <1>7, <1>8, <1>9, <2>2 DEF SpoolSound
<1>11. RowsSound'
  BY <1>1, <1>2, <1>8, RowsFrame
<1>12. DaemonSound'
  <2>1. BetweenPages'
    BY <1>0, <1>1, <1>2 DEF BetweenPages
  <2>2. PageInFlight'
    BY <1>1, <1>2, <1>7, <1>8, <1>9, <2>1 DEF PageInFlight, request
  <2> QED BY <1>7, <1>9, <2>2, PageDaemon
<1>13. EditsSound'
  BY <1>1, <1>2, <1>9, EditsFrame
<1> QED BY <1>1, <1>2, <1>10, <1>11, <1>12, <1>13 DEF ScanInv

(* The page in flight.                                                     *)
LEMMA Paging ==
  ASSUME ScanInv, daemon.pc \in {"page", "collected", "empty"}
  PROVE  /\ SpoolSound /\ RowsSound /\ DaemonSound /\ EditsSound /\ ~refused
         /\ PageInFlight /\ BetweenPages /\ Listed = {} /\ daemon \in DaemonType
         /\ daemon.unsent = None /\ daemon.page \in Segment
         /\ state.scan.resume \in Nat /\ state.coordinator.committed \in Nat
         /\ state.scan.resume <= inserted /\ inserted \in Nat /\ inserted <= MaxInserts
<1>1. SpoolSound /\ RowsSound /\ DaemonSound /\ EditsSound /\ ~refused
  BY DEF ScanInv
<1>2. daemon.page # None /\ daemon.unsent = None /\ daemon \in DaemonType
  BY <1>1 DEF DaemonSound, DaemonType
<1>3. PageInFlight
  BY <1>1, <1>2 DEF DaemonSound
<1>4. BetweenPages /\ Listed = {} /\ daemon.page \in Segment
  BY <1>3 DEF PageInFlight
<1>5. state # None /\ state.scan # None
  BY <1>4 DEF BetweenPages
<1>6. state.scan.resume \in Nat
  BY <1>1, <1>5, ScanNumbersOf
<1>7. state.coordinator.committed \in Nat
  <2>1. state \in InputState
    BY <1>1, <1>5, ScanTypes
  <2> QED BY <2>1, StateTypes
<1>8. state.scan.resume <= inserted /\ inserted \in Nat /\ inserted <= MaxInserts
  BY <1>1, <1>5 DEF RowsSound
<1> QED BY <1>1, <1>2, <1>3, <1>4, <1>6, <1>7, <1>8

(* The rows of a page: a prefix of what the bound admits, so that every    *)
(* row up to its last one is in the page or already in Splunk.             *)
LEMMA PageRows ==
  ASSUME ScanInv, daemon.pc = "page",
         NEW available, available = {r \in source : InBound(r, daemon.page.request)},
         NEW rows, rows = Smallest(available, PageSize), rows # {},
         NEW resume, resume = Max(rows),
         NEW candidate, candidate = Max(rows \cup ({daemon.page.request[1]} \ {NoCursor}))
  PROVE  /\ rows \subseteq Row /\ resume \in OptCursor /\ candidate \in OptCursor
         /\ resume <= inserted /\ Covered(resume, rows)
         /\ resume > state.scan.resume
         /\ \A r \in rows : r > state.scan.resume /\ r <= resume
         /\ Cardinality(rows) > 0 /\ Cardinality(rows) + state.scan.resume <= resume
         /\ candidate >= resume /\ candidate >= state.coordinator.committed
         /\ candidate \in {resume, state.coordinator.committed}
<1> DEFINE committed == state.coordinator.committed
           start == state.scan.resume
<1>1. /\ RowsSound /\ SpoolSound /\ BetweenPages /\ Listed = {}
      /\ start \in Nat /\ committed \in Nat /\ start <= inserted /\ inserted \in Nat /\ inserted <= MaxInserts
  BY Paging
<1>2. daemon.page.request = <<committed, start>>
  BY Paging DEF PageInFlight
<1>3. daemon.page.request[1] = committed /\ daemon.page.request[2] = start
  BY <1>2
<1>4. committed = Committed /\ committed \in OptCursor /\ start \in OptCursor
  <2>1. state # None /\ state.scan # None
    BY <1>1 DEF BetweenPages
  <2>2. state \in InputState /\ state.scan \in Scan
    BY <1>1, <2>1, ScanTypes
  <2> QED BY <2>1, <2>2, StateTypes DEF Committed, Scan
<1>5. committed <= inserted /\ Covered(committed, {})
  BY <1>1, <1>4 DEF RowsSound
<1>6. source \subseteq 1 .. inserted /\ rows \subseteq available /\ available \subseteq source
  BY <1>1 DEF RowsSound, Smallest
<1>7. Covered(start, {})
  BY <1>1 DEF RowsSound, NothingLost, BetweenPages, Covered
<1> HIDE DEF committed, start
<1>8. rows \subseteq Nat /\ \A r \in rows : r > 0 /\ r <= inserted
  <2>1. ASSUME NEW r \in rows PROVE r \in Nat /\ r > 0 /\ r <= inserted
    <3>1. r \in 1 .. inserted
      BY <1>6
    <3> QED BY <1>1, <3>1
  <2> QED BY <2>1
<1>9. resume \in rows /\ \A r \in rows : r <= resume
  BY <1>1, <1>8, MaxIsIn
<1>10. resume \in Nat /\ resume > 0 /\ resume <= inserted
  BY <1>8, <1>9
<1>11. rows \subseteq Row /\ resume \in OptCursor
  <2>1. ASSUME NEW r \in rows PROVE r \in Row
    <3>1. r \in 1 .. MaxInserts
      BY <1>1, <1>8
    <3> QED BY <3>1
  <2> QED BY <1>9, <2>1 DEF OptCursor
<1>12. ASSUME NEW r \in rows PROVE r > start
  <2>1. InBound(r, daemon.page.request) /\ r \in Nat /\ r > 0
    BY <1>6, <1>8
  <2>2. CASE start = 0
    BY <2>1, <2>2
  <2>3. CASE start # 0
    BY <1>3, <2>1, <2>3 DEF InBound, NoCursor
  <2> QED BY <2>2, <2>3
<1>13. resume > start
  BY <1>9, <1>12
<1>14. Cardinality(rows) > 0 /\ Cardinality(rows) + start <= resume
  <2>1. \A r \in rows : r \in Nat /\ r > start /\ r <= resume
    BY <1>8, <1>9, <1>12
  <2> QED BY <1>1, <1>10, <2>1, SpanCount
<1>15. Covered(resume, rows)
  <2> SUFFICES ASSUME NEW r \in source, r <= resume PROVE r \in indexed \/ r \in rows
    BY DEF Covered
  <2>1. r \in Nat /\ r > 0
    BY <1>1, <1>6
  <2>2. CASE r \in available
    <3>1. available \subseteq Nat /\ IsFiniteSet(available)
      <4>1. available \subseteq 1 .. inserted
        BY <1>6
      <4>2. IsFiniteSet(1 .. inserted)
        BY <1>1, FS_Interval
      <4>3. IsFiniteSet(available)
        BY <4>1, <4>2, FS_Subset
      <4> QED BY <1>1, <4>1, <4>3
    <3>2. r \in Smallest(available, PageSize)
      BY <1>9, <2>2, <3>1, SmallestIsPrefix
    <3> QED BY <3>2
  <2>3. CASE r \notin available
    <3>1. ~InBound(r, daemon.page.request)
      BY <2>3
    <3>2. r <= start \/ r <= committed
      <4>1. CASE start # 0
        <5>1. ~(r > start)
          BY <1>3, <3>1, <4>1 DEF InBound, NoCursor
        <5> QED BY <1>1, <2>1, <5>1
      <4>2. CASE start = 0 /\ Overlap = 0
        <5>1. ~(r > committed)
          BY <1>3, <3>1, <4>2 DEF InBound, NoCursor
        <5> QED BY <1>1, <2>1, <5>1
      <4>3. CASE start = 0 /\ Overlap # 0
        <5>1. ~(r + Overlap >= committed)
          BY <1>3, <3>1, <4>3 DEF InBound, NoCursor
        <5> QED BY <1>1, <2>1, <5>1
      <4> QED BY <4>1, <4>2, <4>3
    <3> QED BY <1>5, <1>7, <3>2 DEF Covered
  <2> QED BY <2>2, <2>3
<1>16. /\ candidate >= resume /\ candidate >= committed /\ candidate \in {resume, committed}
       /\ candidate \in OptCursor
  <2> DEFINE S == rows \cup ({committed} \ {NoCursor})
  <2>1. S \subseteq Nat /\ S # {} /\ \A x \in S : x <= inserted
    BY <1>1, <1>5, <1>8
  <2>2. committed \in S \/ committed = 0
    BY DEF NoCursor
  <2>3. rows \subseteq S /\ \A x \in S : x \in rows \/ x = committed
    OBVIOUS
  <2>4. candidate = Max(S)
    BY <1>3
  <2> HIDE DEF S
  <2>5. candidate \in S /\ \A x \in S : x <= candidate
    <3>1. inserted \in Nat
      BY <1>1
    <3>2. Max(S) \in S /\ \A x \in S : x <= Max(S)
      BY ONLY <2>1, <3>1, MaxIsIn
    <3> QED BY <2>4, <3>2
  <2>6. candidate \in Nat /\ resume <= candidate
    BY <1>9, <2>1, <2>3, <2>5
  <2>7. committed <= candidate
    BY <1>1, <2>2, <2>5, <2>6
  <2>8. candidate \in {resume, committed}
    <3>1. CASE candidate \in rows
      <4>1. candidate <= resume
        BY <1>9, <3>1
      <4> QED BY <1>10, <2>6, <4>1
    <3>2. CASE candidate = committed
      BY <3>2
    <3> QED BY <2>3, <2>5, <3>1, <3>2
  <2> QED BY <1>1, <1>4, <1>10, <1>11, <2>6, <2>7, <2>8
<1> QED BY <1>9, <1>10, <1>11, <1>12, <1>13, <1>14, <1>15, <1>16 DEF committed, start

LEMMA CollectPageKeeps == ASSUME ScanInv, CollectPage PROVE ScanInv'
<1>0. daemon.pc = "page"
  BY DEF CollectPage
<1>1. /\ SpoolSound /\ RowsSound /\ DaemonSound /\ EditsSound /\ ~refused
      /\ PageInFlight /\ BetweenPages /\ Listed = {} /\ daemon \in DaemonType
      /\ daemon.unsent = None /\ daemon.page \in Segment
  BY <1>0, Paging
<1>2. UNCHANGED <<state, files, source, inserted, indexed, receipts, configured, edits, refused>>
  BY DEF CollectPage, durable, world, ghosts
<1> DEFINE available == {r \in source : InBound(r, daemon.page.request)}
           rows == Smallest(available, PageSize)
           truncated == (rows # available)
           resume == IF rows = {} THEN NoCursor ELSE Max(rows)
           candidate == IF rows = {} THEN NoCursor
                        ELSE Max(rows \cup ({daemon.page.request[1]} \ {NoCursor}))
           g == [daemon.page EXCEPT !.rows = rows, !.truncated = truncated,
                                    !.resume = resume, !.candidate = candidate]
<1>3. daemon' = [daemon EXCEPT !.pc = "collected", !.page = g]
  BY <1>1 DEF CollectPage, DaemonType
<1>4. rows # {} =>
         /\ rows \subseteq Row /\ resume \in OptCursor /\ candidate \in OptCursor
         /\ resume <= inserted /\ Covered(resume, rows)
         /\ resume > state.scan.resume
         /\ \A r \in rows : r > state.scan.resume /\ r <= resume
         /\ Cardinality(rows) > 0 /\ Cardinality(rows) + state.scan.resume <= resume
         /\ candidate >= resume /\ candidate >= state.coordinator.committed
         /\ candidate \in {resume, state.coordinator.committed}
  <2> SUFFICES ASSUME rows # {}
               PROVE  /\ rows \subseteq Row /\ resume \in OptCursor /\ candidate \in OptCursor
                      /\ resume <= inserted /\ Covered(resume, rows)
                      /\ resume > state.scan.resume
                      /\ \A r \in rows : r > state.scan.resume /\ r <= resume
                      /\ Cardinality(rows) > 0 /\ Cardinality(rows) + state.scan.resume <= resume
                      /\ candidate >= resume /\ candidate >= state.coordinator.committed
                      /\ candidate \in {resume, state.coordinator.committed}
    OBVIOUS
  <2>1. resume = Max(rows) /\ candidate = Max(rows \cup ({daemon.page.request[1]} \ {NoCursor}))
    OBVIOUS
  <2> HIDE DEF resume, candidate
  <2>2. rows = Smallest(available, PageSize) /\ available = {r \in source : InBound(r, daemon.page.request)}
    OBVIOUS
  <2> HIDE DEF rows, available
  <2> QED BY <1>0, <2>1, <2>2, PageRows
<1>5. rows = {} => resume \in OptCursor /\ candidate \in OptCursor
  BY DEF OptCursor
<1> HIDE DEF available, rows, resume, candidate
<1>6. truncated \in BOOLEAN
  OBVIOUS
<1> HIDE DEF truncated
<1>7. rows \in SUBSET Row /\ resume \in OptCursor /\ candidate \in OptCursor
  BY <1>4, <1>5
<1>8. /\ g \in Segment /\ g.life = daemon.page.life /\ g.fingerprint = daemon.page.fingerprint
      /\ g.configGeneration = daemon.page.configGeneration /\ g.attempt = daemon.page.attempt
      /\ g.generation = daemon.page.generation /\ g.page = daemon.page.page
      /\ g.request = daemon.page.request /\ g.rows = rows /\ g.resume = resume /\ g.candidate = candidate
  BY <1>1, <1>6, <1>7 DEF Segment
<1> HIDE DEF g
<1>9. /\ daemon' \in DaemonType /\ daemon'.pc = "collected" /\ daemon'.page = g
      /\ daemon'.prepared = daemon.prepared /\ daemon'.unsent = None
  BY <1>1, <1>3, <1>8 DEF DaemonType
<1>10. Listed' = Listed
  BY <1>2, ListedFrame
<1>11. SpoolSound'
  BY <1>1, <1>2, <1>9, SpoolFrame
<1>12. RowsSound'
  BY <1>1, <1>2, <1>10, RowsFrame
<1>13. DaemonSound'
  <2>1. g.rows # {} => PageSound(g, state) /\ g.resume <= inserted /\ Covered(g.resume, g.rows)
    BY <1>4, <1>8 DEF PageSound
  <2>2. g.rows # {} =>
          /\ PageSound(g, state') /\ g.resume <= inserted'
          /\ \A r \in source' : r <= g.resume => r \in indexed' \/ r \in g.rows
    BY <1>2, <2>1 DEF Covered
  <2>3. BetweenPages'
    BY <1>1, <1>2 DEF BetweenPages
  <2>4. PageInFlight'
    BY <1>1, <1>2, <1>8, <1>9, <1>10, <2>2, <2>3 DEF PageInFlight, Covered
  <2> QED BY <1>8, <1>9, <2>4, PageDaemon
<1>14. EditsSound'
  BY <1>1, <1>2, <1>9, EditsFrame
<1> QED BY <1>1, <1>2, <1>11, <1>12, <1>13, <1>14 DEF ScanInv

(* A page with rows is sealed: an orphan of the scan, in its fence, of     *)
(* rows that no receipt of this generation names.                          *)
LEMMA SealPageKeeps == ASSUME ScanInv, SealPage PROVE ScanInv'
<1>0. daemon.pc = "collected" /\ daemon.page.rows # {}
  BY DEF SealPage
<1>1. /\ SpoolSound /\ RowsSound /\ DaemonSound /\ EditsSound /\ ~refused
      /\ PageInFlight /\ BetweenPages /\ Listed = {} /\ daemon \in DaemonType
      /\ daemon.unsent = None /\ daemon.page \in Segment
      /\ state.scan.resume \in Nat /\ inserted \in Nat
  BY <1>0, Paging
<1>2. /\ UNCHANGED <<state, source, inserted, indexed, receipts, configured, edits, refused>>
      /\ daemon' = Idle(daemon)
  BY DEF SealPage, world, ghosts
<1> DEFINE f == daemon.page
           g == [f EXCEPT !.life = "ready"]
<1>3. files' = {g}
  BY <1>1 DEF SealPage
<1>4. /\ f.fingerprint = state.fingerprint /\ f.configGeneration = state.configGeneration
      /\ f.attempt = state.scan.attempt /\ f.generation = state.coordinator.generation
      /\ f.page = state.scan.nextPage /\ f.request = <<state.coordinator.committed, state.scan.resume>>
      /\ PageSound(f, state) /\ f.resume <= inserted /\ Covered(f.resume, f.rows)
  BY <1>0, <1>1 DEF PageInFlight
<1> HIDE DEF f
<1>5. /\ g \in Segment /\ g.life = "ready" /\ g.fingerprint = f.fingerprint
      /\ g.configGeneration = f.configGeneration /\ g.attempt = f.attempt
      /\ g.generation = f.generation /\ g.page = f.page /\ g.rows = f.rows
      /\ g.request = f.request /\ g.candidate = f.candidate /\ g.resume = f.resume
  BY <1>1 DEF Segment, f
<1> HIDE DEF g
<1>6. Listed' = {g}
  BY <1>3, <1>5 DEF Listed
<1>7. /\ state # None /\ state.scan # None /\ ~state.scan.complete /\ state.scan.segments = <<>>
      /\ StateSound(state) /\ state.scan.nextPage # 0
      /\ state.coordinator.active # None /\ state.coordinator.active.fence.attempt = state.scan.attempt
  <2>1. state # None /\ state.scan # None /\ ~state.scan.complete /\ state.scan.segments = <<>>
    BY <1>1 DEF BetweenPages
  <2>2. /\ StateSound(state) /\ state.scan \in Scan /\ Numbered(state.scan)
        /\ state.coordinator.active # None
        /\ state.coordinator.active.fence = FenceOf(state.coordinator, state.scan.attempt)
    BY <1>1, <2>1, ScanTypes
  <2>3. SegmentCount(state.scan) \in Nat /\ state.scan.nextPage = SegmentCount(state.scan) + 1
    BY <2>2, NumberedShape DEF Numbered
  <2> QED BY <2>1, <2>2, <2>3 DEF FenceOf
<1>8. PageSound(g, state)
  BY <1>4, <1>5 DEF PageSound
<1>9. InFence(g, state) /\ OrphanSound(g, state) /\ \A r \in g.rows : r <= g.resume
  <2>1. InFence(g, state)
    BY <1>4, <1>5, <1>7, <1>8 DEF InFence, PageSound
  <2>2. OrphanSound(g, state)
    BY <1>4, <1>5, <1>7, <1>8 DEF OrphanSound
  <2>3. \A r \in g.rows : r <= g.resume
    BY <1>8 DEF PageSound
  <2> QED BY <2>1, <2>2, <2>3
<1>10. SpoolSound'
  <2>1. ListSound(state, {g})
    BY <1>7, <1>9 DEF ListSound
  <2>2. StateSound(state)' /\ ListSound(state, Listed)'
    BY <1>2, <1>6, <1>7, <2>1
  <2> QED BY <1>2, <1>3, <1>5, <1>7, <2>2 DEF SpoolSound
<1>11. RowsSound'
  <2>1. /\ g.resume <= inserted /\ Covered(g.resume, g.rows)
    BY <1>4, <1>5
  <2>2. ASSUME NEW r \in g.rows PROVE <<g.generation, r>> \notin receipts
    <3>1. r > state.scan.resume
      BY <1>8 DEF PageSound
    <3>2. r \in Row /\ g.generation \in Generation
      BY <1>5 DEF Segment
    <3>3. r \in Nat
      BY <3>2
    <3>4. <<g.generation, r>> \in receipts => r <= state.scan.resume
      BY <1>1, <1>4, <1>5, <3>2 DEF RowsSound, ReceiptsSound
    <3> QED BY <1>1, <3>1, <3>3, <3>4
  <2>3. \A h \in Listed' : FileSound(h)'
    <3>1. /\ g.resume <= inserted' /\ \A r \in source' : r <= g.resume => r \in indexed' \/ r \in g.rows
          /\ \A r \in g.rows : <<g.generation, r>> \notin receipts'
      BY <1>2, <2>1, <2>2 DEF Covered
    <3> QED BY <1>5, <1>6, <3>1 DEF FileSound, Covered
  <2>4. NothingLost'
    BY <1>1, <1>2, <1>7 DEF RowsSound, NothingLost
  <2> QED BY <1>1, <1>2, <2>3, <2>4 DEF RowsSound, Committed, Covered, ReceiptsSound
<1>12. DaemonSound'
  BY <1>1, <1>2, QuietRecords, QuietDaemon
<1>13. EditsSound'
  BY <1>1, <1>2, QuietRecords, EditsFrame
<1> QED BY <1>1, <1>2, <1>10, <1>11, <1>12, <1>13 DEF ScanInv

LEMMA AbortEmptyPageKeeps == ASSUME ScanInv, AbortEmptyPage PROVE ScanInv'
<1>0. daemon.pc = "collected" /\ daemon.page.rows = {}
  BY DEF AbortEmptyPage
<1>1. /\ SpoolSound /\ RowsSound /\ DaemonSound /\ EditsSound /\ ~refused
      /\ PageInFlight /\ BetweenPages /\ Listed = {} /\ daemon \in DaemonType
      /\ daemon.unsent = None /\ daemon.page \in Segment
  BY <1>0, Paging
<1>2. /\ UNCHANGED <<state, source, inserted, indexed, receipts, configured, edits, refused>>
      /\ daemon' = [daemon EXCEPT !.pc = "empty"] /\ files' = Listed
  BY DEF AbortEmptyPage, world, ghosts
<1>3. Listed' = Listed
  BY <1>2, ListedFrame
<1>4. /\ daemon' \in DaemonType /\ daemon'.pc = "empty" /\ daemon'.page = daemon.page
      /\ daemon'.prepared = daemon.prepared /\ daemon'.unsent = None
  BY <1>1, <1>2 DEF DaemonType
<1>5. SpoolSound'
  BY <1>1, <1>2, SpoolFrame
<1>6. RowsSound'
  BY <1>1, <1>2, <1>3, RowsFrame
<1>7. DaemonSound'
  <2>1. BetweenPages'
    BY <1>1, <1>2 DEF BetweenPages
  <2>2. PageInFlight'
    BY <1>0, <1>1, <1>2, <1>3, <1>4, <2>1 DEF PageInFlight
  <2> QED BY <1>1, <1>4, <2>2, PageDaemon
<1>8. EditsSound'
  BY <1>1, <1>2, <1>4, EditsFrame
<1> QED BY <1>1, <1>2, <1>5, <1>6, <1>7, <1>8 DEF ScanInv

LEMMA RecordEmptyKeeps == ASSUME ScanInv, RecordEmpty PROVE ScanInv' /\ Committed' = Committed
<1>0. daemon.pc = "empty"
  BY DEF RecordEmpty
<1>1. /\ SpoolSound /\ RowsSound /\ DaemonSound /\ EditsSound /\ ~refused
      /\ BetweenPages /\ Listed = {} /\ daemon \in DaemonType
      /\ state.scan.resume \in Nat /\ state.scan.resume <= inserted /\ inserted \in Nat /\ inserted <= MaxInserts
  BY <1>0, Paging
<1>2. /\ UNCHANGED <<files, source, inserted, indexed, receipts, configured, edits>>
      /\ daemon' = Idle(daemon) /\ CompareExchange(EmptyProposal)
  BY DEF RecordEmpty, world
<1>3. state # None /\ state.scan # None /\ ~state.scan.complete /\ state.scan.segments = <<>>
  BY <1>1 DEF BetweenPages
<1>4. state.scan.resume <= MaxInserts /\ state.scan \in Scan
  BY <1>1, <1>3, ScanTypes
<1> DEFINE p == EmptyProposal
           t == [state.scan EXCEPT !.complete = TRUE]
<1>5. Progresses(p, t)
  BY <1>1, <1>3, <1>4, EmptyAccepted
<1>6. t.segments = <<>> /\ t.resume = state.scan.resume /\ t # None
  <2>1. t \in Scan /\ t.segments = state.scan.segments /\ t.resume = state.scan.resume
    BY <1>4 DEF Scan
  <2> QED BY <1>3, <2>1
<1> HIDE DEF p, t
<1>7. state' = p /\ refused' = refused
  BY <1>2, <1>5, Exchanged DEF Progresses, p
<1>8. /\ StateSound(p) /\ p # None /\ p.scan = t
      /\ p.fingerprint = state.fingerprint /\ p.configGeneration = state.configGeneration
      /\ p.coordinator.generation = state.coordinator.generation
      /\ p.coordinator.committed = state.coordinator.committed
  BY <1>5 DEF Progresses, Replaces
<1>9. Listed' = {} /\ files' = {}
  <2>1. files = Listed
    BY <1>0, <1>1, NothingOpen
  <2> QED BY <1>1, <1>2, <2>1 DEF Listed
<1>10. SpoolSound'
  <2>1. ListSound(state', {})
    BY <1>6, <1>7, <1>8 DEF ListSound
  <2> QED BY <1>7, <1>8, <1>9, <2>1 DEF SpoolSound
<1>11. RowsSound'
  BY <1>1, <1>2, <1>3, <1>6, <1>7, <1>8, <1>9, RowsOfReplacement
<1>12. DaemonSound'
  BY <1>1, <1>2, QuietRecords, QuietDaemon
<1>13. EditsSound'
  BY <1>1, <1>2, <1>3, <1>7, <1>8, QuietRecords, EditsFrame
<1>14. Committed' = Committed
  BY <1>3, <1>7, <1>8 DEF Committed
<1> QED BY <1>1, <1>7, <1>10, <1>11, <1>12, <1>13, <1>14 DEF ScanInv

-----------------------------------------------------------------------------
(* The source.                                                             *)

(* Rows appear past every cursor, and a deleted row needs no cover.        *)
LEMMA SourceMoves ==
  ASSUME ScanInv, UNCHANGED <<state, files, daemon, indexed, receipts, configured, edits, refused>>,
         inserted' \in 0 .. MaxInserts, inserted <= inserted', source' \subseteq 1 .. inserted',
         \A r \in source' : r \in source \/ r > inserted
  PROVE  ScanInv'
<1>1. SpoolSound /\ RowsSound /\ DaemonSound /\ EditsSound /\ ~refused
  BY DEF ScanInv
<1>2. Listed' = Listed
  BY ListedFrame
<1>3. inserted \in Nat /\ inserted' \in Nat /\ 1 .. inserted \subseteq 1 .. inserted'
  BY <1>1 DEF RowsSound
<1>4. ASSUME NEW p \in Nat, p <= inserted
      PROVE  p <= inserted' /\ \A r \in source' : r <= p => r \in source
  <2>1. ASSUME NEW r \in source', r <= p PROVE r \in source
    <3>1. r \in Nat
      BY <1>3
    <3> QED BY <1>3, <1>4, <2>1, <3>1
  <2> QED BY <1>3, <1>4, <2>1
<1>5. SpoolSound'
  BY <1>1, SpoolFrame, <1>2 DEF SpoolSound
<1>6. RowsSound'
  <2>1. Committed \in Nat /\ Committed <= inserted /\ Covered(Committed, {})
    <3>1. CASE state = None
      BY <1>1, <3>1 DEF RowsSound, Committed, NoCursor
    <3>2. CASE state # None
      <4>1. state \in InputState
        BY <1>1, <3>2 DEF SpoolSound, StateSound
      <4> QED BY <1>1, <3>2, <4>1, StateTypes DEF RowsSound, Committed
    <3> QED BY <3>1, <3>2
  <2>2. Committed' = Committed
    BY DEF Committed
  <2>3. Committed' <= inserted' /\ Covered(Committed, {})'
    BY <1>4, <2>1, <2>2 DEF Covered
  <2>4. state # None /\ state.scan # None =>
          /\ state.scan.resume \in Nat /\ state.scan.resume <= inserted
    BY <1>1, ScanNumbersOf DEF RowsSound
  <2>5. /\ state' # None /\ state'.scan # None => state'.scan.resume <= inserted'
        /\ NothingLost'
    <3>1. CASE state # None /\ state.scan # None
      <4>1. \A r \in source : r <= state.scan.resume => r \in indexed \/ \E f \in Listed : r \in f.rows
        BY <1>1, <3>1 DEF RowsSound, NothingLost
      <4>2. state.scan.resume <= inserted' /\ \A r \in source' : r <= state.scan.resume => r \in source
        BY <1>4, <2>4, <3>1
      <4> QED BY <1>2, <4>1, <4>2 DEF NothingLost
    <3>2. CASE ~(state # None /\ state.scan # None)
      BY <3>2 DEF NothingLost
    <3> QED BY <3>1, <3>2
  <2>6. ASSUME NEW f \in Listed PROVE FileSound(f)'
    <3>1. FileSound(f) /\ f \in Segment
      BY <1>1 DEF RowsSound, SpoolSound, Listed
    <3>2. f.resume \in Nat /\ f.resume <= inserted
      BY <3>1 DEF Segment, OptCursor, NoCursor, FileSound
    <3>3. f.resume <= inserted' /\ \A r \in source' : r <= f.resume => r \in source
      BY <1>4, <3>2
    <3> QED BY <3>1, <3>3 DEF FileSound, Covered
  <2>7. \A f \in Listed' : FileSound(f)'
    BY <1>2, <2>6
  <2>8. indexed' \subseteq 1 .. inserted'
    BY <1>1, <1>3 DEF RowsSound
  <2>9. ReceiptsSound'
    BY <1>1 DEF RowsSound, ReceiptsSound
  <2> QED BY <2>3, <2>5, <2>7, <2>8, <2>9 DEF RowsSound
<1>7. DaemonSound'
  <2>1. BetweenPages' <=> BetweenPages
    BY DEF BetweenPages
  <2>2. daemon.page # None => PageInFlight'
    <3> SUFFICES ASSUME PageInFlight PROVE PageInFlight'
      BY <1>1 DEF DaemonSound
    <3> DEFINE f == daemon.page
    <3>1. f \in Segment
      BY DEF PageInFlight
    <3>2. ASSUME daemon.pc # "page", f.rows # {}
          PROVE  PageSound(f, state) /\ f.resume <= inserted'
                 /\ \A r \in source' : r <= f.resume => r \in indexed \/ r \in f.rows
      <4>1. PageSound(f, state) /\ f.resume <= inserted /\ Covered(f.resume, f.rows)
        BY <3>2 DEF PageInFlight
      <4>2. f.resume \in Nat
        BY <3>1 DEF Segment, OptCursor, NoCursor
      <4> HIDE DEF f
      <4>3. f.resume <= inserted' /\ \A r \in source' : r <= f.resume => r \in source
        BY <1>4, <4>1, <4>2
      <4> QED BY <4>1, <4>3 DEF Covered
    <3> QED BY <1>2, <2>1, <3>2 DEF PageInFlight, Covered
  <2>3. daemon.unsent # None => daemon.unsent \subseteq 1 .. inserted'
    BY <1>1, <1>3 DEF DaemonSound
  <2> QED BY <1>1, <1>2, <2>1, <2>2, <2>3 DEF DaemonSound
<1>8. EditsSound'
  BY <1>1 DEF EditsSound
<1> QED BY <1>1, <1>5, <1>6, <1>7, <1>8 DEF ScanInv

LEMMA InsertKeeps == ASSUME ScanInv, InsertRow PROVE ScanInv'
<1>1. /\ UNCHANGED <<state, files, daemon, indexed, receipts, configured, edits, refused>>
      /\ inserted < MaxInserts /\ inserted' = inserted + 1 /\ source' = source \cup {inserted + 1}
  BY DEF InsertRow, durable, ghosts
<1>2. inserted \in Nat /\ source \subseteq 1 .. inserted
  BY DEF ScanInv, RowsSound
<1>3. inserted' \in 0 .. MaxInserts /\ inserted <= inserted' /\ inserted + 1 > inserted
  BY <1>1, <1>2
<1>4. ASSUME NEW r \in source' PROVE r \in 1 .. inserted' /\ (r \in source \/ r > inserted)
  <2>1. CASE r \in source
    BY <1>1, <1>2, <2>1
  <2>2. CASE r = inserted + 1
    BY <1>1, <1>2, <2>2
  <2> QED BY <1>1, <2>1, <2>2
<1> QED BY <1>1, <1>3, <1>4, SourceMoves

LEMMA DeleteKeeps == ASSUME ScanInv, DeleteRow PROVE ScanInv'
<1>1. /\ UNCHANGED <<state, files, daemon, indexed, receipts, configured, edits, refused, inserted>>
      /\ source' \subseteq source
  BY DEF DeleteRow, durable, ghosts
<1>2. inserted \in 0 .. MaxInserts /\ source \subseteq 1 .. inserted /\ inserted <= inserted
  BY DEF ScanInv, RowsSound
<1> QED BY <1>1, <1>2, SourceMoves

-----------------------------------------------------------------------------
(* The invariant, and what follows from it.                                *)

LEMMA InitKeeps == ASSUME Init PROVE ScanInv
<1>1. PICK v \in Fingerprint :
        /\ configured = v /\ daemon = [pc |-> "down", prepared |-> v, page |-> None, unsent |-> None]
  BY DEF Init
<1>2. /\ state = None /\ files = {} /\ source = {} /\ inserted = 0 /\ indexed = {}
      /\ refused = FALSE /\ receipts = {} /\ edits = 0
  BY DEF Init
<1>3. Listed = {} /\ Committed = 0
  BY <1>2 DEF Listed, Committed, NoCursor
<1>4. SpoolSound
  BY <1>2 DEF SpoolSound
<1>5. RowsSound
  BY <1>2, <1>3 DEF RowsSound, Covered, NothingLost, ReceiptsSound
<1>6. DaemonSound
  BY <1>1 DEF DaemonSound
<1>7. EditsSound
  BY <1>1, <1>2 DEF EditsSound, Differ
<1> QED BY <1>2, <1>4, <1>5, <1>6, <1>7 DEF ScanInv

LEMMA NextKeeps == ASSUME ScanInv, [Next]_vars PROVE ScanInv'
<1>1. CASE StartDaemon \/ StartRefused \/ Crash \/ EditConfiguration \/ Reload
  BY <1>1, StartDaemonKeeps, StartRefusedKeeps, CrashKeeps, EditKeeps, ReloadKeeps
<1>2. CASE ActivateRevision \/ BeginReconcile \/ AbortReconcile \/ Poll
  BY <1>2, ActivateRevisionKeeps, BeginReconcileKeeps, AbortReconcileKeeps, PollKeeps
<1>3. CASE Reconcile
  BY <1>3, CompactKeeps, PruneKeeps, AdoptKeeps, SendKeeps, MarkKeeps, ReceiptKeeps,
     NeedsCollectionKeeps, ConfirmKeeps, CommitKeeps DEF Reconcile
<1>4. CASE CreateState \/ BeginAttempt \/ BeginPage
  BY <1>4, CreateKeeps, BeginAttemptKeeps, BeginPageKeeps
<1>5. CASE Collect
  BY <1>5, CollectPageKeeps, SealPageKeeps, AbortEmptyPageKeeps, RecordEmptyKeeps DEF Collect
<1>6. CASE FailPage \/ CancelForReload \/ InsertRow \/ DeleteRow
  BY <1>6, FailPageKeeps, CancelForReloadKeeps, InsertKeeps, DeleteKeeps
<1>7. CASE ReconcileRefused \/ UNCHANGED vars
  BY <1>7, StutterKeeps DEF ReconcileRefused
<1> QED BY <1>1, <1>2, <1>3, <1>4, <1>5, <1>6, <1>7 DEF Next

LEMMA ScanInvariant == Spec => []ScanInv
<1>1. Init => ScanInv
  BY InitKeeps
<1>2. ScanInv /\ [Next]_vars => ScanInv'
  BY NextKeeps
<1> QED BY <1>1, <1>2, PTL DEF Spec

(* At least once, for every number of rows, faults, edits and scans: the   *)
(* committed cursor (commit_with_scan, rising.rs) never passes a row that  *)
(* Splunk has not accepted, and the open scan's resume cursor never passes *)
(* one that is neither accepted nor sealed in the spool.                   *)
THEOREM RowsAreNeverLost == Spec => []NoRowLost
BY ScanInvariant, InvGivesRows, PTL

(* A crash, an I/O error or a failed page at any point leaves an input the *)
(* store loads (ValidatedInputState) and reconcile's validate_inventory    *)
(* accepts, within one segment of spool.  Between scans only quarantine    *)
(* can make ensure_input refuse another revision.                          *)
THEOREM InputIsRecoverable == Spec => []AlwaysRecoverable
<1>1. Init => OpenInScan
  BY DEF Init, OpenInScan
<1>2. ScanInv /\ OpenInScan /\ [Next]_vars => OpenInScan'
  BY OpenKeeps
<1>3. Spec => []OpenInScan
  BY <1>1, <1>2, ScanInvariant, PTL DEF Spec
<1> QED BY <1>3, ScanInvariant, InvGivesRecoverable, PTL

(* No proposal of rising.rs breaks a transition rule of the state store.   *)
THEOREM StoreNeverRefuses == Spec => []NeverRefused
BY ScanInvariant, InvGivesRows, PTL

(* A receipted page is never sent again by the scan that receipted it.     *)
THEOREM NoResends == Spec => []NoResendAfterReceipt
BY ScanInvariant, InvGivesRows, PTL

-----------------------------------------------------------------------------
(* The promise: every step of the input is one of GatedCursor's, or none.  *)

LEMMA CursorStays ==
  ASSUME ScanInv, Next, ~CommitScan
  PROVE  Committed' = Committed
<1>1. CASE state' = state
  BY <1>1 DEF Committed
<1>2. CASE StartDaemon \/ ActivateRevision \/ CreateState \/ BeginAttempt \/ RecordEmpty
  BY <1>2, StartDaemonKeeps, ActivateRevisionKeeps, CreateKeeps, BeginAttemptKeeps, RecordEmptyKeeps
<1>3. CASE Prune \/ AdoptOrphan \/ Receipt \/ ConfirmDelivery
  BY <1>3, PruneKeeps, AdoptKeeps, ReceiptKeeps, ConfirmKeeps
<1>4. CASE StartRefused \/ Crash \/ EditConfiguration \/ Reload \/ BeginReconcile \/ AbortReconcile
  BY <1>1, <1>4 DEF StartRefused, Crash, EditConfiguration, Reload, BeginReconcile, AbortReconcile, durable
<1>5. CASE CompactDelivered \/ SendBatch \/ MarkDelivered \/ NeedsCollection
  BY <1>1, <1>5 DEF CompactDelivered, SendBatch, MarkDelivered, NeedsCollection, durable
<1>6. CASE Poll \/ BeginPage \/ CollectPage \/ SealPage \/ AbortEmptyPage
  BY <1>1, <1>6 DEF Poll, BeginPage, CollectPage, SealPage, AbortEmptyPage, durable
<1>7. CASE FailPage \/ CancelForReload \/ InsertRow \/ DeleteRow \/ ReconcileRefused
  BY <1>1, <1>7 DEF FailPage, CancelForReload, InsertRow, DeleteRow, ReconcileRefused, vars, durable
<1> QED BY <1>2, <1>3, <1>4, <1>5, <1>6, <1>7 DEF Next, Reconcile, Collect

(* Only the source and the sink's acceptance move the rows.                *)
LEMMA RowsStay ==
  ASSUME Next, ~SendBatch, ~InsertRow, ~DeleteRow
  PROVE  source' = source /\ indexed' = indexed
<1>1. CASE StartDaemon \/ StartRefused \/ Crash \/ EditConfiguration \/ Reload \/ ActivateRevision
  BY <1>1 DEF StartDaemon, StartRefused, Crash, EditConfiguration, Reload, ActivateRevision, world
<1>2. CASE ReconcileRefused \/ BeginReconcile \/ AbortReconcile \/ Poll
  BY <1>2 DEF ReconcileRefused, BeginReconcile, AbortReconcile, Poll, world, vars
<1>3. CASE Reconcile
  BY <1>3 DEF Reconcile, CompactDelivered, Prune, AdoptOrphan, MarkDelivered, Receipt, NeedsCollection,
              ConfirmDelivery, CommitScan, world
<1>4. CASE CreateState \/ BeginAttempt \/ BeginPage
  BY <1>4 DEF CreateState, BeginAttempt, BeginPage, world
<1>5. CASE Collect \/ FailPage \/ CancelForReload
  BY <1>5 DEF Collect, CollectPage, SealPage, AbortEmptyPage, RecordEmpty, FailPage, CancelForReload, world
<1> QED BY <1>1, <1>2, <1>3, <1>4, <1>5 DEF Next

LEMMA StepKeepsPromise ==
  ASSUME ScanInv, [Next]_vars
  PROVE  [Promise!Next]_<<source, indexed, Committed>>
<1>1. CASE UNCHANGED vars
  BY <1>1 DEF vars, durable, world, Committed
<1>2. CASE InsertRow
  <2>1. /\ Committed' = Committed /\ indexed' = indexed /\ source' = source \cup {inserted + 1}
        /\ inserted < MaxInserts
    BY <1>2 DEF InsertRow, durable, Committed
  <2>2. inserted \in Nat /\ source \subseteq 1 .. inserted /\ Committed <= inserted /\ Committed \in Nat
    <3>1. inserted \in Nat /\ source \subseteq 1 .. inserted /\ Committed <= inserted
      BY DEF ScanInv, RowsSound
    <3>2. state # None => state \in InputState
      BY DEF ScanInv, SpoolSound, StateSound
    <3> QED BY <3>1, <3>2, StateTypes DEF Committed, NoCursor
  <2>3. inserted + 1 \in 1 .. MaxInserts
    BY <2>1, <2>2
  <2>4. inserted + 1 \in Row /\ inserted + 1 > Committed /\ \A q \in source : inserted + 1 > q
    <3>1. \A q \in source : inserted + 1 > q
      BY <2>2
    <3> QED BY <2>2, <2>3, <3>1
  <2>5. Promise!Insert
    BY <2>1, <2>4 DEF Promise!Insert
  <2> QED BY <2>5 DEF Promise!Next
<1>3. CASE DeleteRow
  <2>1. Committed' = Committed /\ indexed' = indexed /\ \E r \in source : source' = source \ {r}
    BY <1>3 DEF DeleteRow, durable, Committed
  <2>2. Promise!Delete
    BY <2>1 DEF Promise!Delete
  <2> QED BY <2>2 DEF Promise!Next
<1>4. CASE SendBatch
  <2>1. Committed' = Committed /\ source' = source
    BY <1>4 DEF SendBatch, durable, Committed
  <2>2. indexed \subseteq indexed' /\ indexed' \subseteq Row
    <3>1. indexed \subseteq indexed'
      BY <1>4 DEF SendBatch
    <3>2. inserted' \in Nat /\ inserted' <= MaxInserts /\ indexed' \subseteq 1 .. inserted'
      BY <1>4, SendKeeps DEF ScanInv, RowsSound
    <3>3. 1 .. inserted' \subseteq 1 .. MaxInserts
      BY <3>2
    <3> QED BY <3>1, <3>2, <3>3
  <2>3. Promise!Deliver
    <3>1. indexed' \in SUBSET Row /\ indexed' = indexed \cup indexed'
      BY <2>2
    <3> QED BY <2>1, <3>1 DEF Promise!Deliver
  <2> QED BY <2>3 DEF Promise!Next
<1>5. CASE CommitScan
  <2>1. source' = source /\ indexed' = indexed
    BY <1>5 DEF CommitScan, world
  <2>2. \/ Committed' = Committed
        \/ Committed' \in Row /\ Committed' > Committed /\ Covered(Committed', {})
    BY <1>5, CommitKeeps
  <2>3. CASE Committed' = Committed
    BY <2>1, <2>3
  <2>4. CASE Committed' \in Row /\ Committed' > Committed /\ Covered(Committed', {})
    <3>1. Promise!Advance
      BY <2>1, <2>4 DEF Promise!Advance, Covered
    <3> QED BY <3>1 DEF Promise!Next
  <2> QED BY <2>2, <2>3, <2>4
<1>6. CASE Next /\ ~InsertRow /\ ~DeleteRow /\ ~SendBatch /\ ~CommitScan
  BY <1>6, CursorStays, RowsStay
<1> QED BY <1>1, <1>2, <1>3, <1>4, <1>5, <1>6

(* The orchestration of rising.rs implements GatedCursor with the          *)
(* committed cursor for its cursor: whatever it does inside, the cursor    *)
(* only advances, and only over rows the sink has accepted.                *)
THEOREM KeepsPromise == Spec => ImplementsPromise
<1>1. Init => Promise!Init
  BY DEF Init, Promise!Init, Committed, NoCursor
<1>2. ScanInv /\ [Next]_vars => [Promise!Next]_(Promise!gvars)
  BY StepKeepsPromise DEF Promise!gvars
<1> QED BY <1>1, <1>2, ScanInvariant, PTL DEF Spec, ImplementsPromise, Promise!Spec

=============================================================================
