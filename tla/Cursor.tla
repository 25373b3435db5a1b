------------------------------- MODULE Cursor -------------------------------
(***************************************************************************)
(* The connector-neutral cursor of crates/dbx-rs-connector-sdk/src/        *)
(* cursor.rs: a timestamp and an identifier, both signed 64-bit integers,  *)
(* the lower bound a page is asked for, and the canonical bytes in which a *)
(* cursor is stored and hashed.                                            *)
(*                                                                         *)
(* Simplifications: an integer has Digits bytes of base Base instead of    *)
(* eight of base 256, a version one byte instead of two; a nanosecond is   *)
(* 1 / NanosPerMicro of a microsecond.                                     *)
(***************************************************************************)
EXTENDS Integers, Sequences, SequencesExt

CONSTANTS
  Base,           \* values of a byte
  Digits,         \* bytes of an integer
  NanosPerMicro,  \* 1000 in the code
  None            \* an absent cursor or bound

ASSUME CursorAssumption == Base \in Nat \ {0, 1} /\ Digits \in Nat \ {0} /\ NanosPerMicro \in Nat \ {0}

Wide == Base ^ Digits
Int64 == (0 - (Wide \div 2)) .. ((Wide \div 2) - 1)
MinInt64 == 0 - (Wide \div 2)
MaxInt64 == (Wide \div 2) - 1

IsCursor(c) == c.timestamp \in Int64 /\ c.id \in Int64

\* position_cmp
Before(a, b) ==
  \/ a.timestamp < b.timestamp
  \/ a.timestamp = b.timestamp /\ a.id < b.id
Later(a, b) == IF Before(a, b) THEN b ELSE a

-----------------------------------------------------------------------------
(* The lower bound.                                                        *)

Micros(spec) == spec.overlap \div NanosPerMicro

ValidSpec(spec) ==
  /\ spec.timestampField # "" /\ spec.idField # "" /\ spec.timestampField # spec.idField
  /\ spec.overlap % NanosPerMicro = 0 /\ Micros(spec) <= MaxInt64

Refused == [ok |-> FALSE, bound |-> None]
Bound(value, inclusive) == [ok |-> TRUE, bound |-> [value |-> value, inclusive |-> inclusive]]
Unbounded == [ok |-> TRUE, bound |-> None]

\* Mutant: the rewound bound keeps the committed identifier.
InitialBoundKeepsId(request) ==
  LET c == request.committed IN
  CASE c = None -> Unbounded
    [] c # None /\ request.spec.overlap = 0 -> Bound(c, FALSE)
    [] OTHER -> IF c.timestamp - Micros(request.spec) < MinInt64 THEN Refused
                ELSE Bound([timestamp |-> c.timestamp - Micros(request.spec), id |-> c.id], TRUE)

\* initial_bound: exclusive after the committed cursor, or inclusive from the overlap
\* before it, whatever the identifier.
InitialBound(request) ==
  LET c == request.committed IN
  CASE c = None -> Unbounded
    [] c # None /\ request.spec.overlap = 0 -> Bound(c, FALSE)
    [] OTHER -> IF c.timestamp - Micros(request.spec) < MinInt64 THEN Refused
                ELSE Bound([timestamp |-> c.timestamp - Micros(request.spec), id |-> MinInt64], TRUE)

\* effective_bound
EffectiveBound(request) ==
  LET initial == InitialBound(request) IN
  IF ~ValidSpec(request.spec) THEN Refused
  ELSE IF request.resumeAfter = None \/ ~initial.ok THEN initial
  ELSE IF initial.bound # None /\ Before(request.resumeAfter, initial.bound.value)
  THEN Refused ELSE Bound(request.resumeAfter, FALSE)

\* What a query with this lower bound selects
Within(bound, c) ==
  \/ bound = None
  \/ Before(bound.value, c)
  \/ bound.inclusive /\ c = bound.value

-----------------------------------------------------------------------------
(* Canonical bytes: a format version and the two integers, big-endian in    *)
(* two's complement.                                                        *)

CursorVersion == 1
CanonicalBytes == 1 + 2 * Digits

BigEndian(n) == [k \in 1 .. Digits |-> ((n % Wide) \div (Base ^ (Digits - k))) % Base]
Unsigned(bytes) == FoldLeft(LAMBDA n, b : n * Base + b, 0, bytes)
Signed(bytes) == IF Unsigned(bytes) > MaxInt64 THEN Unsigned(bytes) - Wide ELSE Unsigned(bytes)

ToCanonical(c) == <<CursorVersion>> \o BigEndian(c.timestamp) \o BigEndian(c.id)

\* from_canonical_bytes: the cursor, or None for another length or version.
FromCanonical(bytes) ==
  IF Len(bytes) # CanonicalBytes \/ Head(bytes) # CursorVersion THEN None
  ELSE [timestamp |-> Signed(SubSeq(bytes, 2, 1 + Digits)),
        id        |-> Signed(SubSeq(bytes, 2 + Digits, CanonicalBytes))]
=============================================================================
