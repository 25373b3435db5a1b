-------------------------- MODULE RecoveryMetadata --------------------------
(***************************************************************************)
(* The recovery facts of a sealed rising page, daemon/src/                 *)
(* rising_metadata.rs: what a worker may write into a segment's footer,    *)
(* the fixed layout it is written in, and what a later process, perhaps of *)
(* another version, reads back from the same bytes.                        *)
(*                                                                         *)
(* Simplifications: the scaled bytes of Cursor; the 32 bytes of a          *)
(* fingerprint are one byte, and the hash of a request is its preimage.    *)
(***************************************************************************)
EXTENDS Cursor, FiniteSets

CONSTANTS
  Cursors,      \* cursors of requests and pages
  RowCounts,    \* row counts of pages
  Fingerprints, \* request fingerprints, one byte
  Identities    \* cursor identity fingerprints, one byte

FormatVersion == 2
Flag == [truncated |-> 1, candidate |-> 2, resume |-> 4]
SupportedFlags == 7

Optional == Cursors \cup {None}
Metadata == [rows: RowCounts, truncated: BOOLEAN, fingerprint: Fingerprints,
             candidate: Optional, resume: Optional]

\* validate
Valid(m) ==
  /\ m.fingerprint # 0
  /\ IF m.rows = 0 THEN ~m.truncated /\ m.candidate = None /\ m.resume = None
     ELSE m.candidate # None /\ m.resume # None /\ ~Before(m.candidate, m.resume)

-----------------------------------------------------------------------------
(* The layout: version, flags, a reserved byte, rows, fingerprint and two   *)
(* cursor slots.                                                            *)

Offset == [version |-> 1, flags |-> 2, reserved |-> 3, rows |-> 4,
           fingerprint |-> 4 + Digits, candidate |-> 5 + Digits,
           resume |-> 5 + Digits + CanonicalBytes]
EncodedBytes == 4 + Digits + 2 * CanonicalBytes
Field(bytes, from, next) == SubSeq(bytes, from, next - 1)

Zeros == [k \in 1 .. CanonicalBytes |-> 0]
Slot(c) == IF c = None THEN Zeros ELSE ToCanonical(c)
FlagIf(holds, flag) == IF holds THEN flag ELSE 0
Has(flags, flag) == (flags \div flag) % 2 = 1

Encode(m) ==
  <<FormatVersion,
    FlagIf(m.truncated, Flag.truncated) + FlagIf(m.candidate # None, Flag.candidate)
      + FlagIf(m.resume # None, Flag.resume),
    0>> \o BigEndian(m.rows) \o <<m.fingerprint>> \o Slot(m.candidate) \o Slot(m.resume)

Unreadable == [ok |-> FALSE, cursor |-> None]

\* Mutant: an absent cursor's bytes are not looked at.
DecodeSlotLenient(bytes, present) ==
  IF present /\ FromCanonical(bytes) = None THEN Unreadable
  ELSE [ok |-> TRUE, cursor |-> IF present THEN FromCanonical(bytes) ELSE None]

\* decode_cursor_slot
DecodeSlot(bytes, present) ==
  IF (~present /\ bytes # Zeros) \/ (present /\ FromCanonical(bytes) = None) THEN Unreadable
  ELSE [ok |-> TRUE, cursor |-> IF present THEN FromCanonical(bytes) ELSE None]

\* decode: the facts, or None
Decode(bytes) ==
  LET flags     == bytes[Offset.flags]
      candidate == DecodeSlot(Field(bytes, Offset.candidate, Offset.resume), Has(flags, Flag.candidate))
      resume    == DecodeSlot(Field(bytes, Offset.resume, EncodedBytes + 1), Has(flags, Flag.resume))
      facts     == [rows        |-> Unsigned(Field(bytes, Offset.rows, Offset.fingerprint)),
                    truncated   |-> Has(flags, Flag.truncated),
                    fingerprint |-> bytes[Offset.fingerprint],
                    candidate   |-> candidate.cursor,
                    resume      |-> resume.cursor]
  IN IF /\ Len(bytes) = EncodedBytes
        /\ bytes[Offset.version] = FormatVersion
        /\ flags <= SupportedFlags /\ bytes[Offset.reserved] = 0
        /\ candidate.ok /\ resume.ok /\ Valid(facts)
     THEN facts ELSE None

-----------------------------------------------------------------------------
(* The preimage of the request fingerprint.                                 *)

\* update_optional_cursor
Tagged(c) == IF c = None THEN <<0>> ELSE <<1>> \o ToCanonical(c)

\* rising_request_fingerprint
RequestPreimage(identity, committed, resumeAfter) ==
  <<identity>> \o Tagged(committed) \o Tagged(resumeAfter)

-----------------------------------------------------------------------------
VARIABLES
  sealed,    \* the facts the worker constructed
  request,   \* the request they answer: identity, committed, resume_after
  footer,    \* the bytes in the segment
  found      \* what a later process decodes, or None
vars == <<sealed, request, footer, found>>

Request == [identity: Identities, committed: Optional, resumeAfter: Optional]

\* RisingRecoveryMetadata::new, encode
Init ==
  /\ request \in Request
  /\ sealed \in {m \in Metadata : Valid(m)}
  /\ footer = Encode(sealed) /\ found = sealed

\* The footer of another version of the program, or of another page: one byte differs,
\* or bytes are missing or added.  The spool's own authentication is not relied on.
OtherFooter ==
  /\ footer = Encode(sealed)
  /\ \/ \E k \in DOMAIN footer, b \in 0 .. Base - 1 : footer' = [footer EXCEPT ![k] = b]
     \/ footer' = Front(footer)
     \/ footer' = Append(footer, 0)
  /\ found' = Decode(footer')
  /\ UNCHANGED <<sealed, request>>

\* The page is adopted for another request, as after a restart with another configuration.
OtherRequest ==
  /\ footer = Encode(sealed) /\ request' \in Request
  /\ UNCHANGED <<sealed, footer, found>>

Next == OtherFooter \/ OtherRequest
Spec == Init /\ [][Next]_vars
-----------------------------------------------------------------------------
TypeOK ==
  /\ sealed \in Metadata /\ Valid(sealed) /\ request \in Request
  /\ Len(footer) \in EncodedBytes - 1 .. EncodedBytes + 1
  /\ \A k \in DOMAIN footer : footer[k] \in 0 .. Base - 1

\* decode returns exactly what was encoded.
RoundTrip == footer = Encode(sealed) => Decode(footer) = sealed

\* The encoding is canonical: bytes that decode at all are the encoding of what they
\* decode to, so two different footers never carry the same facts.
Canonical == found # None => Valid(found) /\ Encode(found) = footer

\* The footer is exact, and a page is never taken for the answer to another request:
\* requests with different identity, committed or resume cursor hash different preimages.
FooterIsExact ==
  /\ [](TypeOK /\ RoundTrip /\ Canonical)
  /\ [][RequestPreimage(request.identity, request.committed, request.resumeAfter)
         = RequestPreimage(request'.identity, request'.committed, request'.resumeAfter)
       => request' = request]_vars
=============================================================================
