---------------------------- MODULE MCRisingScan ----------------------------
(* Three rows in pages of one or two, sent one event per request: scans    *)
(* with several pages, an empty first page, an empty final page (rows      *)
(* deleted behind a truncated one) and partial sends.                      *)
EXTENDS RisingScan, TLC
MCRow == 1 .. MaxInserts
MCRowCount == 0 .. 8
MCConfigurationId == Fingerprint \X (1 .. (MaxEdits + 1))
MCSymmetry == Permutations(AttemptId)
=============================================================================
