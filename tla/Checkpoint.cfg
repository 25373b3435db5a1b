\* Two attempts, two configurations, two cursor positions and the row counts 0..2 under two
\* generations: enough for a regressing candidate, for counts that disagree, for a spent and an
\* older spent fence, and for the generation overflow.
SPECIFICATION Spec
CONSTANTS
  AttemptId = {a1, a2}
  ConfigurationId = {c1, c2}
  Position = {1, 2}
  RowCount = {0, 1, 2}
  MaxGeneration = 2
  None = None
INVARIANTS SnapshotValid CommitNeedsBothFacts SpentFenceIsInert
PROPERTY CursorMonotone
