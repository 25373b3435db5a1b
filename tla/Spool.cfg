CONSTANTS
  InputKey = {i1, i2}
  Worker = {w1, w2}
  SegmentId = {s1, s2, s3}
  SegmentLimit = 3
  InputLimit = 6
  GlobalLimit = 8
  MaxFailures = 2
  None = None
SPECIFICATION Spec
CHECK_DEADLOCK FALSE
INVARIANT AccountingHolds
PROPERTY SealedSurvives
