SPECIFICATION Spec
CONSTANTS
  AttemptId = {a1, a2}
  ConfigurationId <- MCConfigurationId
  Position <- MCRow
  RowCount <- MCRowCount
  MaxGeneration = 2
  None = None
  Fingerprint = {v1, v2}
  MaxSegments = 3
  Row <- MCRow
  PageSize = 2
  BatchEvents = 1
  Overlap = 1
  SegmentId = {1, 2}
  MaxFaults = 2
  MaxEdits = 1
  MaxInserts = 3
  MaxScans = 2
SYMMETRY MCSymmetry
INVARIANTS NoRowLost AlwaysRecoverable NeverRefused NoResendAfterReceipt
PROPERTY ImplementsPromise
