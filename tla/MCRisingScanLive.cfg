SPECIFICATION FairSpec
CONSTANTS
  AttemptId = {a1, a2}
  ConfigurationId <- MCConfigurationId
  Position <- MCRow
  RowCount <- MCRowCount
  MaxGeneration = 2
  None = None
  Fingerprint = {v1}
  MaxSegments = 3
  Row <- MCRow
  PageSize = 1
  BatchEvents = 1
  Overlap = 0
  SegmentId = {1, 2}
  MaxFaults = 2
  MaxEdits = 0
  MaxInserts = 2
  MaxScans = 2
PROPERTIES ScanCompletes RowsReachSplunk
