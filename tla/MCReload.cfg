SPECIFICATION FairSpec
CONSTANTS
  AttemptId = {a1, a2}
  ConfigurationId <- MCConfigurationId
  Position <- MCRow
  RowCount <- MCRowCount
  MaxGeneration = 2
  None = None
  Fingerprint = {v1, v2}
  MaxSegments = 3
  Row <- MCRow
  PageSize = 1
  BatchEvents = 1
  Overlap = 0
  SegmentId = {1, 2}
  MaxFaults = 0
  MaxEdits = 1
  MaxInserts = 1
  MaxScans = 2
PROPERTY ReloadApplied
