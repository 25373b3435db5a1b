CONSTANTS
  Base = 16
  Digits = 2
  NanosPerMicro = 2
  None = None
  Rows <- SampleRows
  MaxTable = 4
  Specs <- SampleSpecs
  PageRows = 1
  Cursors <- SampleCursors
  RowCounts = {0, 1, 130}
  Fingerprints = {0, 5}
  Identities = {1, 2}
  Dialects = {"mysql", "mssql", "oracle", "postgres"}
  Texts <- Sample
SPECIFICATION PartsSpec
CHECK_DEADLOCK FALSE
INVARIANT PagesAreExact ScannerIsSound
PROPERTY FooterIsExact
