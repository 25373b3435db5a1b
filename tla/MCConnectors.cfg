CONSTANTS
  Tables <- SomeTables
  PlainTables <- Repeats
  Bounds <- SomeBounds
  Product = "mysql"
  OtherProducts <- Forks
  MySqlServers <- SomeMySqlServers
  MssqlServers <- SomeMssqlServers
  ServerDates <- Dates
  Addresses = 2
  MaxRows = 3
  MaxBatchRows = 2
  MaxBatchBytes = 4
  MaxTotalBytes = 5
  Overhead = 1
  RowWidths <- OneByte
  FixedBatchBytes = 16
  TypedBatchRows = 4
SPECIFICATION Spec
CHECK_DEADLOCK FALSE
INVARIANT PageIsSound SessionIsSound
PROPERTY ImplementsContract OperationEnds
