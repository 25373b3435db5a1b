CONSTANTS
  i1 = i1  one = one  two = two
  Requests <- AllRequests
  Answers <- AllAnswers
  Schemas <- AllSchemas
  LineBytes <- Bytes
  Unprintable = {4}
  Null = Null
  None = None
  IpcCapacity = 2
  RowCapacity = 1
  MaxFixedRows = 2
  MaxSpent = 2
SPECIFICATION Spec
CHECK_DEADLOCK FALSE
INVARIANT SealedIsSound EventIdentity
PROPERTY CollectionEnds
