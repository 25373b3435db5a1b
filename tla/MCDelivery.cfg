CONSTANTS
  s1 = s1  s2 = s2  i1 = i1
  acked = acked  plain = plain  off = off
  Segment = {s1, s2}
  InputKey = {i1}
  Revision = {acked, plain, off}
  Initial = acked
  SortKey <- Key
  MaxEvents <- Events2
  MaxBytes <- Bytes
  MaxEventBytes <- EventBytes
  UseAck <- Ack
  HecEnabled <- Enabled
  EventLists <- Lists
  MaxFaults = 1
  MaxEdits = 1
  None = None
SPECIFICATION Spec
CHECK_DEADLOCK FALSE
INVARIANT DeliveredIsIndexed SendingIsSound
PROPERTY SentUnderOwnRevision ReadyIsDelivered
