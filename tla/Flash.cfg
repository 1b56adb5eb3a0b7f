CONSTANTS
  t1 = t1
  t2 = t2
  NONE = NONE
SPECIFICATION Spec
INVARIANTS
  MtdCallsRight GuardProtects FlashedExactly TransferComplete DownloadRight
PROPERTIES
  OnlyRange
  AllEnd
CHECK_DEADLOCK FALSE
