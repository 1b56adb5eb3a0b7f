CONSTANTS
  Users = {u1, u2}
  Images <- MCImages
  BufferSize = 3
  FifoSize = 2
  MaxCalls = 2
  NONE = NONE
SPECIFICATION Spec
INVARIANT NoBug
CHECK_DEADLOCK FALSE
