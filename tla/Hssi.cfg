CONSTANTS
  t1 = t1
  t2 = t2
  NONE = NONE
SPECIFICATION Spec
INVARIANTS
  SuccessMeansDone
PROPERTIES
  EepromRight CallReturns
CHECK_DEADLOCK FALSE
