CONSTANTS
  BmcSetups <- MCSetups
  PROBE = PROBE
  Base = 2
  MAX_PACKET_SIZE = 4
  SDR_CHUNK_SIZE = 3
  SdrSize = 6
  MaxPolls = 3
  Users = {t1, t2}
  Configs = {k1}
  OLD = OLD
  MaxBmcCalls = 2
  MaxPllCalls = 3
  NONE = NONE
  t1 = t1
  t2 = t2
SPECIFICATION MCSpec
INVARIANTS
  AnswersRight StoreApplied
PROPERTY
  CallsReturn
CHECK_DEADLOCK FALSE
