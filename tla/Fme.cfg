CONSTANTS
  Ports = {p1, p2}
  Bandwidth = 2
  Sizes = {0, 5}
  FifoSize = 3
  MaxPr = 2
  MaxDelay = 1
  UNKNOWN = UNKNOWN
  Threads = {u1, u2}
  ErrSetups <- MCErrSetups
  MBP = MBP
  MonSets = {{"fab"}, {"cache", "vtd"}, {"dfab", "sip"}}
  Events = {ev1, ev2}
  Objs = {ROOT, p1}
  ROOT = ROOT
  Values = {0, 1, 100, 101, 128}
  NONE = NONE
  p1 = p1
  e1 = e1
  e2 = e2
  h1 = h1
  ev1 = ev1
SPECIFICATION MCSpec
INVARIANTS
  PrSafe FmeErrorsRight CountersRight AsStored
PROPERTIES
  ImplementsService OnlyAcknowledged
  CallsReturn
