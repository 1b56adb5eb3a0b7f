CONSTANTS
  Indices = {0, 1, 2}
  Resources <- MCResources
  PAGE_SIZE = 4
  MaxPages = 8
  Users = {u1, u2}
  MaskedErrs = {e1, e2}
  ResetErrs = {e3}
  FirstErrs = {e1, e3}
  NumUint = 2
  NumErr = 1
  Evts = {fd1, fd2}
  MaxU = 3
  NONE = NONE
SPECIFICATION FeatSpec
\* Regions are added once and may all be smaller than a page.
CHECK_DEADLOCK FALSE
INVARIANTS
  MapsItsRegion
  PortErrorsRight
  EventfdsRight VectorsRight
PROPERTY
  CallReturns
