CONSTANTS
  c1 = c1
  c2 = c2
  u1 = u1
  u2 = u2
  NONE = NONE
SPECIFICATION Spec
\* A probe of FeatureList may end in an oops, and the removal of an FME in the
\* deadlock of global_error_uinit.
CHECK_DEADLOCK FALSE
INVARIANTS
  DevicesRight NothingLeft
PROPERTY
  RemoveReturns
