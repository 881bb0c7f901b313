SPECIFICATION FairSpec
CONSTANTS
  p1 = p1
  p2 = p2
  d1 = d1
  d2 = d2
  Proc = {p1, p2}
  Device = {d1, d2}
  Requested <- MCRequested
  Local = {p1}
INVARIANTS TypeOK SessionsAccounted
PROPERTY CancelReleases
CHECK_DEADLOCK FALSE
