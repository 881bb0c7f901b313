SPECIFICATION ScannerSpec
CONSTANTS
  m1 = m1
  m2 = m2
  MaxSession = 2
  Model = {m1, m2}
  CacheTTL = 1
  MaxStarts = 3
  MaxClock = 3
SYMMETRY Symmetry
INVARIANT ScannerTypeOK
PROPERTY AttributionsTrue
CHECK_DEADLOCK FALSE
