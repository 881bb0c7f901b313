SPECIFICATION ScraperSpec
CONSTANTS
  p1 = p1
  e1 = e1
  e2 = e2
  Endpoint = {p1}
  Engine = {e1, e2}
  TTL = 3
  LongLength = 3
  MaxCount = 2
  MaxChurn = 3
  MaxClock = 5
SYMMETRY Symmetry
INVARIANTS ScraperTypeOK Counted
CHECK_DEADLOCK FALSE
