SPECIFICATION FairSpec
CONSTANTS
  GPU = {g1}
  Ceiling = {c1, c2}
  Report <- Sampled
  Resolution = 2
  Key <- EveryKey
  MaxClock = 2
  MaxInputs = 2
INVARIANTS TypeOK DrawChain PausedShowsThePast HeaderAgrees
PROPERTY CatchesUp
CHECK_DEADLOCK FALSE
