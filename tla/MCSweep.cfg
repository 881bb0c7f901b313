SPECIFICATION Spec
CONSTANTS
  Grids <- MCGrids
  Feature <- MCFeature
  Ladder <- MCLadder
  Point <- MCPoint
  Modes = {"replay", "live"}
  Rules = {"auto", "sol90", "plateau", "off"}
  None = None
INVARIANTS TypeOK GpusFree LiveMatchesReplay FilesAgree
CHECK_DEADLOCK FALSE
