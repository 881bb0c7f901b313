CONSTANTS
  Name = {"a", "b"}
  Gap = Gap
  Value <- MCValue
  YRange <- MCYRange
  ChartResolution = 2
  Sizes <- MCSizes
  NameLists <- MCNameLists
  Thresholds <- MCThresholds
  PushTimes = {0, 3}
  DrawTimes = {3, 9}
  MaxPushes = 2
  Powers = {1, 10, 100, 1000}
SPECIFICATION ChartSpec
INVARIANTS ChartTypeOK LineTells OneScale OnlyAsked
