CONSTANTS
  ColdThresh <- MCColdThresh
  HotWarmThresh <- MCHotWarmThresh
  WarmHotThresh <- MCWarmHotThresh
  Top <- MCTop
  HotRate = 3
  ColdRate = 2
  Delay = 1
  MaxLag = 2
  HandlerStarts = FALSE
SPECIFICATION FairTempSpec
INVARIANTS
  TemperatureIsKnown
PROPERTIES
  NoCoolingWhileActive
  HotCoolsDown
