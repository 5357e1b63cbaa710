SPECIFICATION PipelineSpec
CONSTANTS
  None = None
  m1 = m1
  dry = dry
  Models = {m1}
  Vars = {dry}
  Matches <- Distinct
  PairOrder <- OnePair
  Servers <- NoServer
  OldTrees <- MonthlyOnly
  Settings = {"FALSE"}
  MaxClock = 1
  MaxUploads = 0
  MaxFaults = 0
  MaxStarts = 3
  Unusable = {}
  Renews = {TRUE, FALSE}
INVARIANTS EveryMonthlyModelLoaded
CHECK_DEADLOCK FALSE
