SPECIFICATION PipelineSpec
CONSTANTS
  None = None
  m1 = m1
  dry = dry
  Models = {m1}
  Vars = {dry}
  Matches <- Distinct
  PairOrder <- OnePair
  Servers <- OneRelease
  OldTrees <- SomeOldTrees
  Settings = {"FALSE"}
  MaxClock = 1
  MaxUploads = 1
  MaxFaults = 0
  MaxStarts = 3
  Unusable = {3}
  Renews = {TRUE, FALSE}
INVARIANTS FreshIsCurrent AfterRunCurrent
CHECK_DEADLOCK FALSE
