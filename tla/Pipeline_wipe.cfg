SPECIFICATION FairPipeline
CONSTANTS
  None = None
  m1 = m1
  dry = dry
  Models = {m1}
  Vars = {dry}
  Matches <- Distinct
  PairOrder <- OnePair
  Servers <- OneRelease
  OldTrees <- SomeOldTrees
  Settings = {"true"}
  MaxClock = 0
  MaxUploads = 0
  MaxFaults = 1
  MaxStarts = 3
  Unusable = {}
  Renews = {TRUE, FALSE}
INVARIANTS ProcessTypeOK EveryPairCounted WholeUnlessBroken
CHECK_DEADLOCK FALSE
PROPERTIES ProcessEnds
