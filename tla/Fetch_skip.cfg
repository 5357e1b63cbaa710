SPECIFICATION FetchSpec
CONSTANTS
  None = None
  m1 = m1
  dry = dry
  od = od
  Models = {m1}
  Vars = {dry, od}
  Matches <- SubString
  PairOrder <- TwoPairs
  Servers <- FewServers
  OldTrees <- NoOldTree
  Settings = {"FALSE", "false"}
  MaxClock = 0
  MaxUploads = 1
  MaxFaults = 0
  MaxStarts = 2
INVARIANTS SkipsAsDocumented
CHECK_DEADLOCK FALSE
