SPECIFICATION FairFetch
CONSTANTS
  None = None
  m1 = m1
  dry = dry
  od = od
  Models = {m1}
  Vars = {dry, od}
  Matches <- SubString
  PairOrder <- TwoPairs
  Servers <- FewServers
  OldTrees <- NoOldTree
  Settings = {"FALSE", "false", "true"}
  MaxClock = 0
  MaxUploads = 1
  MaxFaults = 1
  MaxStarts = 2
INVARIANTS FetchTypeOK NoEmptyLeft OfferedIsFetched
PROPERTIES SafeModeKeepsData FetchEnds
CHECK_DEADLOCK FALSE
