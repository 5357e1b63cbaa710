SPECIFICATION Spec
CONSTANTS
  None = None
  Missing = Missing
  m1 = m1
  m2 = m2
  v1 = v1
  v2 = v2
  mon = mon
  hif = hif
  burden = burden
  optical = optical
  Hifreq = hif
  Streams = {mon, hif}

  Members = {m1}
  Vars = {v1, v2}
  Groups = {burden, optical}
  Jobs = {j1}
  VarOrder <- TwoVars
  SearchOrder <- Search2
  Carries <- Carry2
  GroupOrder <- TwoGroups
  GroupVars <- GVars2
  Plans <- PlanOne
  MaxClock = 0
  MaxEdits = 0
  MaxFaults = 0
  MaxStarts = 2
INVARIANTS ProvenanceStatusTruthful
CHECK_DEADLOCK FALSE
