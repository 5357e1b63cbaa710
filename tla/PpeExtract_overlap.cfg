SPECIFICATION Spec
CONSTANTS
  None = None
  Missing = Missing
  m1 = m1
  m2 = m2
  v1 = v1
  v2 = v2
  mon = mon
  hif = hif
  burden = burden
  optical = optical
  Hifreq = hif
  Streams = {mon, hif}

  Members = {m1}
  Vars = {v1}
  Groups = {burden}
  Jobs = {j1, j2}
  VarOrder <- OneVar
  SearchOrder <- Search1
  Carries <- Carry1
  GroupOrder <- OneGroup
  GroupVars <- GVars1
  Plans <- PlanOne
  MaxClock = 1
  MaxEdits = 1
  MaxFaults = 1
  MaxStarts = 2
INVARIANTS TypeOK WholeUnlessContended FreshIsCurrent
CHECK_DEADLOCK FALSE
PROPERTIES ImplementsAtomicStore
