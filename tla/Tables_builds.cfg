SPECIFICATION TablesSpec
CONSTANTS
  m1 = m1
  m2 = m2
  m3 = m3
  africa = africa
  outflow = outflow
  ModelOrder <- ByName
  Variables <- SomeVariables
  LoadVars <- Loads3
  EmiVars <- Emis2
  DepVars <- Deps2
  Archives <- SomeArchives
  ExcludeModels = {}
  MonthlyExclude = {m3}
  Regions = {africa, outflow}
  SourceRegions = {africa}
  Observations <- SomeObservations
  Requests <- SomeRequests
  MaxStarts = 2
  MaxMet = 1
  MaxLost = 1
INVARIANTS
  TablesTypeOK OverlayIsComplete FitIsInTheTable ReadableIsInTheTable MetaFollowsTable
  TotalsAreComplete EveryTaskIsInTheTable MonthlyMetaFollowsTable
CHECK_DEADLOCK FALSE
