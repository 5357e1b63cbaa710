SPECIFICATION AnalysisSpec
CONSTANTS
  control = control
  e1 = e1
  e2 = e2
  aug = aug
  sep = sep
  Members = {control, e1, e2}
  GroupOrder <- Three
  Extracts <- SomeExtracts
  None = None
  Months = {aug, sep}
  Archives <- SomeArchives
  Tasks = {t1, t2}
  NoGrid = NoGrid
  Sessions = {s1, s2}
  Burden = "burden"
  CellOf <- Cells
  MonthOrder <- TheYear
  MaxStarts = 2
INVARIANTS
  AnalysisTypeOK TableIsOfOneExtraction TableHasItsMembers TablesAgree FitIsOfOneExtraction
  ReadableMonthIsComplete NothingMissingSilently
CHECK_DEADLOCK FALSE
