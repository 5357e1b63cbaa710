SPECIFICATION AnalysisSpec
CONSTANTS
  control = control
  e1 = e1
  e2 = e2
  aug = aug
  sep = sep
  Members = {control, e1, e2}
  GroupOrder <- Two
  Extracts <- OneExtract
  None = None
  Months = {aug}
  Archives <- OneArchive
  Tasks = {}
  NoGrid = NoGrid
  Sessions = {s1, s2}
  Burden = "burden"
  CellOf <- TwoCells
  MonthOrder <- OneMonth
  MaxStarts = 3
SYMMETRY Interchangeable
INVARIANTS
  FitIsOfOneExtraction
CHECK_DEADLOCK FALSE
