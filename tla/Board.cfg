CONSTANTS
  Requests = {r1, r2}
  Cases = {c1, c2}
  MaxStage = 2
  MaxCount = 2
  Titles = {New, Review}
  DefaultTitle = New
  Absent = Absent
  Queries <- SearchQueries
  PageLimit = 1
  CaseLimit = 1
  MaxMoved = 1
  MaxBusy = 1
SPECIFICATION ViewSpec
INVARIANTS TypeOK CountsAccountedFor TotalAccountedFor CountsWithinMoves NoStageMissed
PROPERTIES NegationsComplement ParametersAgree
SYMMETRY Symmetry
CHECK_DEADLOCK FALSE
