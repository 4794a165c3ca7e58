SPECIFICATION KeySpec
CONSTANTS
  Processes = {p, q}
  TTL = 2
  Delay = 1
  Horizon = 6
  MaxReads = 1
  Absent = Absent
INVARIANTS StalenessBounded CleanDelIsFinal
CHECK_DEADLOCK FALSE
