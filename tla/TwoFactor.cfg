SPECIFICATION MCSpec
CONSTANTS
  Requests = {q1, q2}
  MaxAttempts = 2
  MaxBegun = 8
  MaxMixed = 6
  MaxFailures = 1
  None = None
INVARIANTS FactorProved LeftoversAccountedFor LockoutFollows
PROPERTIES EnforcedFactorStays BackupCodesOnce
CHECK_DEADLOCK FALSE
