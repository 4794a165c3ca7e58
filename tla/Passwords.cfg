SPECIFICATION MCSpec
CONSTANTS
  PasswordSet = {p0, p1, p2}
  First = p0
  Requests = {q1, q2}
  Rows = {s1, s2}
  MaxAttempts = 3
  MaxBegun = 12
  MaxMixed = 6
  MaxFailures = 1
  None = None
INVARIANTS GuessesBounded SessionsAccountedFor RotationRemembers SuspensionEndsPassword
CHECK_DEADLOCK FALSE
