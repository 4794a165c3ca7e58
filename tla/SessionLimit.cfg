SPECIFICATION Spec
CONSTANTS
  Requests = {r1, r2}
  MaxSessions = 1
  MaxId = 3
  ConflictTokens = {c1}
  TwoFactorTokens = {t1}
  NoToken = NoToken
CHECK_DEADLOCK FALSE
SYMMETRY Symmetry
INVARIANTS
  OvershootBounded
  TokenYieldsOneLogin
