SPECIFICATION Spec
CONSTANTS
  Requests = {r1, r2}
  MaxSessions = 1
  MaxId = 4
  ConflictTokens = {}
  TwoFactorTokens = {}
  NoToken = NoToken
CHECK_DEADLOCK FALSE
SYMMETRY Symmetry
INVARIANTS
  OneRowPerLogin
  StatusEndsSessions
PROPERTY RevokedLoginStaysDead
