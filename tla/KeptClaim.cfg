SPECIFICATION ClaimSpec
CONSTANTS
  Requests = {r1, r2}
  MaxSessions = 2
  MaxId = 3
  ConflictTokens = {}
  TwoFactorTokens = {}
  NoToken = NoToken
CHECK_DEADLOCK FALSE
PROPERTY KeptSessionStays
