SPECIFICATION MCSpec
CONSTANTS
  Instances = {i1, i2}
  Roles = {r1, r2}
  MaxChanges = 2
  MaxFills = 1
  First = i1
  None = None
  Watched = {r1}
INVARIANTS StaleAccountedFor
PROPERTY StaleEnds

