SPECIFICATION ClaimSpec
CONSTANTS
  Instances = {i1, i2}
  Roles = {r1, r2}
  Watched = {r1}
  MaxChanges = 2
  MaxFills = 1
  None = None
PROPERTY SweepCatchesUp
