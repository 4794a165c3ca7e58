SPECIFICATION MCSpec
CONSTANTS
  First = a1
  Second = a2
  Third = u
  Users = {a1, a2, u}
  Actors = {a1, a2}
  Roles = {"Owner", "Admin", "Custom"}
  Choices <- MCChoices
  GrantSets <- MCGrantSets
  MaxChanges = 3
  None = None
  TierLimit <- MCTierLimit
  TierTtl <- MCTierTtl
  SampleRequests <- MCSampleRequests
INVARIANTS RolesDescend DeletedHeldAccountedFor ScopeAnswersAgree
PROPERTIES LessThanTwiceTheLimit MoreRolesOpenMore
