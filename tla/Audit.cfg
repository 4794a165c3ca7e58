CONSTANTS
  BatchSize = 2
  MaxBuffer = 3
  MaxRetries = 2
  MaxLogged = 5
  MaxUnknown = 1
SPECIFICATION FairSpec
INVARIANTS TableInOrder Conservation DuplicatesOnlyUnconfirmed
PROPERTIES ImplementsAuditLog OverflowDropsOldest EveryEntryEnds
CHECK_DEADLOCK FALSE
