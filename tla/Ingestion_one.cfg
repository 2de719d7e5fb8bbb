\* One process that crashes and recovers, and an item that may come in through
\* the offline queue.
SPECIFICATION FairSpec
CONSTANTS
  Replica = {p1}
  Item = {i1}
  Unit <- SameUnit
  Offline = {i1}
  MaxRetries = 1
  MaxQueue = 2
  Workers = 1
  MaxCrashes = 2
INVARIANTS NoJobStranded CompletedAccounted SyncedAccounted
PROPERTIES JobsEnd
CHECK_DEADLOCK FALSE
