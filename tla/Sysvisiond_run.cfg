SPECIFICATION FairSpec
CONSTANTS
  NUnits = 1
  Subs = {}
  Watched <- WatchAll
  Queries = {"q"}
  Buffer = 1
  MaxChanges = 2
  Unlistable = {1}
  Failures = TRUE
INVARIANTS TypeOK GenerationOrder SnapshotNotBehind 
PROPERTY Converges
CHECK_DEADLOCK FALSE
