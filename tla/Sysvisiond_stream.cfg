SPECIFICATION Spec
CONSTANTS
  NUnits = 2
  Subs = {"w"}
  Watched <- WatchFirst
  Queries = {}
  Buffer = 1
  MaxChanges = 1
  Unlistable = {1}
  Failures = FALSE
PROPERTY StreamPromise
CHECK_DEADLOCK FALSE
