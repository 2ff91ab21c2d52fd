SPECIFICATION Spec
CONSTANTS
  Helpers = {"a", "b"}
  MaxJobs = 2
  MaxFaults = 1
INVARIANT JobsSound
PROPERTY RequestsAnswered
CHECK_DEADLOCK FALSE
