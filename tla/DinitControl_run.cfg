SPECIFICATION Spec
CONSTANTS
  Callers = {"p"}
  Requests <- MCRequests
  EventCap = 1
  MaxFaults = 1
INVARIANTS ConnectionSound OutcomesTrue
CHECK_DEADLOCK FALSE
PROPERTY Converges
