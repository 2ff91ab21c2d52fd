SPECIFICATION Spec
CONSTANTS
  Void = Void
  NLines = 5
  QueueSize = 1
  MaxLines = 2
  Rotations = 1
  LogFaults = 2
  Conns = {"a", "b", "c"}
  UidOf <- User1Or2
  MaxTotal = 2
  MaxPerUid = 1
  Services = {"u"}
  Clients = {"c"}
  Streams = {"w"}
  Cap = 1
  MaxChanges = 2
  ApiFaults = 1
  Callers = {"a", "b", "c"}
  MaxPolls = 1
  MaxDinits = 3
  UserFaults = 1
INVARIANTS LogdSound ApiSound UserSound
 
CHECK_DEADLOCK FALSE
