SPECIFICATION MCSpec
CONSTANTS
  Void = Void
  Units = {"u", "v"}
  Groups = {"g"}
  Wants <- UnitWants
  Members <- GroupMembers
  Rank <- GroupRank
  Legacy = {"u"}
  Commands = {1, 2}
  MaxCommands = 2
  MaxFaults = 1
  N = 3
  Target = 1
  External = {3}
  Oneshot = {2}
  MaxEdges = 3
  StartFaults = 1
  Pids = {1, 2, 3}
  Owner = 2
  MaxReuse = 1
  MaxEdits = 3
  ConfigCommands = 4
  ConfigFaults = 2
  MaxStarts = 3
  MaxRounds = 2
  Holders = {1}
  Snapshots <- SeenSnapshots
  MaxChanges = 1
  MaxBad = 1
  TargetNames = {"a", "b", "c"}
  Services = {"s"}
  Sections <- GroupSections
  DefEdits = 3
INVARIANTS
     AdminContentKept 
  StatusSound DefinitionsSound
CHECK_DEADLOCK FALSE
