SPECIFICATION Spec
CONSTANTS
  Units = {"u", "v"}
  Groups = {"g"}
  Wants <- MCWants
  Members <- MCMembers
  Rank <- MCRank
  Legacy = {}
  Commands = {1}
  MaxCommands = 3
  MaxFaults = 0
INVARIANT EnablementRealised
CHECK_DEADLOCK FALSE
