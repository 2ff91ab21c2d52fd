SPECIFICATION FairSpec
CONSTANTS
  Members <- OneUnit
  StartOrder <- OneUnit
  MaxFailures = 2
  EventCap = 1
  MaxEvents = 2
  MaxGroupEvents = 1
INVARIANTS TypeOK NoStartStorm StartingMeansStarted
PROPERTIES SigtermEnds MissingGroupFound
