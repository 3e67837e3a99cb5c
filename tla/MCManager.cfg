SPECIFICATION FairSpec
CONSTANTS
  Indexer = "indexer"
  Critical = "chain-event-processor"
  Others = {"api", "other"}
  BootOrder <- MCBootOrder
  Unknown = {"other"}
  RestartThreshold = 2
  RestartTimeWindow = 2
  MaxClock = 2
  MaxDeaths = 2
  MaxPanics = 2
  MaxRequests = 4
  MaxCommands = 2
INVARIANTS
  TypeOK
  BreakerTrips
  OnlyFailuresDisconnect
PROPERTIES
  RequestHeals
CHECK_DEADLOCK FALSE
