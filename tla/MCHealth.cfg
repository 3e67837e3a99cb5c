CONSTANTS
  MaxFailures = 2
  AlertCooldown = 1
  HeightStagnationLimit = 2
  NodeHeights = {0, 1, 2}
  MaxActorRestarts = 1
  RestartDelay = 1
  MaxClock = 5
  MaxChecks = 5
SPECIFICATION Spec
INVARIANTS
  TypeOK
  AlertsJustified
  CriticalAlerted
  AlertsSpaced
CHECK_DEADLOCK FALSE
