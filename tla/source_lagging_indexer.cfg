SPECIFICATION Spec
CONSTANTS
  Configurations = {TRUE}
  IndexerKeepsUp = FALSE
  FromLedger = 2
  PageLimit = 2
  ScanWindow = 3
  Margin = 1
  Retention = 2
  PerLedger = {0, 1}
  MaxEvents = 4
  MaxLedger = 8
INVARIANTS
  SeamLosesNothing
CHECK_DEADLOCK FALSE
