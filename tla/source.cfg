SPECIFICATION FairSpec
CONSTANTS
  Configurations = {TRUE, FALSE}
  IndexerKeepsUp = TRUE
  FromLedger = 2
  PageLimit = 2
  ScanWindow = 3
  Margin = 1
  Retention = 2
  PerLedger = {0, 1, 2, 3}
  MaxEvents = 4
  MaxLedger = 7
INVARIANTS
  TypeOK
  FeedIsContiguous
  CursorMatchesFeed
PROPERTIES
  ImplementsFeed
  FeedCatchesUp
CHECK_DEADLOCK FALSE
