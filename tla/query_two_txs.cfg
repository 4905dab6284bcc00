SPECIFICATION Spec
CONSTANTS
  FirstLedger = 8
  LastLedger = 11
  WideLedger = 100
  Hashes = {1, 2}
  TxPerLedger = 2
  PerTx = 2
  MaxEvents = 5
  StartLedger = 9
  EndLedger = 10
  PageLimit = 2
INVARIANTS
  DeliversChainOrder
CHECK_DEADLOCK FALSE
