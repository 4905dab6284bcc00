SPECIFICATION Spec
CONSTANTS
  FirstLedger = 8
  LastLedger = 11
  WideLedger = 10
  Hashes = {1, 2}
  TxPerLedger = 2
  PerTx = 2
  MaxEvents = 5
  StartLedger = 9
  EndLedger = 10
  PageLimit = 2
INVARIANTS
  TypeOK
  NothingTwice
  NothingMissed
  NothingOutOfRange
  TransactionsInOrder
CHECK_DEADLOCK FALSE
