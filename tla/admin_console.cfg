SPECIFICATION Spec
CONSTANTS
  Account = {alice, bob}
  Kind = {"vanilla", "compliance"}
  Starts <- MCStarts
  NoAccount = NoAccount
  MaxTokens = 3
  MaxEvents = 2
  MaxLedger = 2
  Slot = {c1, c2}
SYMMETRY Symmetry
INVARIANTS
  TypeOK
  ListsMatchStorage
  OnlyOwnerActs
PROPERTIES
  OwnActionIsListed
CHECK_DEADLOCK FALSE
