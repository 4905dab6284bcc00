SPECIFICATION Spec
CONSTANTS
  Deployment = {d1, d2}
  MaxEvents = 1
  MaxWallets = 2
INVARIANTS
  TypeOK
  OwnViewUnlessError
  PanelIsOfWallet
PROPERTIES
  ListsNeverGoBack
CHECK_DEADLOCK FALSE
