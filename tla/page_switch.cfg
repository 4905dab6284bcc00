SPECIFICATION Spec
CONSTANTS
  Deployment = {d1, d2}
  MaxEvents = 1
  MaxWallets = 1
INVARIANTS
  WalletIsOfActive
CHECK_DEADLOCK FALSE
