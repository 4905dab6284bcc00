SPECIFICATION Spec
CONSTANTS
  alice = alice
  bob = bob
  Account <- Accounts
  AuditorId = {0, 1}
  Key = {k0, k1}
  MyKey = k0
  Rotating = {1}
  Garbage = 1000
  WholeHistory = FALSE
  Amounts = {1}
  MaxLog = 5
INVARIANTS
  TypeOK
  ViewIsExact
  NeverOverstates
  ExactOnceSettled
  CreditsAreReal
SYMMETRY Symmetry
CHECK_DEADLOCK FALSE
