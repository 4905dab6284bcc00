SPECIFICATION Spec
CONSTANTS
  t1 = t1
  t2 = t2
  device1 = device1
  bob = bob
  Owner = alice
  StartAccount <- FundedAccount
  Peers = {}
  PeerOps = {}
  Amounts = {1}
  Sigma <- MCSigma
  NoSigma = NoSigma
  DeriveSpendR <- MCDeriveSpendR
  DeriveTxBlind <- MCDeriveTxBlind
  GroupOrder <- MCGroupOrder
  MaxLog = 2
  Session = {t1, t2}
  Profile = {device1}
  ProfileOf <- TwoTabs
  NoSession = NoSession
  MaxPool = 1
  Crashes = FALSE
SYMMETRY Symmetry
PROPERTIES
  SyncReconciles
CHECK_DEADLOCK FALSE
