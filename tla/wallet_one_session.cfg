SPECIFICATION FairSpec
CONSTANTS
  t1 = t1
  t2 = t2
  device1 = device1
  bob = bob
  Owner = alice
  StartAccount <- NewAccount
  Peers = {bob}
  PeerOps = {"merge", "transfer"}
  Amounts = {1}
  Sigma <- MCSigma
  NoSigma = NoSigma
  DeriveSpendR <- MCDeriveSpendR
  DeriveTxBlind <- MCDeriveTxBlind
  GroupOrder <- MCGroupOrder
  MaxLog = 4
  Session = {t1}
  Profile = {device1}
  ProfileOf <- OneSession
  NoSession = NoSession
  MaxPool = 2
  Crashes = TRUE
INVARIANTS
  TypeOK
  CreditsAppliedOnce
  LogIsReplayable
  SpendableIsOnHistory
  WitnessIsGrounded
PROPERTIES
  MismatchIsExplained
  SyncReconciles
  ImplementsReplica
  StoresConverge
CHECK_DEADLOCK FALSE
