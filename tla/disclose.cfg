SPECIFICATION Spec
CONSTANTS
  Account = {alice, bob}
  Token = {t0, t1}
  Amounts = {a, b}
  HasIndexer = TRUE
  ResolveLimit = 1
  MaxPerLedger = 2
  MaxLedger = 2
  MaxEvents = 2
  MaxRequests = 2
  MaxBundles = 1
INVARIANTS
  TypeOK
  ResultIsTrue
  AnsweredByParty
  WhatVerifiesOpens
PROPERTIES
  HonestBundlesPass
  NotFoundMeansGone
SYMMETRY Symmetry
CHECK_DEADLOCK FALSE
