SPECIFICATION Spec
CONSTANTS
  Circuit = {"register", "transfer", "disclose_recipient"}
  Slot = {k1, k2, k3}
SYMMETRY Symmetry
INVARIANTS
  NoWorkerIsLost
  DestroyedIsUncached
CHECK_DEADLOCK FALSE
