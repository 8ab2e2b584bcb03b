CONSTANTS
  Events = {e1, e2}
  Tokened = {e1}
  Workers = {w1, w2}
  Admins = {a1}
  None = None
  BatchSize = 2
  MaxAttempts = 3
  PatientReaper = TRUE
  MaxHalts = 1
  MaxRequeues = 1
SPECIFICATION FairSpec
INVARIANTS
  ExclusiveOwner
  AttemptsBelowLimit
PROPERTIES
  KeepsPromiseFairly
CHECK_DEADLOCK FALSE
