CONSTANTS
  Events = {e1}
  Tokened = {e1}
  Workers = {w1, w2}
  Admins = {a1, a2}
  None = None
  BatchSize = 1
  MaxAttempts = 2
  PatientReaper = FALSE
  MaxHalts = 1
  MaxRequeues = 2
SPECIFICATION FairSpec
INVARIANTS
  NoEventLost
  DeadLetterAudited
PROPERTIES
  EventuallySettled
CHECK_DEADLOCK FALSE
