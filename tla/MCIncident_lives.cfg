CONSTANTS
  MaxIncidents = 3
  Planned = {1}
  Senders = {s1, s2}
  Deliveries = {d1, d2}
  MaxFailures = 1
SPECIFICATION FairSpec
INVARIANTS
  DuplicatesBounded
  CardsExplained
PROPERTIES
  FinalOnceTold
  EventuallyTold
