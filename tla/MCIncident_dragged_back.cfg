CONSTANTS
  MaxIncidents = 1
  Planned = {1}
  Senders = {s1, s2}
  Deliveries = {d1, d2}
  MaxFailures = 0
SPECIFICATION Spec
PROPERTY OnlyValidTransitions
