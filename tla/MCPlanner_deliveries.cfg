CONSTANTS
  e1 = e1
  e2 = e2
  e3 = e3
  e4 = e4
  i1 = i1
  i2 = i2
  Events = {e1, e2, e3, e4}
  Incidents = {i1, i2}
  Requests = {r1, r2}
  Foreign = {e3}
  Orphans = {e4}
  incidentOf <- MCIncidentOf
  None = None
  MaxAborts = 2
SPECIFICATION FairSpec
INVARIANTS
  EveryDecisionAudited
PROPERTIES
  KeepsPromise
  EventuallyAnswered
