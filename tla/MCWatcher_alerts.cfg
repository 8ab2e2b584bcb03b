CONSTANTS
  e1 = e1
  e2 = e2
  e4 = e4
  e5 = e5
  i1 = i1
  i2 = i2
  Events = {e1, e2, e4, e5}
  Incidents = {i1, i2}
  Requests = {r1, r2}
  Foreign = {e5}
  Orphans = {}
  Fresh = {e1, e4}
  incidentOf <- MCIncidentOf
  alert <- MCAlert
  received <- MCReceived
  openedAt <- MCOpenedAt
  initial <- MCInitial
  rules <- MCRules
  alertNames = {"errors", "latency"}
  Severities <- MCSeverities
  None = None
  MaxAborts = 1
SPECIFICATION FairSpec
INVARIANTS
  DecidedOnce
  EpisodeInvestigated
  BurstEscalates
PROPERTIES
  EventuallyDecided
