CONSTANTS
  e1 = e1
  e2 = e2
  e3 = e3
  e4 = e4
  i1 = i1
  i2 = i2
  Events = {e1, e2, e3, e4}
  Incidents = {i1, i2}
  Requests = {r1, r2}
  Foreign = {e3}
  Orphans = {e4}
  incidentOf <- MCIncidentOf
  alertOf <- MCAlertOf
  templates <- MCTemplates
  Padded = {" "}
  Contexts <- MCContexts
  Responses <- MCResponses
  Chunks = {"chunk"}
  Providers = {"openai"}
  Descriptions = {"look at the dashboard", "look at deployments", "roll back", "triage manually"}
  NO_STEPS_ACTION = "triage manually"
  None = None
  MaxAborts = 1
  MaxVanish = 1
SPECIFICATION FairSpec
INVARIANTS
  RowsTruthful
PROPERTIES
  KeepsPromise
  EventuallyAnswered
