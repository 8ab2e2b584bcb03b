CONSTANTS
  Runbooks = {1, 2}
  Versions = {1, 2, 3, 4, 5}
  canonical <- MCCanonical
  sections <- MCSections
  services <- MCServices
  Broken = {5}
  Oversized = {}
  Absent = Absent
  drafts <- MCDrafts
  Dims = 1536
  OtherDims = 768
  Reverts = FALSE
  SilentDeletes = TRUE
  MaxFailures = 1
  Services = {"orders"}
  LegSize = 2
  Limit = 1
SPECIFICATION FairSpec
INVARIANTS
  CompletedRunCovers
  AlwaysCovered
  HonestEmpty
PROPERTIES
  EventuallyInStep
CHECK_DEADLOCK FALSE
