CONSTANTS
  Requests = {r1, r2}
  Modes <- LLMMode
  Bindings <- MCBindings
  Primary <- MCPrimary
  Fallback <- MCFallback
  None = None
  Threshold = 2
  Attempts = 2
  modes <- MCModes
  fallback <- MCFallbacks
  keys <- MCKeys
  tokens <- MCTokens
  vendor <- MCVendor
  Asks <- MCAsks
  Failures <- MCFailures
  MaxEvents = 2
SPECIFICATION FairGatewaySpec
INVARIANTS
  OpensAtThreshold
  OneTrialPerOpening
  RecordedOnce
  TruncationExplained
PROPERTIES
  FailurePolicy
  ClosesAgain
  EveryRequestEnds
