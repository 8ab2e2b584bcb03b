CONSTANTS
  Workers = {w1}
  DispatchTimeout <- MCDispatchTimeout
  HttpxReads <- BothClients
  KnowledgeBudget <- MCKnowledgeBudget
  LLMBudget <- MCLLMBudget
  OwnWork <- MCOwnWork
  ReaperAge <- MCReaperAge
  Idle = Idle
SPECIFICATION FairBudgetSpec
INVARIANTS
  OneCallWhenOrdered
  AtMostThreeCalls
PROPERTIES
  EventuallyDelivered
