CONSTANTS
  Calls = {c1, c2, c3}
  Conversations = {v1, v2}
  MaxTime = 5
  DayLength = 3
  Window = 2
  MaxRequests = 2
  DailyLimit = 1
  MaxCost = 2
  PackageRevisions = {1, 2}
  ContentOf <- TheContent
  TurnLimit = 2
SPECIFICATION AllSpec
CONSTRAINT OneAssistant
SYMMETRY Interchangeable
CHECK_DEADLOCK FALSE
INVARIANTS BudgetHolds PackageBudgetHolds IndexMatchesContent
