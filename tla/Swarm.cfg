CONSTANTS
  router = router
  writer = writer
  desk = desk
  Agents = {router, writer, desk}
  HandsOverTo <- MCHandsOverTo
  DelegatesTo <- MCDelegatesTo
  PlanCritics = {router}
  HasCritic = TRUE
  MaxTurns = 2
  MinSubTurns = 1
  MaxTransfers = 2
  SubMaxTransfers = 1
  MaxGlobal = 3
  MaxDepth = 2
  MaxRetries = 1
  Budgets = {2}
  MaxCost = 1
  MaxCalls = 2
SPECIFICATION FairSpec
INVARIANTS TypeOK HandoffsBounded BudgetHolds TransfersAccounted 
PROPERTIES SessionTerminates
CHECK_DEADLOCK FALSE
