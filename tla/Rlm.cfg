SPECIFICATION Spec
CONSTANTS
  None = "none"
  Durations = {1}
  MaxIterations = 2
  MaxSubCalls = 2
  MaxDepth = 2
  Delegation = TRUE
  NestedLimits = {0, 2}
  ChunkCounts = {2, 3}
  Batches <- MCBatches
  Installations <- MCInstallations
  MaxTools = 9
INVARIANTS TypeOK BudgetKept WorkBounded ResultAccounts
PROPERTIES Terminates RefinesProgress
