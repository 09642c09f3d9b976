SPECIFICATION Spec
CONSTANTS
  q1 = q1
  q2 = q2
  Executors = {q1, q2}
  Sources = {"counts", "ranks"}
  Parts <- MCParts
  Requests <- MCRequests
  HasDisk = TRUE
  MemorySize = 1
  MaxCrashes = 0
PROPERTIES CliTimesOut
