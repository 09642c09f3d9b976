SPECIFICATION FairSpec
CONSTANTS
  q1 = q1
  q2 = q2
  Executors = {q1, q2}
  Sources = {"counts", "ranks"}
  Parts <- MCParts
  Requests <- MCRequests
  HasDisk = TRUE
  MemorySize = 1
  MaxCrashes = 1
INVARIANTS TypeOK TornOnlyByAccident
PROPERTIES WholeFileStays CommandEnds
