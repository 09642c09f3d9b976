SPECIFICATION Spec
CONSTANTS
  MaxIterations = 2
  MaxTools = 0
  Capacity = 2
  MaxRuns = 2
  Examples <- MCExamples
  Nothing <- MCNothing
INVARIANTS TypeOK ResultShown HistoryShown
PROPERTIES RunEnds TaskEnds
CHECK_DEADLOCK FALSE
