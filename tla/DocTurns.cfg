SPECIFICATION Spec
CONSTANTS
  Pooled <- MCPooled
  Callers = {c1, c2}
  Strategies = {"round_robin"}
  Latencies = {1}
  Wrap = 3
  MaxCalls = 3
  c1 = c1
  c2 = c2
PROPERTIES TakesTurns
