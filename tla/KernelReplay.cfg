CONSTANTS
  a = a
  b = b
  c = c
  StepIds = {a, b, c}
  Plans <- JustChain
  NoPlan = NoPlan
  NoStep = NoStep
  NoOutput = NoOutput
  Approved = Approved
  HasApproval = FALSE
  CanReplay = TRUE
  Faults = {}
  MaxResumes = 2
SPECIFICATION Spec
INVARIANTS ReplayAgrees CausalLog
CHECK_DEADLOCK FALSE
