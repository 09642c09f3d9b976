CONSTANTS
  a = a
  b = b
  c = c
  StepIds = {a, b, c}
  Plans <- EscalatingPlans
  NoPlan = NoPlan
  NoStep = NoStep
  NoOutput = NoOutput
  Approved = Approved
  HasApproval = TRUE
  CanReplay = FALSE
  Faults = {}
  MaxResumes = 0
SPECIFICATION Spec
INVARIANTS RejectionIsFinal
CHECK_DEADLOCK FALSE
