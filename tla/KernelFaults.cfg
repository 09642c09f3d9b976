CONSTANTS
  a = a
  b = b
  c = c
  StepIds = {a, b, c}
  Plans <- EscalatingPlans
  NoPlan = NoPlan
  NoStep = NoStep
  NoOutput = NoOutput
  Approved = Approved
  HasApproval = TRUE
  CanReplay = FALSE
  Faults = {"save_error", "torn_write"}
  MaxResumes = 2
SPECIFICATION Spec
INVARIANTS AttemptsUsedUp CheckpointResumable
PROPERTIES CommittedStaysDone
CHECK_DEADLOCK FALSE
