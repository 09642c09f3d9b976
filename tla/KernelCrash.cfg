CONSTANTS
  a = a
  b = b
  c = c
  StepIds = {a, b, c}
  Plans <- AllPlans
  NoPlan = NoPlan
  NoStep = NoStep
  NoOutput = NoOutput
  Approved = Approved
  HasApproval = FALSE
  CanReplay = FALSE
  Faults = {}
  MaxResumes = 2
SPECIFICATION FairSpec
INVARIANTS TypeOK CausalLog ConsistentInputs BoundedDuplication NothingLeftBehind
PROPERTIES AbortHolds Termination
CHECK_DEADLOCK FALSE
