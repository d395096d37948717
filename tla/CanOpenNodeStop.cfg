SPECIFICATION Spec
CONSTANTS
  StepUs = 2
  TpdoPeriod = 3
  HbPeriod = 6
  MaxTime = 20
INVARIANTS
  OpenOnlyOperational
