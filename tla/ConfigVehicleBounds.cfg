SPECIFICATION Spec
CONSTANTS
  Files <- MCFiles
  Vehicles <- MCVehicles
  Registered <- MCRegistered
  Requests <- MCRequests
  StepUs = 2
  MaxTime = 8
INVARIANTS
  OutOfBoundsIsAnError
CHECK_DEADLOCK FALSE
