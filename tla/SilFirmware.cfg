SPECIFICATION Spec
CONSTANTS
  StepUs = 2
  Period = 3
  HbPeriod = 6
  MaxTime = 12
  MaxSpeed = 2
  WheelMax = 4
  MasterPeriod = 4
INVARIANTS
  OperationalLaw
  Reported
  CommandsArrive
  RobotObeys
PROPERTIES
  ImplementsNode
