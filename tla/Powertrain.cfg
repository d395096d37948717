SPECIFICATION Spec
CONSTANTS
  StepUs = 2
  ChargerPeriod = 3
  VcuPeriod = 2
  MotorPeriod = 2
  ChargerLimit = 3
  VcuLimit = 2
  Droppable = {"status"}
  None = None
  Unread = Unread
  MaxTime = 14
INVARIANTS
  MotorStopsInTime
  MotorResumesInTime
  ChargerFaultNeverAlone
