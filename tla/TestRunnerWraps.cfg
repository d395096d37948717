SPECIFICATION Spec
CONSTANTS
  on = on
  off = off
  Garbled = garbled
  None = None
  Values = {on, off, garbled}
  Suites <- WrapSuites
  PollUs = 3
  StepUs = 2
  UsPerMs = 10
  UsPerS = 100
  Top = 1000
INVARIANTS
  DropHolds
