SPECIFICATION FairSpec
CONSTANTS
  Keys = {k1, k2}
  Host = k1
  HostPollUs = 2
  Waits = {1}
  HostMaxNow = 5
  MaxMessages = 3
  MaxResets = 1
  PollUs = 3
  StepUs = 2
  Period = 4
  Durations = {0, 7}
  MaxNow = 8
  MaxDevice = 2
INVARIANTS
  EveryMessageInOnePlace
  ReachedInTurn
  EveryFrameOnce
  Paced
  NewestOnceDrained
PROPERTIES
  CallReturns
CHECK_DEADLOCK FALSE
