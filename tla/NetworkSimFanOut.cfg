SPECIFICATION FairSpec
CONSTANTS
  k1 = k1
  k2 = k2
  Keys = {k1, k2}
  KeyLists <- MCKeyLists
  Bursts <- MCFanOutBursts
  Rules <- MCDelayRule
  RunTargets = {1, 4}
  StepUs = 2
  Forever = Forever
  MaxMessages = 2
  MaxEcus = 2
  MaxSubs = 2
  MaxFaults = 1
INVARIANTS
  TypeOK
  FanOut
  BroadcastOrder
  RunStopsAtTarget
PROPERTIES
  RunReturns
