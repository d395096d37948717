SPECIFICATION Spec
CONSTANTS
  k1 = k1
  k2 = k2
  Keys = {k1, k2}
  KeyLists <- MCOneKeyList
  Bursts <- MCBursts
  Rules <- MCRules
  RunTargets = {3, 6}
  StepUs = 2
  Forever = Forever
  MaxMessages = 3
  MaxEcus = 1
  MaxSubs = 1
  MaxFaults = 2
INVARIANTS
  ExactlyOneFate
  OnTime
  FirstActiveRuleDecides
  OvertakenOnlyWhenDelayed
