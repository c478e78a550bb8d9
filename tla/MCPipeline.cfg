SPECIFICATION FairSpec
CONSTANTS
  Jobs = {j1}
  MaxCrashes = 2
INVARIANTS
  SuccessIsWhole
  SuccessLeavesNothing
  AwaitedPodIsKnown
PROPERTIES
  RemovedForGood
  CommandsEnd
