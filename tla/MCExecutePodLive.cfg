SPECIFICATION FairSpec
CONSTANTS
  NumContainers = 1
  MaxLines = 1
PROPERTIES
  TerminatedPodReturns
  CancelReturns
