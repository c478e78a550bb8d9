SPECIFICATION Spec
CONSTANTS
  NumContainers = 2
  MaxLines = 1
INVARIANTS
  TypeOK
  ResultMatchesPod
  NoSilentLogLoss
  NoDuplicateLines
  NoLateSender
  BuildPodReclaimed
PROPERTIES
  KeepsPromise
