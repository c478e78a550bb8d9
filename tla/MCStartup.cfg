SPECIFICATION Spec
CONSTANTS
  Pods = {p1, p2}
  MaxStarts = 3
INVARIANTS
  OwnPodsServed
  OldPodsCutOff
