SPECIFICATION Spec
CONSTANTS
  Paths <- FivePaths
INVARIANTS
  Reproduced
