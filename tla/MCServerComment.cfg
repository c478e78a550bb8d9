SPECIFICATION Spec
CONSTANTS
  Calls = {r1}
  MaxCrashes = 0
INVARIANTS
  DoNothingIfDeleted
