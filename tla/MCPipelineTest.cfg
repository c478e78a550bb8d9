SPECIFICATION Spec
CONSTANTS
  Jobs = {j1}
  MaxCrashes = 0
INVARIANTS
  BuiltHasOutput
