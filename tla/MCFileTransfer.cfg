SPECIFICATION Spec
CONSTANTS
  Requests = {r1, r2, r3}
  Files = {f1}
  Size = 2
  None = None
SYMMETRY RequestSymmetry
INVARIANTS
  CreatedIsWhole
  ReadOfOneUpload
PROPERTIES
  StoredForGood
  ReadAfterCreated
