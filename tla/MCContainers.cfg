SPECIFICATION Spec
INVARIANTS
  DetectedIsBuildable
  ExternalNotRun
  ReleaseIsComplete
  BuiltProgramStarts
  StartsWhatWasBuilt
  GoModeFits
