SPECIFICATION FairSpec
CONSTANTS
  Calls = {r1, r2}
  MaxCrashes = 1
INVARIANTS
  TypeOK
  SecretReclaimed
  PodKeepsSecret
  AwaitedPodOwnsSecret
  SuccessIsReal
  StartupSparesPods
PROPERTIES
  OwnedSecretKept
  CallsEnd
  StartupEnds
