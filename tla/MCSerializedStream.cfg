SPECIFICATION FairSpec
CONSTANTS
  Loggers = {g1, g2, g3}
  MaxLogs = 2
  Nobody = Nobody
INVARIANTS
  MessagesWhole
PROPERTIES
  LogReturns
