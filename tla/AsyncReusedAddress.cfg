SPECIFICATION AsyncSpec
CONSTANTS
  AsyncClean = FALSE
  ServerURIcount = 1
  MaxBuffered = 3
  Kinds = {"pub1", "pub0", "sub"}
  MaxCalls = 3
  MaxTurns = 1
  MaxTrouble = 2
INVARIANTS
  EachCallTold
CHECK_DEADLOCK FALSE
