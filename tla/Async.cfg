SPECIFICATION AsyncSpec
CONSTANTS
  AsyncClean = FALSE
  ServerURIcount = 2
  MaxBuffered = 2
  Kinds = {"pub1", "pub0", "sub"}
  MaxCalls = 2
  MaxTurns = 2
  MaxTrouble = 1
INVARIANTS
  AsyncToldOnce AsyncDelivers
PROPERTIES
  AsyncCompletes
CHECK_DEADLOCK FALSE
