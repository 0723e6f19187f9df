SPECIFICATION SessionSpec
CONSTANTS
  Version = 4
  cleansession = FALSE
  persistent = TRUE
  maxInflightMessages = 2
  MAX_MSG_ID = 5
  MaxMessages = 2
  Qualities = {0, 1, 2}
  MaxFaults = 1
  MaxPings = 1
  MaxMishaps = 1
INVARIANTS
  OutboundOrdered ExactlyOnce StoreAgrees ReceivedOnce
PROPERTY
  SessionDelivers
CHECK_DEADLOCK FALSE
