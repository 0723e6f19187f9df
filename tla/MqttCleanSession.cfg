\* The gateway's own options (mqtt_client.c): a clean session, no store, QoS 1,
\* and reliable, that is one message under way.
SPECIFICATION SessionSpec
CONSTANTS
  Version = 4
  cleansession = TRUE
  persistent = FALSE
  maxInflightMessages = 1
  MAX_MSG_ID = 5
  MaxMessages = 2
  Qualities = {1}
  MaxFaults = 1
  MaxPings = 1
  MaxMishaps = 0
INVARIANT AcceptedKept
CHECK_DEADLOCK FALSE
