SPECIFICATION PahoSpec
CONSTANTS
  MaxAttempts = 1
  MaxWaitsCut = 1
  MaxSocket = 2
  Radix = 2
  Stride = 100
  MAX_NO_OF_REMAINING_LENGTH_BYTES = 4
  InPackets <- Received
  OutPackets <- Written
  SendRoom = 2
INVARIANTS
  ConnectionSound
  PacketsKept
PROPERTIES
  ConnectReturns StreamGoesOn
CHECK_DEADLOCK FALSE
