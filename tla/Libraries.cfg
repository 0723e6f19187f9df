SPECIFICATION LibrariesSpec
CONSTANTS
  Configs <- AllConfigs
  ResetBytes = {0, 255}
  PipeAddresses = {"A"}
  NoAddress = "zero"
  MaxPayloads = 2
  FIFO = 1
  MaxResets = 1
  Channels = {76, 200}
  Levels = {0, 9}
  PayloadSizes = {2, 3}
  BufferSizes = {0, 1, 2, 4}
  MaxPayloadsSent = 2
  MaxFrame = 4
  CallPins = {10, 16, 32}
  PinModes = {7}
  MaxCalls = 3
  LowRange = 3
  MaxTime = 9
  SpiLengths = {1, 3, 5}
  SpiFifo = 2
  MaxTransfers = 2
  Speeds = {30518, 3000000, 200000000}
  I2cLengths = {1, 2, 3}
  BscFifo = 2
  MaxI2cCalls = 2
  IrqPins = {17, 27}
  MaxEdges = 2
  absent = absent
  MaxMixed = 2
  MaxFiller = 11
  MaxText = 4
  Frames <- ServerFrames
  DataLengths = {0, 119, 120, 123, 124, 65527, 65528, 65531, 65532}
  MaxUpgrades = 2
  SslSockets = {3, 4}
  SslPackets <- ServerPackets
  MaxSessions = 2
  MaxWritten = 1
  verifyName = TRUE
  Addresses = {1, 2, 3, 4, 5}
  Requests = {1, 17}
  MaxFailures = 1
  Elements = {1, 2, 3, 4}
  Contents = {1, 2, 3, 4}
  SameItem <- SameParity
  Ids = {1}
  MaxCrashes = 2
  MaxErrors = 2
  max_trace_entries = 3
  max_lines_per_file = 2
  LogLevels = {2, 3, 5}
  MaxEntries = 4
  PubIds = {1, 2}
  PubVersions = {4, 5}
  MaxPubs = 3
  MaxArrivals = 4
  MaxDowns = 2
  MaxPutErrors = 1
  MaxConnects = 2
  RetryIntervals <- Intervals
  MaxUris = 2
  FdRange = {4, 5, 6}
  SetSize = 2
  MaxOpened = 4
\* Every library may stop being called, so a behaviour may end.
CHECK_DEADLOCK FALSE
INVARIANTS
  ModemProgrammed RadioChipSound PinsServed BusesCarry PacketsMean  ContainersSound
  StoresKept ClientOwns
