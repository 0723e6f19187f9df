SPECIFICATION FieldSpec
CONSTANTS
  UartFds = {0, 1, 2}
  UartIds = {97, 5}
  MaxRx = 2
  MaxBusFds = 2
  Browsers = {b1, b2, b3}
  MaxNews = 3
  MaxDrops = 2
  MsgSize = 10
  MaxSlips = 2
  MaxPolls = 4
INVARIANTS
  PortSound MutexNeverStuck
  EveryBrowserServed ValueFromOneFrame
PROPERTIES
  PortRecovers SearchGoesOn CredentialsServe FramerResyncs
CHECK_DEADLOCK FALSE
