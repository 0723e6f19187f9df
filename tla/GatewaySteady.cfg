SPECIFICATION Spec
CONSTANTS
  c1 = c1
  c2 = c2
  c3 = c3
  Conns <- ThreeConns
  MayClose = {}
  MaxFd = 4
  MaxSlots = 5
  MaxInbox = 1
  Packets <- TwoRecords
  JunkFds = {0}
  JunkPollin = {}
  PollMayFail = FALSE
INVARIANTS
  AcceptedArePolled
PROPERTIES
  RecordsRead
