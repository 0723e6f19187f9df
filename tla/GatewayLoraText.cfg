SPECIFICATION Spec
CONSTANTS
  c1 = c1
  c2 = c2
  c3 = c3
  Conns <- OneConn
  MayClose = {}
  MaxFd = 3
  MaxSlots = 3
  MaxInbox = 1
  Packets <- OneRecord
  JunkFds = {0}
  JunkPollin = {}
  PollMayFail = FALSE
INVARIANTS
  LoraMessagePublished
CHECK_DEADLOCK FALSE
