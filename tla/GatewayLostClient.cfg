SPECIFICATION Spec
CONSTANTS
  c1 = c1
  c2 = c2
  c3 = c3
  Conns <- TwoConns
  MayClose <- TwoConns
  MaxFd = 4
  MaxSlots = 4
  MaxInbox = 1
  Packets <- OneRecord
  JunkFds = {0}
  JunkPollin = {}
  PollMayFail = FALSE
SYMMETRY ConnSymmetry
INVARIANTS
  AcceptedArePolled
CHECK_DEADLOCK FALSE
