SPECIFICATION Spec
CONSTANTS
  c1 = c1
  c2 = c2
  c3 = c3
  Conns <- ThreeConns
  MayClose <- ThreeConns
  MaxFd = 3
  MaxSlots = 5
  MaxInbox = 1
  Packets <- OneRecord
  JunkFds = {1, 2}
  JunkPollin = {0, 1, 2, 3, 4}
  PollMayFail = TRUE
SYMMETRY ConnSymmetry
INVARIANTS
  TypeOK
  PollArraySound
  ListenerOpen
CHECK_DEADLOCK FALSE
