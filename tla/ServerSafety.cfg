SPECIFICATION Spec
CONSTANTS
  Conns = {c1, c2, c3, c4}
  Fds = {4, 5}
  ListenFd = 3
  EventArg <- EventFd
  ListenNonblock = TRUE
  Faults = {"accept", "setup", "signal"}
  AppUses = {"close_self", "close_other", "stop"}
  MaxClients = 3
  MaxEvents = 2
  MaxInbox = 1
  NoConn = NoConn
  NoNode = NoNode
SYMMETRY ConnSymmetry
INVARIANTS
  TypeOK
  HandleOwnsFd
  HandleAlive
  NoMisdelivery
  OpenIsManaged
  NoLostEdge
  CountExplained
PROPERTIES
  FreedAfterNotice
  NotifiedOnce
CHECK_DEADLOCK FALSE
