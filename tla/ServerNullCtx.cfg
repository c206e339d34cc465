SPECIFICATION FairSpec
CONSTANTS
  Conns = {c1, c2}
  Fds = {4, 5}
  ListenFd = 3
  EventArg <- EventNull
  ListenNonblock = FALSE
  Faults = {}
  AppUses = {}
  MaxClients = 2
  MaxEvents = 3
  MaxInbox = 1
  NoConn = NoConn
  NoNode = NoNode
PROPERTY ConnectionAccepted
CHECK_DEADLOCK FALSE
