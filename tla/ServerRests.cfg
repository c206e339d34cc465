SPECIFICATION FairSpec
CONSTANTS
  Conns = {c1}
  Fds = {4, 5}
  ListenFd = 3
  EventArg <- EventFd
  ListenNonblock = FALSE
  Faults = {}
  AppUses = {}
  MaxClients = 2
  MaxEvents = 3
  MaxInbox = 1
  NoConn = NoConn
  NoNode = NoNode
PROPERTY AcceptEnds
CHECK_DEADLOCK FALSE
