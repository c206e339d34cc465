SPECIFICATION FairSpec
CONSTANTS
  Conns = {c1, c2}
  Fds = {4, 5}
  ListenFd = 3
  EventArg <- EventFd
  ListenNonblock = FALSE
  Faults = {"signal"}
  AppUses = {"close_self", "close_other", "stop"}
  MaxClients = 2
  MaxEvents = 3
  MaxInbox = 2
  NoConn = NoConn
  NoNode = NoNode
PROPERTIES
  ConnectionAccepted
  DataRead
  EndReported
  StopFromCallback
CHECK_DEADLOCK FALSE
