SPECIFICATION Spec
CONSTANTS
  Conns = {c1, c2, c3}
  Fds = {4, 5}
  ListenFd = 3
  EventArg <- EventFd
  ListenNonblock = FALSE
  Faults = {}
  AppUses = {}
  MaxClients = 3
  MaxEvents = 3
  MaxInbox = 1
  NoConn = NoConn
  NoNode = NoNode
INVARIANT BacklogAnnounced
CHECK_DEADLOCK FALSE
