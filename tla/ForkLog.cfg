SPECIFICATION Spec
CONSTANTS
  Threads = {t1}
  MaxChildren = 2
  Free = Free
  SetLevels = {4}
  MaxLines = 1
  MaxAdmin = 2
  MaxClients = 2
  Faults = {"accept", "fork"}
INVARIANTS
  TypeOK
  OnlyExitTears
  ClientsApart
  HungOffListener
PROPERTY PeerSeesEnd
CHECK_DEADLOCK FALSE
