SPECIFICATION Spec
CONSTANTS
  Threads = {t1}
  TopicLens = {0, 1, 2}
  PayloadLens = {2, 3, 7, 9, 10}
  Faults = {"socket", "connect", "calloc"}
  PAYLOAD_MAX = 3
  TOPIC_KEPT = 1
  UINT16_MAX = 2
  SocketRoom = 4
  MaxCalls = 2
  MaxConfigs = 2
  Hosts <- LongHosts
  Ports = {2}
  ADDRSTRLEN = 2
  BYTE = 4
INVARIANTS
  TypeOK
  ChunkOffset
  OnlyBoundaryLost
  InOrder
CHECK_DEADLOCK FALSE
