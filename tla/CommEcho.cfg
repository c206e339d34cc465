SPECIFICATION Spec
CONSTANTS
  Bytes = {"q", "t", "0"}
  BUFFER_SIZE = 4
  PREFIX = 2
  SPARE = 3
  MaxBytes = 5
INVARIANTS
  TypeOK
  EchoesAll
PROPERTY SessionEnds
CHECK_DEADLOCK FALSE
