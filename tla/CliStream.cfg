SPECIFICATION Spec
CONSTANTS
  P = 4
  CLEARED = 2
  Lens = {1, 2, 5, 6}
  MaxFrames = 2
  Faults = {"start", "wait", "recv"}
INVARIANTS
  TypeOK
  
PROPERTY EndIsNoticed
CHECK_DEADLOCK FALSE
