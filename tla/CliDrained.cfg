SPECIFICATION Spec
CONSTANTS
  P = 4
  CLEARED = 2
  Lens = {3}
  MaxFrames = 2
  Faults = {}
INVARIANT LeavesOnEnd
CHECK_DEADLOCK FALSE
