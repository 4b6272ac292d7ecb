CONSTANTS
  Resources = {r1, r2}
  None = None
  MaxFence = 3
  MaxGeneration = 1
SPECIFICATION Spec
INVARIANT WaitMeansComplete
CHECK_DEADLOCK FALSE
