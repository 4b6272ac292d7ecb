\* A policy without a delay.
CONSTANTS
  WordMax = 15
  PerMillisecond = 2
  Timeouts = {1}
  Delays = {0}
  MaxAttempts = 3
  MaxNow = 4
SPECIFICATION Spec
PROPERTY DeadlineIsFinal
