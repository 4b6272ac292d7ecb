\* Two timers, of which one may close the other in its callback.
CONSTANTS
  Timers = {r1, r2}
  Waits = {w1}
  Copies = {c1}
  None = None
SPECIFICATION NodeSpec
PROPERTIES
  ClosedIsQuiet
