\* One display, two extents, and no native call fails.
CONSTANTS
  Displays = {"d1"}
  Extents = {1, 2}
  MaxFailures = 0
SPECIFICATION Spec
INVARIANT ResizesReported
CHECK_DEADLOCK FALSE
