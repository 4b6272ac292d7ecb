\* Two control threads race each other, one producer and the writer.
CONSTANTS
  Controllers = {c1, c2}
  Producers = {p1}
  Capacities = {1, 2}
  Writer = Writer
  None = None
  MaxSubmits = 2
  MaxGen = 2
SPECIFICATION Spec
SYMMETRY Symmetry
INVARIANTS
  Conservation
  QuietWhenStopped
  FailureRetained
PROPERTIES
  NoSwapDuringWrite
  SuccessCovers
  ImplementsChannel
