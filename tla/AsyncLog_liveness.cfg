\* Two control threads, so that one can strand the other.
CONSTANTS
  Controllers = {c1, c2}
  Producers = {p1}
  Capacities = {2}
  Writer = Writer
  None = None
  MaxSubmits = 2
  MaxGen = 1
SPECIFICATION FairSpec
PROPERTIES
  ControlReturns
  AcceptedSettles
