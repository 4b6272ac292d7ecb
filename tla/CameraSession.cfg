\* Two callback streams over two backends.
CONSTANTS
  MaxStreams = 2
  MaxOpens = 2
SPECIFICATION FairSpec
INVARIANTS
  NativeSerialized
  OneWorker
  Lifetimes
PROPERTIES
  QuietAfterStop
  ThrowRollsBack
  StopReturns
