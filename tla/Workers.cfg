\* Two threads, one of them the owner, and three launches; one device; three
\* callers share the slot; one timer, one wait and one copy of the Node.js addon; two
\* sinks of the log.
CONSTANTS
  Threads = {t1, t2}
  MaxWorkers = 3
  Owner = t1
  Nobody = Nobody
  Devices = {d1}
  RescanTicks = 1
  Launches = 2
  Callers = {t1, t2, t3}
  None = None
  MaxCalls = 2
  Timers = {r1}
  Waits = {w1}
  Copies = {c1}
  Sinks = {s1, s2}
SPECIFICATION FairSpec
INVARIANTS
  OneBody
  HandleOwned
  OwnSettings
  Lifetimes
  WorkersOutlived
  SinksSound
PROPERTIES
  StopRespected
  StopIsComplete
  ImplementsCalls
  CallsReturn
  Recovers
