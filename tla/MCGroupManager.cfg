\* Two workers, up to two signals.
SPECIFICATION Spec
CONSTANTS
  Workers = 2
  Main = main
  Query = query
  Proxy = proxy
  None = None
  Kind = {SIGINT, SIGTERM}
  MaxSignal = 2
INVARIANTS
  TypeOK
  OneStopAtATime
  StopOnItsWay
PROPERTY
  StopReachesWorkers
\* stop() may wait for ever.
CHECK_DEADLOCK FALSE
