\* One worker, one signal.
SPECIFICATION Spec
CONSTANTS
  Workers = 1
  Main = main
  Query = query
  Proxy = proxy
  None = None
  Kind = {SIGTERM}
  MaxSignal = 1
PROPERTY
  ProcessStops
CHECK_DEADLOCK FALSE
