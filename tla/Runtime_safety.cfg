SPECIFICATION Spec
CONSTANTS
  Timeouts = {t1, t2}
  Intervals = {i1}
  Hashes = {1, 2}
  MaxJobs = 2
  MaxFutures = 3
  UniqueKeys = FALSE
  Faults = TRUE
  InvokeEnqueues = TRUE
  None = None
  Pump = Pump
  Undefined = Undefined
INVARIANT NoDoubleFree
INVARIANT NoUseAfterFree
PROPERTY JobsPumped
CHECK_DEADLOCK FALSE
