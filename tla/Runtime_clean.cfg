SPECIFICATION FairSpec
CONSTANTS
  Timeouts = {t1, t2}
  Intervals = {i1}
  Hashes = {1, 2}
  MaxJobs = 2
  MaxFutures = 2
  UniqueKeys = TRUE
  Faults = FALSE
  InvokeEnqueues = FALSE
  None = None
  Pump = Pump
  Undefined = Undefined
INVARIANT OnlyScriptCancels
INVARIANT NoLeak
 
PROPERTY TimeoutsFire
PROPERTY JobsDrain
PROPERTY CallbacksReleased
CHECK_DEADLOCK FALSE
