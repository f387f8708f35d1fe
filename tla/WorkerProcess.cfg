SPECIFICATION ProcessFairSpec
CONSTANTS
  job = job  management = management  c1 = c1  c2 = c2
  None = None
  Loops = {job}
  Servers = {management}
  Checks = {c1, c2}
  PoolSizes = {1, 2}
  ReadinessTimeout = 1
  AcquireTimeout = 3
  ReturnTimeout = 1
INVARIANTS ProcessTypeOK NoTaskOutlivesServe SuccessIsClean NoHoldAndWait ChecksNeverStarveBatch RestNeverBlocksReadiness
PROPERTIES ServeReturns ProcessExits
\* The process has exited.
CHECK_DEADLOCK FALSE
