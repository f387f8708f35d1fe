SPECIFICATION CacheFairSpec
CONSTANTS
  a = a  b = b  c = c  p = p  q = q
  None = None
  Callers = {a, b, c}
  Processes = {p, q}
  ProcessOf <- TwoProcesses
  DetailsTtl = 2
  MissingTtl = 1
  LoadLockTtl = 1
  CommandDelay = 1
  LoadDelay = 1
  Roles <- ThreeRequests
  MaxVersion = 2
INVARIANTS CacheTypeOK StaleAtMostTtl OneLoaderPerMarker NeverMisled
PROPERTY EveryoneAnswered
