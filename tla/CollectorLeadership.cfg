SPECIFICATION FairSpec
CONSTANTS
  a = a  b = b  c = c
  None = None
  Orphan = Orphan
  Processes = {a, b, c}
INVARIANTS LockEndsWithLease SoleReader
PROPERTIES FormerLeaderStops FailoverCompletes
