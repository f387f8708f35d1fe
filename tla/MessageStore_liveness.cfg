SPECIFICATION FairSpec
CONSTANTS
  q1 = q1  m1 = m1  m2 = m2  h1 = h1  h2 = h2  h3 = h3  a = a  b = b  w = w
  None = None
  Queues = {q1}
  Messages = {m1, m2}
  Priorities = {1}
  Shards = {"s0"}
  ShardOf <- OneShard
  Handles = {h1, h2}
  Clients = {a}
  Cleaners = {w}
  Timeouts = {1}
  AttemptLimits = {1, 2}
  Lifetimes = {2}
  MaxLifetime = 2
  Retention = 1
  DeadLetterBatch = 1
  CleanerBatch = 1
  PurgeBatch = 1
  LastCall = 1
  MaxTime = 3
  MaxOrder = 2
PROPERTY EveryMessageSettles
