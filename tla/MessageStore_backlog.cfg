SPECIFICATION Spec
CONSTANTS
  q1 = q1  m1 = m1  m2 = m2  h1 = h1  h2 = h2  h3 = h3  a = a  b = b  w = w
  None = None
  Queues = {q1}
  Messages = {m1, m2}
  Priorities = {1, 2}
  Shards = {"s0", "s1"}
  ShardOf <- TwoShards
  Handles = {h1, h2}
  Clients = {a, b}
  Cleaners = {w}
  Timeouts = {1}
  AttemptLimits = {1, 2}
  Lifetimes = {2}
  MaxLifetime = 2
  Retention = 0
  DeadLetterBatch = 1
  CleanerBatch = 1
  PurgeBatch = 1
  LastCall = 1
  MaxTime = 2
  MaxOrder = 2
SYMMETRY Symmetry
INVARIANTS TypeOK FatesMatchTables RollupExact GaugesMatchDequeue
PROPERTY AcknowledgedByHolder
