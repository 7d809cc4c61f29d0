\* The same two callers without faults.
CONSTANTS
  Callers = {c1, c2}
  c1 = c1
  c2 = c2
  LiveWorker = {c1}
  Registered = {v1}
  Viewers = {v1, v2}
  v1 = v1
  v2 = v2
  NoRow = NoRow
  NoCaller = NoCaller
  Capacity = 1
  Slack = 0
  QueueSize = 2
  BatchSize = 2
  Faults = {}
  MaxOps = 2

SPECIFICATION Spec
CHECK_DEADLOCK FALSE

INVARIANT ConcurrentAwardsAreDurable
