\* The LIVE worker and a control client against the writer and shutdown: a cache
\* of one row for two viewers, a queue of one operation, every fault.
CONSTANTS
  Callers = {c1, c2}
  c1 = c1
  c2 = c2
  LiveWorker = {c1}
  Registered = {v1}
  Viewers = {v1, v2}
  v1 = v1
  v2 = v2
  NoRow = NoRow
  NoCaller = NoCaller
  Capacity = 1
  Slack = 0
  QueueSize = 1
  BatchSize = 2
  Faults = {"open", "read", "write", "reload", "saturated"}
  MaxOps = 2

SPECIFICATION LiveSpec
CHECK_DEADLOCK FALSE

INVARIANTS
  EveryWriteAccounted
  RecordedOnce
  WatermarksHonest
  BalancesAreExact
PROPERTIES
  DirtyRowsStay
  EverythingReturns
