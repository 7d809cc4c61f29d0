\* Two clients and the supervisor; every operation, a task that panics or does
\* not end in time, two generations.
CONSTANTS
  MaxGeneration = 2
  ChannelSize = 1
  MaxSent = 1
  Operators = {o1, o2}
  Supervisor = m
  Callers = {o1, o2, m}
  Faults = {"panic", "teardown"}
  o1 = o1
  o2 = o2
  m = m

SPECIFICATION LiveSpec
CHECK_DEADLOCK FALSE

INVARIANTS
  StatusHonest
  SessionEndsAlone
PROPERTIES
  MonitorResumes
  OperationsReturn
