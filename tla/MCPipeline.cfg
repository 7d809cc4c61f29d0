CONSTANTS
  MaxGeneration = 3
  ChannelSize = 2
  MaxSent = 2
  QueueSize = 1
  EffectsSize = 1
  Deadlines = {}
  Panics = FALSE
  Callers = {c1, c2}
  c1 = c1
  c2 = c2
  Faults = {"teardown", "drop"}

SPECIFICATION PipelineSpec
CHECK_DEADLOCK FALSE

INVARIANTS
  OneConnection
  SnapshotHonest
  CreditedToOwn
  SettledAgrees
SYMMETRY CallerSymmetry
VIEW WithoutCounters
CONSTRAINT BeforeShutdown
CONSTRAINT InStep
CONSTRAINT FromTheStart
