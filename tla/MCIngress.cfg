\* Any transport, every deadline, one panic: a queue of one item fills up and
\* every rung of the stop ladder is climbed.
CONSTANTS
  MaxGeneration = 2
  ChannelSize = 2
  MaxSent = 3
  QueueSize = 1
  EffectsSize = 1
  Deadlines = {"admit", "pump", "drain", "stop"}
  Panics = TRUE

SPECIFICATION LiveSpec
CHECK_DEADLOCK FALSE

INVARIANTS
  EveryItemAccounted
  EveryEffectAccounted
  SafeStopDrained
  CleanStopLostNothing
  NeverToANewerCreator

PROPERTIES
  StopTerminates
