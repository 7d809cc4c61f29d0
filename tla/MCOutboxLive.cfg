CONSTANTS
  Hosts = {h1, h2, h3}
  Items = {i1, i2}
  Usable = {i1}
  UserWinner = {}
  Malformed = {i2}
  ExclusiveHosts = TRUE
  StorageFaults = TRUE
  NoItem = NoItem
SPECIFICATION LiveSpec
CHECK_DEADLOCK FALSE
INVARIANTS
  LiveInvocationIsRunning
PROPERTIES
  KeepsContract
  PendingIsTaken
  RunningBelongsToTheDead
