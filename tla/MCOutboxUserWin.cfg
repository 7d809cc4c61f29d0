CONSTANTS
  Hosts = {h1}
  Items = {i1}
  Usable = {i1}
  UserWinner = {i1}
  Malformed = {}
  ExclusiveHosts = TRUE
  StorageFaults = FALSE
  NoItem = NoItem
SPECIFICATION Spec
CHECK_DEADLOCK FALSE
PROPERTIES OnlyUnusableFails
