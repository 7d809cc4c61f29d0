SPECIFICATION Spec
CONSTANTS
  Hosts = {h1, h2}
  Events = {e1}
  Voters = {v1, v2}
  Options = {red, blue}
  Kind <- AllVotes
  Voter <- TieVoter
  Choice <- TieChoice
  VoteLimit = 1
  AllowSwitch = TRUE
  MinParticipants = 1
  MaxParticipants = 2
  MaxContributions = 2
  Selection = "highest"
  TiePolicy = "manual"
  ExclusiveHosts = FALSE
  Duration = NoTime
  MaxTime = 0
  MaxCreates = 2
  NoTime = NoTime
  NoHost = NoHost
  NoEvent = NoEvent
  NoAssignment = NoAssignment
  NoResult = NoResult
  NoWinner = NoWinner
  h1 = h1
  h2 = h2
  v1 = v1
  v2 = v2
  red = red
  blue = blue
  e1 = e1
  e2 = e2
  e3 = e3
  e4 = e4
SYMMETRY HostSymmetry
INVARIANTS
  RecreationInheritsNothing
CHECK_DEADLOCK FALSE
