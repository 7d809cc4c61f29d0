SPECIFICATION LiveSpec
CONSTANTS
  Hosts = {h1}
  Events = {e1, e2, e3, e4}
  Voters = {v1, v2}
  Options = {red, blue}
  Kind <- LikeLast
  Voter <- MixedVoter
  Choice <- SwitchChoice
  VoteLimit = 1
  AllowSwitch = TRUE
  MinParticipants = 2
  MaxParticipants = 2
  MaxContributions = 3
  Selection = "draw"
  TiePolicy = "stable"
  ExclusiveHosts = TRUE
  Duration = 1
  MaxTime = 1
  MaxCreates = 1
  NoTime = NoTime
  NoHost = NoHost
  NoEvent = NoEvent
  NoAssignment = NoAssignment
  NoResult = NoResult
  NoWinner = NoWinner
  h1 = h1
  h2 = h2
  v1 = v1
  v2 = v2
  red = red
  blue = blue
  e1 = e1
  e2 = e2
  e3 = e3
  e4 = e4
INVARIANTS
  ResultMatchesLedger
PROPERTIES
  ReplayIsInert
  SettledLeavesReceipt
  DueCloses
  FinalizingFinishes
CHECK_DEADLOCK FALSE
