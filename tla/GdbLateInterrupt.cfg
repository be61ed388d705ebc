CONSTANTS
  LastPos = 1
  ProcessExits = TRUE
  ActionLists <- MCActionLists
  MaxCheckpoints = 0
SPECIFICATION Spec
INVARIANT ExitAnnounced
