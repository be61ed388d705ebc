CONSTANTS
  LastPos = 2
  ProcessExits = TRUE
  ActionLists <- MCActionLists
  MaxCheckpoints = 2
SPECIFICATION Spec
INVARIANTS
  TypeOK
  EndStateAtExit
  ExitReplyAtExit
  RestartHolds
  RunsWhatWasAsked
PROPERTIES
  CheckpointsPersist
  ImplementsContract
