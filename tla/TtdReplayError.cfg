CONSTANTS
  LastPos = 4
  Valid <- MCValid
  Rounded <- MCRounded
  Throws <- MCThrows
  ExitsAtEnd = FALSE
  ThreadAt <- MCThreadAt
  Threads <- MCThreads
  Active <- MCActive
  Tids <- MCTids
SPECIFICATION Spec
INVARIANT ErrorsAreErrors
