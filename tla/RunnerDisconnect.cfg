CONSTANTS
  JobKind = {"Continue"}
  MaxJobs = 1
  MaxCalls = 1
  MaxAsk = 1
  MaxSessions = 1
  Slow = {"Replaying"}
SPECIFICATION Spec
INVARIANT DisconnectKeepsServer
