CONSTANTS
  JobKind = {"Continue", "RangeStep", "Short"}
  MaxJobs = 2
  MaxCalls = 2
  MaxAsk = 1
  MaxSessions = 2
  Slow = {"Spawned", "Job", "Published", "Replaying", "Stopping", "Stepping", "Finished", "Unlock", "DropRef", "PubIdle"}
SPECIFICATION FairSpec
INVARIANTS
  TypeOK
  IdleReleasesBackend
  StoppedCanResume
  StopNotLost
  AbortIsInterrupt
  InterruptBelongsToJob
  LiveSlot
PROPERTIES
  ResumeAnswered
  ImplementsContract
