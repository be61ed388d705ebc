CONSTANTS
  KillPoints = {"Opened", "RemoveIdxt", "Build", "Marked", "Written", "Complete", "Serving"}
  RemovalFails = {"RemoveIdxt"}
  MaxKills = 3
SPECIFICATION Spec
INVARIANT ServesComplete
