CONSTANTS
  KillPoints = {"RemoveIdx", "Written"}
  RemovalFails = {"RemoveIdx"}
  MaxKills = 2
SPECIFICATION Spec
INVARIANT ServesComplete
