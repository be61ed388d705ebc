SPECIFICATION Spec
CONSTANTS
  TopAddr = 15
  UserTop = 5
  KernelBase = 10
  MAX_WATCHPOINT_BYTES = 2
  Threads <- MCThreads
  Requested <- MCRequested
  RequestedTids = {0, 7, 9}
  AccessSizes = {0, 2}
  MaxId = 3
INVARIANTS
  TypeOK
  Armed
  RegistryMirrorsEngine
  StatsBalance
  NoMissedStop
  NoSpuriousStop
PROPERTY ClientView
CHECK_DEADLOCK FALSE
