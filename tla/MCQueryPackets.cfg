CONSTANTS
  Positions <- MCPositions
  Events <- MCEvents
  Modules <- MCModules
  Catalog <- MCCatalog
  ActiveList <- MCActiveList
  TopAddr = 15
  Objects = {"features", "unknown_annex", "libraries", "exec-file", "auxv"}
  TargetXml <- MCTargetXml
  Lengths = {1, 9}
  BufLen = 16
  Tids = {7, 8, 9}
  NoTeb = {8}
  RegIds = {0, 7, 16, 17, 19, 20, 23, 24, 31, 33, 35, 36, 39, 40, 55, 56, 57, 58, 59}
  Addrs = {0, 1, 4, 6, 15}
  Lens = {0, 1, 3}
  EngineRuns <- MCRuns
  DEFAULT_MEM_LEN = 2
  MEM_LEN_CAP = 2
  MEM_RANGES_CAP = 2
  DEFAULT_EVENTS = 3
  MaxAsk = 1
SPECIFICATION FairSpec
INVARIANTS
  ChunksAssemble
  RegistersAgree
  LookupsExact
PROPERTIES
  QueryAnswered
  StopReported
