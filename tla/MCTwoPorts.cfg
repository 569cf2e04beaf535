SPECIFICATION Spec
CONSTANTS
  NUMBER_OF_HUBS = 1
  PORTS_PER_CHANNEL = 2
  Names = {n1, n2}
  Procs = {c1, c2}
  NoName = NoName
  NoPath = "nowhere"
  Paths <- MCPaths
  PortMap <- MCPortMap
  PullPaths = {"path0"}
  MountDirs = {n1, n2}
  MayFail = {}
  Disturbances = {}
SYMMETRY SlotsAndNames
INVARIANTS OneClientPerDrive IndInv
PROPERTY DoneMeansDone
