SPECIFICATION Spec
CONSTANTS
  NUMBER_OF_HUBS = 2
  PORTS_PER_CHANNEL = 1
  Names = {n1, n2}
  Procs = {c1}
  NoName = NoName
  NoPath = "nowhere"
  Paths <- MCPaths
  PortMap <- MCPortMap
  PullPaths <- MCPaths
  MountDirs = {n1, n2}
  MayFail = {}
  Disturbances = {}
SYMMETRY SlotsAndNames
PROPERTY HubsDoNotInterfere
