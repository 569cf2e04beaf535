SPECIFICATION Spec
CONSTANTS
  NUMBER_OF_HUBS = 1
  PORTS_PER_CHANNEL = 1
  Names = {n1, n2}
  Procs = {c1, c2}
  NoName = NoName
  NoPath = "nowhere"
  Paths <- MCPaths
  PortMap <- MCPortMap
  PullPaths <- MCPaths
  MountDirs = {}
  MayFail = {"fork", "sudo", "mkfs", "mkdir", "mount", "copy", "flash", "sync", "umount", "crc_file", "crc_line"}
  Disturbances = {}
SYMMETRY SlotsAndNames
INVARIANTS TypeOK OneClientPerChannel GreenMeansVerified
PROPERTIES CancelledNeverGreen RunClearsErrors
