SPECIFICATION FairSpec
CONSTANTS
  NUMBER_OF_HUBS = 1
  PORTS_PER_CHANNEL = 1
  Names = {n1, n2}
  Procs = {c1}
  NoName = NoName
  NoPath = "nowhere"
  Paths <- MCPaths
  PortMap <- MCPortMap
  PullPaths <- MCPaths
  MountDirs = {n1, n2}
  MayFail = {"fork", "mkfs", "mkdir", "mount", "copy", "flash", "umount", "crc_file"}
  Disturbances = {}
INVARIANT ClientSignalsOutcome
PROPERTIES HubFinishes HaltedChannelSettles
