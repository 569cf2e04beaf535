SPECIFICATION FairSpec
CONSTANTS
  NUMBER_OF_HUBS = 1
  PORTS_PER_CHANNEL = 2
  Names = {n1, n2}
  NoName = NoName
  NoPath = nowhere
  Paths = {p1, p2}
  MasterPath = p1
  MountDirs = {}
  MayFail = {"mkdir", "mount", "rm", "copy", "sync", "umount", "crc_file"}
  Disturbances = {}
  USB_EVENT_QUEUE_LEN = 2
  NoEvent = NoEvent
INVARIANTS TypeOK PortsApart
PROPERTIES InsertionsInOrder PathsAnswerPrompts MasterIsOut AnswerIsTaken
CHECK_DEADLOCK FALSE
