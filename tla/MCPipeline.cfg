SPECIFICATION FairSpec
CONSTANTS
  CharOrder <- MCCharOrder
  Char <- MCChar
  Odd <- MCOdd
  FatRefuses <- MCFatRefuses
  SystemVolume = "svi"
  Location <- MCLocation
  Block <- MCBlock
  Masters <- MCMasters
  Leftovers <- MCLeftovers
  NUMBER_OF_FFMPEG_THREADS = 2
  CRC_SIZE = 2
  CHUNK = 2
  MAX_FILES = 3
  NameMax = 4
  Tried = {1, 2, 3, 4, 6, 7}
  LoadFails = {"no_sendfile", "read"}
  CopyFails = {"no_sendfile", "write"}
  PoolFails = {"ffmpeg", "killed", "rm", "mv"}
  StickFails = {"decay"}
INVARIANTS TypeOK LoadIsWhole BytesAreCounted HaltStopsWriting FewAtOnce TracksAreSafe
  SuccessIsChecked GoodStickIsAccepted
PROPERTIES FilesInOrder MasterIsProcessed JobEnds CopyKeepsContract
CHECK_DEADLOCK FALSE
