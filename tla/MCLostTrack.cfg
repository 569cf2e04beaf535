SPECIFICATION Spec
CONSTANTS
  CharOrder <- MCCharOrder
  Char <- MCChar
  Odd <- MCOdd
  FatRefuses <- MCFatRefuses
  SystemVolume = "svi"
  Location <- MCLocation
  Block <- MCBlock
  Masters <- MCMasters
  Leftovers <- MCLeftovers
  NUMBER_OF_FFMPEG_THREADS = 2
  CRC_SIZE = 2
  CHUNK = 2
  MAX_FILES = 3
  NameMax = 4
  Tried = {5}
  LoadFails = {}
  CopyFails = {}
  PoolFails = {}
  StickFails = {}
INVARIANT EntireContents
CHECK_DEADLOCK FALSE
