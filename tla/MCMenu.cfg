SPECIFICATION Spec
CONSTANTS
  NUMBER_OF_HUBS = 1
  PORTS_PER_CHANNEL = 1
  Names = {n1}
  Paths = {p1}
  NoName = NoName
  NoPath = nowhere
  SHORT_PRESS_TIME = 2
  LONG_PRESS_TIME = 4
  command_count = 3
  LinesMayFail = FALSE
  Disturbances = {}
PROPERTIES CommandIsChosen
CHECK_DEADLOCK FALSE
