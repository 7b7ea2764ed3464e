CONSTANTS
  door = door
  house = house
  D = D
  T = T
  Zones = {door}
  Areas = {house}
  Modes = {D, T}
  Disarmed = D
  NoMode = NoMode
  MaxChanges = 2
  MaxGenerations = 2
  MaxQueue = 2
  MaxTables = 4
SPECIFICATION Spec
INVARIANTS
  LiveInputsAreTrue
  LiveModesAreTrue
CHECK_DEADLOCK FALSE
