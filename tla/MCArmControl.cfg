CONSTANTS
  a1 = a1
  a2 = a2
  c1 = c1
  c2 = c2
  own = own
  other = other
  away = away
  Disarmed = Disarmed
  NoMode = NoMode
  NoCommand = NoCommand
  UnknownArea = UnknownArea
  Areas = {a1, a2}
  Zones = {}
  Readers = {own, other}
  CommandReader = own
  Commands = {c1}
  Modes <- MCModes
  ArmModes <- MCModes
  MaxEvents = 2
  MaxFailures = 0
  MaxTables = 1
SPECIFICATION ControlSpec
SYMMETRY MCSymmetry
INVARIANTS
  ControlTypeOK
PROPERTIES
  NoStaleSuccess
CHECK_DEADLOCK FALSE
