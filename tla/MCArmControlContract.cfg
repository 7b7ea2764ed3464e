CONSTANTS
  a1 = a1
  a2 = a2
  c1 = c1
  c2 = c2
  own = own
  other = other
  away = away
  Disarmed = Disarmed
  NoMode = NoMode
  NoCommand = NoCommand
  UnknownArea = UnknownArea
  Areas = {a1}
  Zones = {}
  Readers = {own}
  CommandReader = own
  Commands = {c1, c2}
  Modes <- MCModes
  ArmModes <- MCModes
  MaxEvents = 1
  MaxFailures = 1
  MaxTables = 1
SPECIFICATION FairControlSpec
INVARIANTS
  AtMostOneLateLogin
PROPERTIES
  NoStaleRefusal
  KeepsContract
CHECK_DEADLOCK FALSE
