CONSTANTS
  a1 = a1
  a2 = a2
  r1 = r1
  r2 = r2
  away = away
  Disarmed = Disarmed
  NoMode = NoMode
  Areas <- MCAreas
  Zones = {z1}
  Readers <- MCReaders
  Modes <- MCModes
  MaxEvents = 2
  MaxFailures = 1
  MaxTables = 2
SPECIFICATION Spec
SYMMETRY MCSymmetry
INVARIANTS
  TypeOK
  KnownModeSettlesAlarm
  UnconfirmedAwaitsMode
  AlarmNamesZones
PROPERTIES
  EveryChangeScheduled
  TableNeverOverridesNewerEvent
  AlarmHeldUntilDisarmed
CHECK_DEADLOCK FALSE
