CONSTANTS
  cam = cam
  door = door
  Zones <- MCZones
  MotionZones <- MCMotionZones
  ArmEvents = {}
  MaxEvents = 2
  MaxGenerations = 2
  MaxQueue = 1
SPECIFICATION Spec
INVARIANTS
  TypeOK
PROPERTIES
  SnapshotNeverOverridesNewerEvent
  NewerEventBeatsHold
CHECK_DEADLOCK FALSE
