CONSTANTS
  cam = cam
  door = door
  Zones = {cam}
  MotionZones <- MCMotionZones
  ArmEvents = {}
  MaxEvents = 3
  MaxGenerations = 1
  MaxQueue = 1
SPECIFICATION Spec
INVARIANTS
  HeldMotionHasTimer
CHECK_DEADLOCK FALSE
