CONSTANTS
  Poller = poller
  Subs = {s1, s2}
  StatusMethod = status
  Methods = {status}
  Unseen = unseen
  MaxChanges = 2
  MaxDrops = 1
  MaxLogins = 4
  Button = button
  NoTimer = none
  Styles <- MCStyles
  MaxPresses = 3
  MaxFaults = 1
  Candidates = 3
  ClientTypes = 3
  MaxArms = 2
SPECIFICATION MCSpec
INVARIANTS
  ResearchTypeOK
  
  Supervised
PROPERTIES
  RadioStops
  MotionSettles
CHECK_DEADLOCK FALSE
