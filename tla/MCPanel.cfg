CONSTANTS
  a1 = a1
  a2 = a2
  c1 = c1
  c2 = c2
  c3 = c3
  away = away
  Disarm = D
  NoMode = NoMode
  Areas = {a1}
  Calls = {c1, c2, c3}
  ArmModes = {away}
  MaxAttempts = 2
  Window = 2
  Lockout = 2
  MaxTime = 3
  MaxEvents = 1
SPECIFICATION Spec
CHECK_DEADLOCK FALSE
INVARIANTS
  TypeOK
  OpenHasFewFailures
  IdleShowsNoTransition
SYMMETRY MCSym
