CONSTANTS
  Areas = {k, o}
  NoArea = NoArea
  Unknown = Unknown
  Tabs = {t1, t2}
  MaxTabs = 2
  MaxPicks = 1
SPECIFICATION OptionsSpec
SYMMETRY MCSym
INVARIANTS
  OptionsTypeOK
  RisksAreFlagged
PROPERTIES
  KeptUnlessOwned
CHECK_DEADLOCK FALSE
