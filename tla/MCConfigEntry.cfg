CONSTANTS
  Arcs = {x, y}
  Hosts = {h1, h2}
  None = None
  Legacy = Legacy
  MaxChanges = 2
  MaxReloads = 1
  MaxFailures = 1
  MaxFlows = 2
SPECIFICATION Spec
SYMMETRY MCSym
INVARIANTS
  TypeOK
  RejectedIsHeard
  FewRejections
  NoOtherHubRuns
  OneEntryPerArc
PROPERTIES
  SerialIsForLife
CHECK_DEADLOCK FALSE
