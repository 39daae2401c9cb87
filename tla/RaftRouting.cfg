SPECIFICATION RoutingSpec
CONSTANTS
  NodeIds = {1, 2, 3}
  Self = 1
  Reports = {}
  Slots = {c1}
INVARIANTS
  RoutingTypeOK
PROPERTIES
  SnapshotPanicNeedsRemoval
  RpcsEnd
  RefusalsEnd
CHECK_DEADLOCK FALSE
