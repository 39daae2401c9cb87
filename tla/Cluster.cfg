SPECIFICATION Spec
CONSTANTS
  Hosts = {1, 2}
  Seeds <- MCOneSeeds
  RpcSenders = {2}
  Snapshotters = {1}
  MaxOrphans <- MCOrphans
INVARIANTS
  TypeOK
  CallsAreOwed
  WaitsCanEnd
PROPERTIES
  SteadyStaysUp
  HostsImplementRegistry
CHECK_DEADLOCK FALSE
