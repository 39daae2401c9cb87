SPECIFICATION Spec
CONSTANTS
  Hosts = {1, 2}
  Seeds <- MCOneSeeds
  RpcSenders = {1}
  Snapshotters = {}
  MaxOrphans <- MCOrphans
INVARIANTS
  RpcFailureIsHarmless
CHECK_DEADLOCK FALSE
