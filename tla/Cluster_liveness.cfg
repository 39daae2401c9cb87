SPECIFICATION FairSpec
CONSTANTS
  Hosts = {1, 2}
  Seeds <- MCOneSeeds
  RpcSenders = {1}
  Snapshotters = {}
  MaxOrphans <- MCNoOrphans
PROPERTIES
  WaitsEnd
  JoinsSpread
CHECK_DEADLOCK FALSE
