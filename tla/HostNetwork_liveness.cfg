SPECIFICATION Spec
CONSTANTS
  NodeIds = {1, 2}
  Self = 1
  info1 = info1
  info2 = info2
  Infos = {info1, info2}
  NoInfo = NoInfo
  Seeds <- MCSeeds
  Reports = {}
  MaxStarts = 3
  MaxRafts = 0
  MaxPending = 1
PROPERTIES
  KeepsRegistryPromise
  RetriesConnect
CHECK_DEADLOCK FALSE
