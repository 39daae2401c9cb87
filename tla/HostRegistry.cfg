SPECIFICATION Spec
CONSTANTS
  NodeIds = {1, 2}
  Self = 1
  info1 = info1
  info2 = info2
  Infos = {info1, info2}
  NoInfo = NoInfo
  Seeds <- MCSeeds
  Reports <- OneReport
  MaxStarts = 2
  MaxRafts = 1
  MaxPending = 1
INVARIANTS
  TypeOK
  IsolationIsTransient
  AddressIsCurrent
  LinksArePartitioned
  IdleNodeIsConnected
PROPERTIES
  ImplementsRegistry
CHECK_DEADLOCK FALSE
