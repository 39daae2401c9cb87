SPECIFICATION Spec
CONSTANTS
  NodeIds = {1}
  Self = 1
  info1 = info1
  info2 = info2
  Infos = {info1, info2}
  NoInfo = NoInfo
  Seeds <- MCSeeds
  Reports <- TwoReports
  MaxStarts = 3
  MaxRafts = 2
  MaxPending = 2
INVARIANTS
  StatusFollowsRaft
  PanicNeedsOwnEntryGone
  RegisteredHasNode
  LocalNodeFollowsRaft
CHECK_DEADLOCK FALSE
