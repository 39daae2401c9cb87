SPECIFICATION LeaderSpec
CONSTANTS
  NodeIds = {1, 2}
  Self = 1
  NoLeader = 0
  Reports <- MCReports
  Requests = {r1}
  Attempts = 3
INVARIANTS
  LookupNeverPanics
CHECK_DEADLOCK FALSE
