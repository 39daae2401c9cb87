SPECIFICATION LeaderSpec
CONSTANTS
  NodeIds = {1, 2}
  Self = 1
  NoLeader = 0
  Reports <- MCReports
  Requests = {r1, r2}
  Attempts = 3
INVARIANTS
  LeaderTypeOK
PROPERTIES
  ConnectFailsOnlyBeforeRaft
  RequestsEnd
CHECK_DEADLOCK FALSE
