SPECIFICATION FairSpec
CONSTANTS
  Host = 1
  Nodes = {1, 2}
  Directories = {"snapshots"}
  RaftMaxPayload = 300
  Missing = Missing
  Addresses = {"127.0.0.1:8080"}
  Applications <- MCApplications
  References <- MCReferences
  Environments <- MCEnvironments
  MaxRequests = 2
  None = None
INVARIANTS
  TypeOK
  BuiltIsServed
  InvalidNeverServes
  WaitsAreOwed
PROPERTIES
  BuildReturns
CHECK_DEADLOCK FALSE
