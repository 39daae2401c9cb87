SPECIFICATION Spec
CONSTANTS
  LastIndex = 4
  Terms = {1, 2}
  TermOf <- MCTermOf
  None = None
  Broken = Broken
INVARIANTS
  TypeOK
  SnapshotMatchesFile
  CleanupIsCovered
  OverwritesOnlyItself
  StateMachineFollows
PROPERTIES
  ImplementsCompactedLog
CHECK_DEADLOCK FALSE
