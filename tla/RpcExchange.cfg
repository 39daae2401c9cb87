SPECIFICATION Spec
CONSTANTS
  d1 = d1
  unencodable = unencodable
  undecodable = undecodable
  p1 = p1
  small = small
  large = large
  t1 = t1
  t2 = t2
  None = None
  Ids = {1, 2}
  Numbers = {0, 1}
  Data <- MCData
  Unencodable = {unencodable}
  Undecodable = {undecodable}
  Paths = {p1}
  Chunks = {small, large}
  Texts = {t1, t2}
  Sendable <- MCSendable
  Oversized <- MCOversized
  MaxCalls = 2
INVARIANTS
  TypeOK
  ResponsesAreRead
PROPERTIES
  ImplementsRpcChannel
CHECK_DEADLOCK FALSE
