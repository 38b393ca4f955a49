SPECIFICATION Spec
CHECK_DEADLOCK FALSE
CONSTANTS
  Paths <- MCPaths
  RootDot = FALSE
  BodyMax = 2
  MaxReq = 2
INVARIANTS ResponseRight FailedReadFramed
