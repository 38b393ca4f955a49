CONSTANTS
  Conns = {c1}
  Fds = {f1, f2}
  Kinds = {"upgrade"}
  MaxReq = 1
  NoFd = NoFd
  None = None
SPECIFICATION FairSpec
CHECK_DEADLOCK FALSE
PROPERTIES
  ParsedThenExits
