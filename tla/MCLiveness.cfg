\* Two clients that do not ask for a protocol upgrade, fair threads.
CONSTANTS
  Conns = {c1, c2}
  Fds = {f1, f2}
  Kinds = {"last", "bad"}
  MaxReq = 1
  NoFd = NoFd
  None = None
SPECIFICATION FairSpec
CONSTRAINT HandedOver
CHECK_DEADLOCK FALSE
PROPERTIES
  QueuedAccepted
  ServedAndClosed
