CONSTANTS
  Conns = {c1, c2}
  Fds = {f1, f2, f3}
  Kinds = {"plain"}
  MaxReq = 1
  NoFd = NoFd
  None = None
SPECIFICATION Spec
SYMMETRY Symmetry
CHECK_DEADLOCK FALSE
INVARIANTS
  ThreadPerConnection
