\* Two clients who send two messages between them; a descriptor for each and
\* none to spare, so that descriptors run out and their numbers are reused.
CONSTANTS
  Conns = {c1, c2}
  Fds = {f1, f2}
  Kinds = {"plain", "upgrade"}
  MaxReq = 2
  NoFd = NoFd
  None = None
SPECIFICATION Spec
SYMMETRY Symmetry
CONSTRAINT TwoMessages
\* The process may be idle for ever, and ends when accept() fails.
CHECK_DEADLOCK FALSE
INVARIANTS
  TypeOK
  Inv
  OwnSocket
  NoCrossTalk
  AnsweredThenCloses
PROPERTIES
  ImplementsService
  ClosedByItsWorker
