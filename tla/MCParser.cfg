\* Requests and responses with every kind of body, lengths that overflow, and
\* what on_headers_complete may ask for.
SPECIFICATION Spec
CHECK_DEADLOCK FALSE
CONSTANTS
  Types = {"BOTH"}
  Bytes = {"SP", "CR", "LF", ":", "a", "/", "2", "0", ",", "CTL"}
  Words = {"GET", "CONNECT", "H", "TTP/1.1", "200", "Content-Length",
           "Transfer-Encoding", "chunked", "Connection", "close", "Upgrade",
           "upgrade"}
  MaxHeader = 14
  MaxLen = 21
  MaxPiece = 2
  MayFail = {"message_complete"}
  HeadersResults = {0, 1, 2}
INVARIANTS TypeOK Asserts PiecesWhole LengthExact UpgradeStops
PROPERTIES HeaderCounted ImplementsMessages
