SPECIFICATION ConnSpec
CHECK_DEADLOCK FALSE
CONSTANTS
  Types = {"BOTH"}
  Bytes = {"SP", "LF", ":", "a", "/", "2"}
  Words = {"GET", "CONNECT", "H", "TTP/1.1", "Content-Length", "EAD"}
  MaxHeader = 10
  MaxLen = 19
  MaxPiece = 2
  MayFail = {"message_complete"}
  HeadersResults = {0}
  UrlMax = 20
INVARIANT RoutesOwnUrl
