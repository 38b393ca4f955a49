SPECIFICATION FairConnSpec
CHECK_DEADLOCK FALSE
CONSTANTS
  Types = {"BOTH"}
  Bytes = {"SP", "LF", ":", "/", "2", "0", "CR"}
  Words = {"GET", "CONNECT", "H", "TTP/1.1", "Content-Length", "EAD", "200",
           "Transfer-Encoding", "chunked"}
  MaxHeader = 10
  MaxLen = 19
  MaxPiece = 2
  MayFail = {"message_complete"}
  HeadersResults = {0}
  UrlMax = 3
INVARIANTS UncutUrlRouted NoFalseError
PROPERTIES AnswerEnds ByteUsed
