SPECIFICATION FairSpec
CHECK_DEADLOCK FALSE
CONSTANTS
  Chars = {"a", " ", ".", ":", "#", "-", "NL"}
  MaxText = 5
  MaxWordSize = 3
  MaxWordNum = 2
  Garbage <- MCGarbage
INVARIANTS WordsExact NoLineLost OwnKey
PROPERTY ReadsToTheEnd
