\* Up to two lines, two of the options that lines can set; any malloc() may
\* fail, and socket(), bind() and listen() for any of three addresses.
SPECIFICATION FairStartSpec
CHECK_DEADLOCK FALSE
CONSTANTS
  Options = {Port, Root}
  Other = Other
  Values = {v1, v2}
  Unset = Unset
  MaxLines = 2
  MaxWordNum = 2
  MaxArgs = 2
  MaxAddrs = 3
  Transient = TRUE
INVARIANTS StartTypeOK DictsWhole Released LastLineWins ServesBound
PROPERTY Starts
