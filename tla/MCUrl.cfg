SPECIFICATION Spec
CHECK_DEADLOCK FALSE
CONSTANTS
  Bytes = {"a", "2", ":", "/", "@", "[", "]", "%", "?", "#"}
  MaxPort = 25
  MaxUrl <- MCMaxUrl
  MaxRest = 5
  Behind <- MCBehind
INVARIANTS FieldsTile ServerRight PortShown
