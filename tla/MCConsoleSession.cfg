SPECIFICATION FairSpec
INVARIANTS
  ShowsWhereItIs
  Follows
CONSTANTS
  home = home
  a = a
  b = b
  None = None
  Unusable = Unusable
  Home = home
  Paths = {a, b}
  Chars = {"x", " "}
  Keys = {"enter", "backspace", "interrupt", "recall"}
  MarkerSupport = {TRUE, FALSE}
  MaxLine = 1
  MaxKeys = 3
  MaxNavigations = 2
  MaxWriteFaults = 1
  MaxSudo = 1
  MaxMoves = 1
  MaxEnds = 1
PROPERTIES
  SyncStatusEnds
  
CHECK_DEADLOCK FALSE
