SPECIFICATION Spec
CONSTANTS
  Names = {"n", "m"}
  Dirs = {"a", "b", "w", "x", "v"}
  Volume <- MCVolume
  TrashVolume = "home"
  Contents = {"c1", "c2", "c3", "c4"}
  Absent = Absent
  Partial = "partial"
  Ops = {1, 2, 3, 4}
  MaxCopies = 3
  Scenarios <- MCScenarios
INVARIANTS
  NothingLost
  DoneMeansAll
  RecordTellsOrigin
PROPERTIES
  CancelHeeded
CHECK_DEADLOCK FALSE
