CONSTANTS
  Null = Null
  Contents <- MCContents
  Refused = {"999", "gradual"}
  Size <- MCSize
  Total <- MCTotal
  Releases = {1, 2}
  Grace = 1
  MaxTime = 3
  MaxEdits = 1
SPECIFICATION SettingsSpec
PROPERTIES AppliedIsInForce  RestartPendingIsRight
CHECK_DEADLOCK FALSE
