SPECIFICATION Spec
CONSTANTS
  None = None
  Ports = {1, 2}
  Periods <- MCPeriods
  Defaults <- MCDefaults
  StartWith <- MCAnyPause
  MaxChanges = 2
  MaxResets = 1
  MaxTokens = 1
  MaxTaken = 1
  MaxErrors = 1
INVARIANTS
  RunningListens
  StatusReported
  TimersFollowSettings
  ServerFollowsSettings
CHECK_DEADLOCK FALSE
