SPECIFICATION Spec
CONSTANTS
  Recordings = {1, 2}
  None = None
  Absent = Absent
  Corrupt = Corrupt
  Values = {"default", "mine"}
  Default = "default"
  Budgets <- MCBudgets
INVARIANTS
  NoSampleDropped
PROPERTIES
  SettingsSurvive
  FailureTold
CHECK_DEADLOCK FALSE
