SPECIFICATION PaneSpec
CONSTANTS
  Distros = {"d1", "d2"}
  Paths = {"home", "src", "old"}
  Home = "home"
  Exists <- MCExists
  Starts = {"home", "old"}
  None = None
  Budgets <- MCBudgets
INVARIANTS
  SizesAreCurrent
  RefreshRepairs
CHECK_DEADLOCK FALSE
