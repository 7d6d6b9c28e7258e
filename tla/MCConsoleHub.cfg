SPECIFICATION Spec
CONSTANTS
  Distros = {d1, d2}
  NoDistro = NoDistro
  MaxAutoRetries = 2
  Budgets <- MCBudgets
INVARIANTS
  PanelTellsTruth
  PreparedReachesSelected
PROPERTIES
  OneShellPerDistro
  Heals
CHECK_DEADLOCK FALSE
