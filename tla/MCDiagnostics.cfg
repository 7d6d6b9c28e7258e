CONSTANTS
  d1 = d1
  d2 = d2
  Distros = {d1, d2}
  Nil = Nil
  Modes <- MCModes
  Resolvers <- MCResolvers
  MaxIncidents = 3
  MaxFailures = 1
  Budgets <- MCBudgets
SPECIFICATION Spec
INVARIANTS   ChangesHappened  RecoveryIsNarrow
CHECK_DEADLOCK FALSE
