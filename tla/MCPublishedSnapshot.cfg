CONSTANTS
  None = None
  Distros = {"Debian", "Ubuntu"}
  MaxTreeEntries = 6
  MaxSteps = 2
  Places = {"/home/me", "/mnt/c/work", "/c/work"}
  Limits <- MCLimits
  Readings <- MCReadings
  Histories <- MCHistories
  Slow = {"hermes", "dns"}
  Files <- MCFiles
  Tree <- MCTree
SPECIFICATION Spec
INVARIANTS
  TypeOK UnreadNeverPasses WhatIsMissingIsNamed ReportsAgree
  StaleQueriesAreExact ToolsKeepTheirWord
