\* WSL changes under a switch and a failing collector, or the app reports and quits
\* under a switch; self-stabilisation under fair polling.
SPECIFICATION FairSpec
CONSTANTS
  ubuntu = ubuntu
  debian = debian
  None = None
  Distros <- MCDistros
  DefaultDistro <- MCDefault
  StartStates = {"Running"}
  Collectors = {"ports", "services"}
  Trust = 1
  BackoffBase = 1
  BackoffMax = 2
  MaxTracked = 2
  MaxWarned = 1
  MaxProbeFailures = 2
  Budgets <- MCBoth
INVARIANTS
  SectionsFromSelected
  OneProbeInFlight
  QuietSnapshotPublished
PROPERTIES
  KeepsLastGood
  Converges
