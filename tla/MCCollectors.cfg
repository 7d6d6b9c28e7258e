SPECIFICATION CollectSpec
CONSTANTS
  None = None
  ZoneMaxRows = 2
  Tools = {"git", "playwright"}
  Plugins = {"playwright"}
  MaxLogLines = 2
  Signalled = {"playwright"}
  Candidates <- MCCandidates
  Providers <- MCProviders
  MaxListed = 2
  MaxResults = 4
  Places <- MCPlaces
  Ttl = 1
  MaxSteps <- MCMaxSteps
INVARIANTS
  SaysNothingFalse
PROPERTIES
  PollingLeavesEnginesAlone
CHECK_DEADLOCK FALSE
