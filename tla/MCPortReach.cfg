CONSTANTS
  Nil = Nil
  Addresses = {"a", "b"}
  Starts <- MCStarts
  Changes = 1
  Failures = 1
SPECIFICATION ReachSpec
INVARIANTS
  VerdictsAreTrue
PROPERTIES
  CatchesUp
