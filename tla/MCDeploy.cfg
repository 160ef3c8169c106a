CONSTANTS
  r1 = r1
  r2 = r2
  r3 = r3
  NoRun = NoRun
  Runs <- MCRuns
  mayRun <- MCMayRun
SPECIFICATION Spec
INVARIANTS
  StoredIsComplete
PROPERTIES
  StoredIsKept
  ComesUp
CHECK_DEADLOCK FALSE
