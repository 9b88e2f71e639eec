CONSTANTS
  r1 = r1
  r2 = r2
  Runs <- TwoRuns
  Ids <- FiveIds
  MaxAttempts = 2
  RecheckMax = 1
  MaxCrashes = 0
  Requests = {"cancel", "courier", "resume"}
SPECIFICATION Spec
INVARIANTS TypeOK 
SYMMETRY Symmetry
