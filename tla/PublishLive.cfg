CONSTANTS
  r1 = r1
  r2 = r2
  Runs <- OneRun
  Ids <- ThreeIds
  MaxAttempts = 4
  RecheckMax = 2
  MaxCrashes = 1
  Requests = {"cancel", "courier", "backfill", "resume"}
SPECIFICATION FairSpec
INVARIANTS PublishingOwned
PROPERTY DeliveryMoves
