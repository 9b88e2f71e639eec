CONSTANTS
  Runs = {1}
  MaxLive = 1
  MaxLives = 2
  Deps <- NoDeps
  Env = {"redeploy", "budget", "cancel", "courier"}
SPECIFICATION FairSpec
INVARIANT SingleOwner
  
CHECK_DEADLOCK FALSE
