CONSTANTS
  Runs = {1, 2}
  MaxLive = 1
  MaxLives = 1
  Deps <- NoDeps
  Env = {"cancel", "pause"}
SPECIFICATION Spec
INVARIANTS TypeOK CapRespected PendingKept
PROPERTIES LaunchAsked
CHECK_DEADLOCK FALSE
