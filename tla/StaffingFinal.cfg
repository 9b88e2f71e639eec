CONSTANTS
  Runs = {1}
  MaxLive = 1
  MaxLives = 1
  Deps <- NoDeps
  Env = {"cancel"}
SPECIFICATION Spec
PROPERTY FinalIsFinal
CHECK_DEADLOCK FALSE
