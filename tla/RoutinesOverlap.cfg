CONSTANTS
  Routine = {1, 2}
  Fixed = {}
  Yielding = {}
  RoutinePasses = {"a", "b"}
  MaxDay = 2
  MaxAsked = 0
  MaxTrouble = 0
SPECIFICATION RoutinesSpec
INVARIANTS OncePerPeriod
CHECK_DEADLOCK FALSE
