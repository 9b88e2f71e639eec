CONSTANTS
  r1 = r1
  r2 = r2
  Items <- TwoRuns
  Ids <- FiveIds
  MaxAttempts = 2
  Turns <- FiveTurns
  People <- FourPeople
  Limit = 2
  MaxLaunches = 2
  Listed = {"it"}
  Recurring = {"it"}
  Passes = {"a", "b"}
  MaxOccurrence = 2
  MaxFails = 1
  Procs = {"cli", "daemon"}
  StaleAfter = 3
  Patience = 2
  MaxCrashes = 1
  Routine = {1, 2}
  Fixed = {}
  Yielding = {}
  RoutinePasses = {"a", "b"}
  MaxDay = 2
  MaxAsked = 0
  MaxTrouble = 0
  FeedItems <- FourItems
  ModelOf <- ThreeModels
  Pollers = {"a"}
  HourLength = 2
  PerHour = 1
  PerDay = 2
  MaxTime = 6
  MaxHand = 0
  MaxMishaps = 1
  N = 3
  MaxReplays = 1
  MaxDeaths = 2
  MaxEvents = 3
SPECIFICATION QueuesSpec
INVARIANTS SlotsAccounted CapWins  DebtsTended ReplaysBounded DeliveredOnce FiredOnce RailsHold
PROPERTIES ImplementsRows ImplementsLedger LockFreed  WorkerReports OwedSettles GoesOff
CHECK_DEADLOCK FALSE
