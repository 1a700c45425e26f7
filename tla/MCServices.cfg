SPECIFICATION ServicesSpec
CONSTANTS
  Actors = {"first", "second", "other"}
  Ids = {"shared", "own"}
  IdOf <- MCIdOf
  NoActor = None
  Removers = {"remover"}
  Closers = {p, q}
  MaxGenerations = 2
  Callers = {p, q}
  None = None
  MaxAttempts = 2
  MaxLaunches = 3
  MaxVersion = 1
  Tasks = {"one", "two"}
  Stoppers = {p, q}
  NoTask = None
  Threads = {p, q}
  Absent = None
  GoalIds = {"goal"}
  Budgets = {1}
  MaxGoals = 2
  MaxQueries = 2
  MaxCommands = 1
  MaxEvents = 2
  Agents = {p, q}
  Nil = None
  Updates <- MemberUpdates
  MaxTasks = 2
  MaxBirths = 3
  MaxRevision = 3
  MaxFailures = 1
SYMMETRY Symmetry
INVARIANTS
  SlotSound
  StoppedIsSignalled
  ReceiptsHonest
  GoalSound
  EdgesPaired
PROPERTIES
  ReleasedOnlyClean
  ContinuationsWanted
  ClaimsHold
  CheckedIsUnchanged
CHECK_DEADLOCK FALSE
