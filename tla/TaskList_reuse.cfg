SPECIFICATION BoardSpec
CONSTANTS
  Agents = {a, b}
  Nil = Nil
  Updates <- MCUpdates
  MaxTasks = 2
  MaxBirths = 3
  MaxRevision = 2
  MaxFailures = 1
PROPERTY CheckedIsCurrent
CHECK_DEADLOCK FALSE
