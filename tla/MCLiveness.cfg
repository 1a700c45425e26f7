SPECIFICATION PartsSpec
CONSTANTS
  Actors = {a1, a2}
  Ids = {i}
  IdOf <- MCIdOf
  NoActor = NoActor
  Removers = {r}
  Closers = {k}
  MaxGenerations = 2
  Clients = {c1, c2}
  None = None
PROPERTIES
  CleanupCompletes
  SessionProgress
  ShutdownsReturn
  DeadServerNoticed
  EventuallySettled
CHECK_DEADLOCK FALSE
