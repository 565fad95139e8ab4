CONSTANTS
  p1 = p1
  p2 = p2
  NoProc = NoProc
  Procs = {p1, p2}
  Builds = {1, 2, 3, 4, 5}
  Databases <- MCDatabases
  MaxStarts = 4
SPECIFICATION MigrationsSpec
INVARIANTS SchemaAsRecorded RefusedForCause
PROPERTIES OpensComplete
CHECK_DEADLOCK FALSE
