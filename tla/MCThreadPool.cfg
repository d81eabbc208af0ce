SPECIFICATION FairSpec
CONSTANTS
  Workers = {w1, w2}
  Clients = {c1, c2}
  MaxTasks = 3
  MaxWaits = 2
CHECK_DEADLOCK FALSE
INVARIANTS
  TasksSound
  ErrorsKept
PROPERTIES
  WorkEnds
  StopJoins
