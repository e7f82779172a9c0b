SPECIFICATION Spec
CONSTANTS
  MaxTimers = 2
  MaxWatches = 1
  MaxTasks = 2
  MaxFds = 2
  Posters = {p}
INVARIANTS TablesAgree NoSleepOnTask TasksInOrder
PROPERTIES SourcesServed TasksRun
