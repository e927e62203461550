CONSTANTS
  MaxTasks = 2
  Runners = {r1, r2}
  NoRunner = NoRunner
  MaxStalls = 1
  MaxFaults = 1
SPECIFICATION FairSpec
INVARIANTS TypeOK OneActiveTask ExclusiveExecution SingleHandler
PROPERTIES ImplementsLifecycle TasksTerminate
