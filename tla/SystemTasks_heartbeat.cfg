CONSTANTS
  MaxTasks = 1
  Runners = {r1, r2, r3}
  NoRunner = NoRunner
  MaxStalls = 0
  MaxFaults = 0
SPECIFICATION FairSpec
PROPERTY HeartbeatProtects
