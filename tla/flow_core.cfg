CONSTANTS
  Tasks = {1, 2, 3, 4, 5}
  Workers = {w1, w2}
  Steps = 2
  MaxRetries = 1
  EventRetries = 1
  MaxCalls = 1
  MaxFaults = 1
  None = None
SPECIFICATION FlowFairSpec

INVARIANT OneDailyFlow
INVARIANT ChainsDoNotFork
INVARIANT NothingLost
CHECK_DEADLOCK FALSE
PROPERTY DailyFlowEnds
