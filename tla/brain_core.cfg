\* One run with two plans, two items, one API request at a time, one fair worker, every failure
CONSTANTS
  Runs = {r1}
  Items = {i1, i2}
  Workers = {w1}
  Requests = {q1}
  PlanIds = {p1, p2}
  NodeCount = 2
  MaxRetry = 1
  NoItem = NoItem
  NoRun = NoRun
SPECIFICATION FairSpec
INVARIANT NoExecutionWithoutApproval
PROPERTY SuccessNeedsEveryNode
PROPERTY ImplementsRetryQueue
PROPERTY ItemsSettle
