CONSTANTS
  Runs = {r1}
  Items = {i1}
  Workers = {w1}
  Requests = {q1}
  PlanIds = {p1, p2}
  NodeCount = 1
  MaxRetry = 1
  NoItem = NoItem
  NoRun = NoRun
SPECIFICATION NoFaultSpec
INVARIANT ExecutedPlanWasApproved
