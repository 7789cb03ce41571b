CONSTANTS
  Tasks = {t1}
  HighRisk = {t1}
  Workers = {w1, w2}
  Requests = {q1, q2, q3}
  Ops = {"claim", "start", "set"}
  ApiIds = {api}
  WorkerId = employee_worker
  Free = Free
  NoTask = NoTask
  NoId = NoId
SPECIFICATION FairNoFaultSpec
INVARIANT ExecutionExclusive
PROPERTY WorkerReleasesLock
CHECK_DEADLOCK FALSE
