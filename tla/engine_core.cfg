CONSTANTS
  Tasks = {t1}
  HighRisk = {}
  Workers = {w1}
  Requests = {q1, q2, q3}
  Ops = {"claim", "confirm", "complete", "fail", "set"}
  ApiIds = {api}
  WorkerId = employee_worker
  Free = Free
  NoTask = NoTask
  NoId = NoId
SPECIFICATION Spec
SYMMETRY Symmetry
INVARIANT StartedOncePerAssignment
INVARIANT CompletedWasRunning
CHECK_DEADLOCK FALSE
