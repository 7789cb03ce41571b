CONSTANTS
  Tasks = {t1}
  Blocked = {}
  Events = {e1, e2, e3}
  Workers = {w1}
  Callers = {c1}
  MaxRetries = 1
  EventRetries = 1
  NoTask = NoTask
  NoEvent = NoEvent
SPECIFICATION Spec
SYMMETRY Symmetry
INVARIANT ExecutionsBounded
INVARIANT GivesUpAfterRetries
PROPERTY EventsImplementRetryQueue
CHECK_DEADLOCK FALSE
