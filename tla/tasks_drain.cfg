CONSTANTS
  Tasks = {t1, t2}
  Blocked = {t2}
  Events = {e1, e2, e3}
  Workers = {w1, w2}
  Callers = {}
  MaxRetries = 1
  EventRetries = 1
  NoTask = NoTask
  NoEvent = NoEvent
SPECIFICATION FairSpec
PROPERTY TasksDrain
CHECK_DEADLOCK FALSE
