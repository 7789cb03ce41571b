\* One execution and three requests open at a time
CONSTANTS
  Executions = {e1}
  Requests = {r1, r2, r3}
  MaxRetries = 1
  NoExecution = NoExecution
  Free = Free
SPECIFICATION FairSpec
INVARIANT NothingRunsUnapproved
INVARIANT AttemptsBounded
INVARIANT AttemptsTakeTurns
PROPERTY ClosedIsOver
PROPERTY ApprovedEnds
CHECK_DEADLOCK FALSE
