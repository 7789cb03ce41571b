CONSTANTS
  N = 2
  Guarded = {2}
  Checkpoints = {c1, c2}
  Requests = {r1, r2}
  MaxFaults = 1
  None = None
SPECIFICATION Spec
SYMMETRY Symmetry
INVARIANT PerformedOnce
INVARIANT PerformedWhenDue
INVARIANT DeliveredWhole
INVARIANT CaptureKept
PROPERTY ImplementsStepLedger
CHECK_DEADLOCK FALSE
