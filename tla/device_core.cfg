CONSTANTS
  Devices = {d1, d2, d3}
  Managed = {d1}
  Tokens = {k1, k2}
  Codes = {c1, c2, c3}
  Nonces = {n1}
  Observations = {o1}
  Requests = {r1, r2}
  None = None
SPECIFICATION Spec
SYMMETRY Symmetry
INVARIANT TokenIsLimited
INVARIANT LastDecisionHolds
PROPERTY ShutDeviceRefuses
CHECK_DEADLOCK FALSE
