CONSTANTS
  Assets = {k1, k2}
  Managed = {k1}
  Versions = {v1, v2, v3}
  Contents = {c1, c2}
  Reports = {p1}
  Requests = {r1, r2}
  None = None
SPECIFICATION Spec
SYMMETRY Symmetry
CONSTRAINT ThirdVersion
INVARIANT VersionsInOrder
INVARIANT IndexFollowsContent
INVARIANT PublishedAsSeen
INVARIANT HighRiskConfirmed
INVARIANT ReportOnce
CHECK_DEADLOCK FALSE
