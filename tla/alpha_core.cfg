\* Two requests of any two users with one trace, one cancel or recover call at a time
CONSTANTS
  Requests = {q1, q2}
  Calls = {c1, c2}
  Users = {u1, u2}
  Traces = {t1}
  Identities = {a, b}
  Reasons = {x}
  NoRun = NoRun
  NoReason = NoReason
SPECIFICATION FairSpec
INVARIANT ReplayMatches
INVARIANT OnlyLastRecordSurvives
INVARIANT RecoveredRunIsQuiet
INVARIANT CompletedIsWhole
PROPERTY RunsEnd
CHECK_DEADLOCK FALSE
