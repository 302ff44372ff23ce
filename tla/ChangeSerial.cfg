SPECIFICATION FairSpec
CONSTANTS
  s1 = s1
  s2 = s2
  v1 = v1
  v2 = v2
  Threads = {t1}
  Candidates = {c1, c2}
  Admins = {a1, a2}
  Nobody = Nobody
  Settings = {s1, s2}
  Values = {v1, v2}
  Absent = Absent
  Dangerous = {v2}
  Initial <- InitialMixed
  Changes <- ChangesTwo
  Unread = Unread
  Gone = Gone
  Faults = {"unreachable", "partial"}
  MaxDeployments = 2
  MaxRollbacks = 1
  MaxSnapshots = 0
INVARIANTS
  SentOnce
  PointIsFresh
PROPERTIES
  ImplementsControl
  ReportsAreTrue
  DeploymentsEnd
CHECK_DEADLOCK FALSE
