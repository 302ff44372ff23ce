SPECIFICATION Spec
CONSTANTS
  s1 = s1
  s2 = s2
  v1 = v1
  v2 = v2
  Threads = {t1, t2}
  Candidates = {c1}
  Admins = {a1, a2}
  Nobody = Nobody
  Settings = {s1}
  Values = {v1}
  Absent = Absent
  Dangerous = {}
  Initial <- InitialNone
  Changes <- ChangesOne
  Unread = Unread
  Gone = Gone
  Faults = {"unreachable", "crash", "delete"}
  MaxDeployments = 2
  MaxRollbacks = 1
  MaxSnapshots = 1
SYMMETRY Symmetry
INVARIANTS
  TypeOK
  SentIsCovered
  OutcomeIsEarned
  NamedSnapshotsExist
CHECK_DEADLOCK FALSE
