SPECIFICATION Spec
CONSTANTS
  u1 = u1
  u2 = u2
  s1 = s1
  s2 = s2
  a1 = a1
  a2 = a2
  c1 = c1
  c2 = c2
  b1 = b1
  None = None
  Uploads = {u1, u2}
  Snaps = {s1, s2}
  Asks = {a1, a2}
  Commits = {c1, c2, b1}
  Bases = {b1, c2}
  Short <- MCShort
  CommitOf <- MCCommitOf
  RunOf <- MCRunOf
  BaseOf <- MCBaseOf
  MaxNow = 1
  MaxRequests = 3
CHECK_DEADLOCK FALSE
INVARIANTS TypeOK RowsHaveObjects ReportsAreOwn SnapshotsArePast IncrementsAreOfBase
PROPERTIES ShownReportStays CommitIsShown
