SPECIFICATION Spec
CONSTANTS
  f1 = f1
  f2 = f2
  Files = {f1, f2}
  Dir <- TwoDirs
  Base <- OwnBase
  MaxHits = 1
  MaxSessions = 1
  MaxUploads = 3
INVARIANTS ReportFollowsAgent OneTask
PROPERTY CoverageArrives
