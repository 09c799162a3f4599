SPECIFICATION Spec
CONSTANTS
  f1 = f1
  f2 = f2
  Files = {f1, f2}
  Dir <- TwoDirs
  Base <- SameBase
  MaxHits = 1
  MaxSessions = 2
  MaxUploads = 2
INVARIANTS TypeOK ProcessedIsFlushed
