SPECIFICATION Spec
CONSTANTS
  f1 = f1
  f2 = f2
  Files = {f1, f2}
  Dir <- OneDir
  Base <- OwnBase
  MaxHits = 1
  MaxSessions = 2
  MaxUploads = 3
INVARIANT FullUploadIsUsed
