SPECIFICATION Spec
CONSTANTS
  base = base
  same = same
  far = far
  alien = alien
  snap = snap
  root = root
  d1 = d1
  d2 = d2
  f1 = f1
  f2 = f2
  b1 = b1
  b2 = b2
  NoBase = NoBase
  NoFile = NoFile
  Reports = {base, same, far, alien, snap}
  Targets = {base}
  Files = {f1, f2}
  Dirs = {root, d1, d2}
  Root = root
  Bases = {b1, b2}
  MaxCount = 2
  ModuleOf <- MCModuleOf
  CommitOf <- MCCommitOf
  Snapshots <- MCSnapshots
  Kids <- MCKids
  Diff <- MCDiff
  Uploads <- MCUploads
INVARIANTS TypeOK StatsFitLines MergeCanBeRetried MergeOrderIsFree RebaseForgets
  SnapshotIsFaithful IncrementsCanBeReached
PROPERTIES CoverageIsKept
