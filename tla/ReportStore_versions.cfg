SPECIFICATION Spec
CONSTANTS
  s1 = s1
  s2 = s2
  f1 = f1
  f2 = f2
  l1 = l1
  l2 = l2
  NoLines = NoLines
  Sessions = {s1, s2}
  Files = {f1}
  Lines = {l1, l2}
  Inside <- MCNoInside
  Kinds = {"read", "create", "rebase"}
  MaxBlocks = 3
SYMMETRY LineSymmetry
INVARIANT ReadersNeverMisled
