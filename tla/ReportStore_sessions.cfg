SPECIFICATION Spec
CONSTANTS
  s1 = s1
  s2 = s2
  f1 = f1
  f2 = f2
  l1 = l1
  l2 = l2
  NoLines = NoLines
  Sessions = {s1, s2}
  Files = {f1, f2}
  Lines = {l1}
  Inside <- MCInside
  Kinds = {"read", "base", "write"}
  MaxBlocks = 2
SYMMETRY SessionSymmetry
INVARIANTS TypeOK ReadYourWrites IndexMatchesLines FlushDurable
PROPERTIES BlocksAreKept ReadersLeaveNoTrace KeepsPromise
