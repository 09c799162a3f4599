SPECIFICATION Spec
CONSTANTS
  a = a
  b = b
  c = c
  Locks = {a, b, c}
  Modes = {"read", "write"}
  Compiles = TRUE
  MaxReaders = 4
INVARIANTS TypeOK WriterExcludes
PROPERTY WriteLocksEnd
