SPECIFICATION Spec
CONSTANTS
  r1 = r1
  r2 = r2
  m1 = m1
  m2 = m2
  Main = Main
  Requests = {r1, r2}
  ModuleOf <- MCModuleOf
  Interval = 3
CHECK_DEADLOCK FALSE
INVARIANTS TypeOK TasksMatchSuts
PROPERTIES GetsReady TasksRunAgain
