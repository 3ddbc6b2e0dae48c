SPECIFICATION FairSpec
CONSTANTS
  r1 = r1
  r2 = r2
  r3 = r3
  t1 = t1
  t2 = t2
  t3 = t3
  Requests = {r1, r2, r3}
  Tasks = {t1, t2, t3}
  Starter <- MCStarter
INVARIANTS
  CleanExitLosesNothing
PROPERTY
  NoTaskStartsLate
  SignalEndsServer
