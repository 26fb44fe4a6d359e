CONSTANTS
  t1 = t1  t2 = t2  t3 = t3
  o1 = o1
  Tasks = {t1, t2, t3}
  Owners = {o1}
  NoTask = NoTask
  Plans <- MCPlans
SPECIFICATION FairSpec
INVARIANTS NamesExclusive ShutdownReachesAll
PROPERTIES NoLateBegin RequestsEnd OverdueStopped
CHECK_DEADLOCK FALSE
