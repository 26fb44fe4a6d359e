CONSTANTS
  Messages = {m1, m2}
  Tasks = {t1, t2}
  NoTask = NoTask
  Retriers = {r1}
  MaxRecords = 1
  MaxFaults = 0
  MaxRestarts = 0
SPECIFICATION FairSpec
PROPERTY TurnResolves
CHECK_DEADLOCK FALSE
