CONSTANTS
  Messages = {m1}
  Tasks = {t1, t2, t3}
  NoTask = NoTask
  Retriers = {r1, r2}
  MaxRecords = 1
  MaxFaults = 1
  MaxRestarts = 1
SYMMETRY Symmetry
SPECIFICATION Spec
INVARIANTS TypeOK AnswerKept ClaimExclusive OneGeneration
PROPERTIES NoCallForAnswered LedgerSpec
CHECK_DEADLOCK FALSE
