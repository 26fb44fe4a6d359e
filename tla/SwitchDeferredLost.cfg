CONSTANTS
  o1 = o1  o2 = o2  r1 = r1
  Workers = {1, 2, 3, 4, 5}
  Calls = {r1}
  Operations = {o1, o2}
  Plans <- ExitPlans
  MaxAttempts = 2
  Nobody = Nobody
SPECIFICATION FairSpec
PROPERTIES DeferredAnswered
CHECK_DEADLOCK FALSE
