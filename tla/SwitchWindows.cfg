CONSTANTS
  o1 = o1  o2 = o2  r1 = r1
  Workers = {1, 2, 3, 4, 5}
  Calls = {r1, r2}
  Operations = {o1, o2}
  Plans <- MCPlans
  MaxAttempts = 2
  Nobody = Nobody
SPECIFICATION FairSpec
INVARIANTS WorkersAccounted SessionQuiet
PROPERTIES NotLostToSwitch WaitsEnd CrashesRecovered
CHECK_DEADLOCK FALSE
