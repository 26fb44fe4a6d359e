CONSTANTS
  r1 = r1  r2 = r2
  Runs = {r1, r2}
  Plans <- MCPlans
  Calls <- MCCalls
  Cancellable = {r1}
  ClosePlans <- MCClosePlans
  MaxWorkers = 1
  Capacity = 1
  MaxRetired = 1
  MaxStartFails = 1
  Stop = Stop
  NoCall = NoCall
SPECIFICATION FairSpec
INVARIANTS PoolInv SlotMeansWorker NoCallStarves OneSource
PROPERTY RunsEnd
CHECK_DEADLOCK FALSE
