CONSTANTS
  p1 = p1  p2 = p2  l1 = l1  l2 = l2
  Producers = {p1, p2}
  Lanes = {l1, l2}
  LaneOf <- OneLane
  Capacity = 2
  MaxItems = 2
  MayClose = TRUE
  Stop = Stop
SPECIFICATION FairSpec
INVARIANTS CountersHonest KeyOrder
PROPERTY WorkEnds
CHECK_DEADLOCK FALSE
