CONSTANTS
  q1 = q1  q2 = q2  q3 = q3  q4 = q4  tts = tts  rag = rag  k1 = k1  k2 = k2  m1 = m1
  Requests = {q1, q2}
  Attempts = {k1, k2, m1}
  Recoveries = {k1, k2}
  Services = {rag}
  ServiceOf <- OneService
  Priority <- HotAndBulk
  Limit <- Limits
  Plans <- CallsOrUser
  MaxInflight = 3
  Slots = 1
SPECIFICATION FairSpec
INVARIANTS Inv ReplacedWhenIdle
PROPERTIES SettledOnce CallsSettle
CHECK_DEADLOCK FALSE
