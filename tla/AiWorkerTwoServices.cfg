CONSTANTS
  q1 = q1  q2 = q2  q3 = q3  q4 = q4  tts = tts  rag = rag  k1 = k1  k2 = k2  m1 = m1
  Requests = {q1, q2, q3, q4}
  Attempts = {k1}
  Recoveries = {k1}
  Services = {rag, tts}
  ServiceOf <- TwoServices
  Priority <- BulkAndTts
  Limit <- Limits
  Plans <- Shared
  MaxInflight = 3
  Slots = 1
SPECIFICATION Spec
SYMMETRY Alike
INVARIANT SlotsExact
CHECK_DEADLOCK FALSE
