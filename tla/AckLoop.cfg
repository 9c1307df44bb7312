SPECIFICATION Spec
CONSTANTS
  Senders = {s1, s2}
  Greetings = 5
  AckEvery = 3
  RcvBuf = 3
  Byte = 2
INVARIANTS AckRate DrainedCount HeadersRead
PROPERTY Quiesces
CHECK_DEADLOCK FALSE
