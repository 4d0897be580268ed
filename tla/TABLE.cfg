CONSTANTS
  Wrap = 16
  Station = {s1, s2}
  SeqNo = {0, 1, 2}
  DplLength = 2
  Lifetime = 3
  Second = 2
  MaxDelay = 3
  Start = 12
  MaxClock = 19
  ZeroTst = FALSE
  s = s
  a = a
  b = b
  c = c
SPECIFICATION PartSpec
CHECK_DEADLOCK FALSE
INVARIANTS AcceptedOnce SettledIsListed
PROPERTIES StormDiesOut
