CONSTANTS
  c1 = c1
  c2 = c2
  p = p
  q = q
  Caller = {c1, c2}
  Keeper = keeper
  Server = server
  Provider = {1}
  Consumer = {2}
  Sub = {p}
  Owner <- OneConsumer
  Notify <- OwnNotify
  Many <- OwnMany
  Filtered = {}
  Valid = 0
  MaxId = 2
  MaxSubs = 1
  Stall = 1
  Ways <- OwnWays
  None = None
SPECIFICATION Spec
INVARIANTS Farewell
PROPERTIES NotTooOften KeepsPromise
