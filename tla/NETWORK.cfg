CONSTANTS
  s = s
  a = a
  b = b
  c = c
  d = d
  Node <- Five
  Source = s
  Reach <- Ladder
  Hops <- LadderHops
  Distance <- SourceNear
  Radius = 3
  MaxHops = 3
  Kind = "GBC"
  Algorithm <- Mixed
  Scf = FALSE
  CanLose = FALSE
  CanRefuse = FALSE
  CanForget = FALSE
  Router <- Four
  Dest = c
  Links <- Lollipop
  Place <- Places
  Later = 5
  Carried = TRUE
  LsRetrans = 1
  Scenarios <- Scenes
  r1 = r1
  r2 = r2
  t1 = t1
  t2 = t2
  t3 = t3
  t4 = t4
  t5 = t5
  t6 = t6
  NoTimer = NoTimer
  Rx = Rx
SPECIFICATION PartSpec
CHECK_DEADLOCK FALSE
INVARIANTS ForwardsOnce ArrivesOnce
PROPERTIES BroadcastsReach AnycastReaches UnicastArrives LookupSettles SilenceReturns
