SPECIFICATION PartSpec
CONSTANTS
  d1 = d1
  d2 = d2
  r1 = r1
  r2 = r2
  t1 = t1
  t2 = t2
  t3 = t3
  t4 = t4
  t5 = t5
  t6 = t6
  u1 = u1
  u2 = u2
  u3 = u3
  App = App
  Never = Never
  Addr = {d1, d2}
  Request = {r1, r2}
  dest <- OneDest
  Scf = {r2}
  Timer = {t1, t2, t3, t4, t5, t6}
  NoTimer = NoTimer
  Rx = Rx
  MaxRetrans = 1
  MaxPackets = 2
  HeardMayExpire = TRUE
  PromptStore = TRUE
  CamTimer = {u1, u2, u3}
  CheckPeriod = 1
  GenMin = 1
  GenMax = 1
  GenDcc = 1
  LfPeriod = 1
  NGenCam = 2
  Failures = {"build", "ldm"}
INVARIANTS NeverStranded ServiceAlive
PROPERTIES DeliversAtMostOnce
CHECK_DEADLOCK FALSE
SYMMETRY Symmetry
