CONSTANTS
  t1 = t1
  t2 = t2
  t3 = t3
  t4 = t4
  Timer = {t1, t2}
  App = App
  NoTimer = NoTimer
  Never = Never
  CheckPeriod = 1
  GenMin = 2
  GenMax = 6
  GenDcc = 2
  LfPeriod = 4
  NGenCam = 2
  Failures = {"build", "send"}
  Calm = TRUE
  Events = 2
  Period = 4
  Interval = 2
  Wrap = 8
  GenVam = 2
  LfMin = 5
  Gap = 2
  MaxAge = 9
  Packet <- Packets
  PipeSize = 1
  Received = 3
  None = None
  Retransmit = 3
  Jitter = 2
  Punctual = {TRUE, FALSE}
  MaxRefused = 2
  OnTimes = {1, 2}
  Slower = {1, 2, 4}
  MinGap = 2
  MaxGap = 4
SPECIFICATION PartSpec
CHECK_DEADLOCK FALSE
PROPERTY StopStops
