SPECIFICATION PartSpec
CONSTANTS
  s1 = s1
  s2 = s2
  Station <- Stations
  Creators <- Stations
  WildCreators <- OnlyFirst
  WildMaxId = 1
  MaxId = 2
  None = None
  Never = Never
  NumCreate = 1
  JoinNotify = 2
  JoinSuccess = 1
  LeaveNotify = 2
  Warning = 2
  Continuity = 2
  Trouble = {}
INVARIANTS Consistent PassiveSilent CalmMembersCounted CalmNoGhosts
PROPERTIES NobodyStuck
