CONSTANTS
  Updates = 4
  CommandOf <- PauseForeignResumeRun
  Refused = {}
  DayLength = 2
  DigestHour = 0
  FaultKinds = {"get", "send", "save", "espn", "decide"}
  StopKinds = {"crash", "interrupt"}
  MaxTime = 1
  MaxLeague = 1
  MaxFaults = 2
  MaxStops = 1
  MaxRepeats = 5
SPECIFICATION FairSpec
INVARIANTS
  TypeOK
  NoCommandLost
  RepeatsHaveCause
  PausePromiseKept
PROPERTIES
  CompletedNotReplayed
  UpdatesSettled
CHECK_DEADLOCK FALSE
