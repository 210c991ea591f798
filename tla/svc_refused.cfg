CONSTANTS
  Updates = 2
  CommandOf <- WhyPause
  Refused = {1}
  DayLength = 2
  DigestHour = 1
  FaultKinds = {}
  StopKinds = {}
  MaxTime = 2
  MaxLeague = 1
  MaxFaults = 0
  MaxStops = 0
  MaxRepeats = 2
SPECIFICATION FairSpec
PROPERTIES
  MonitoringGoesOn
CHECK_DEADLOCK FALSE
