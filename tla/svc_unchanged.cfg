CONSTANTS
  Updates = 0
  CommandOf <- NoCommands
  Refused = {}
  DayLength = 2
  DigestHour = 1
  FaultKinds = {}
  StopKinds = {}
  MaxTime = 2
  MaxLeague = 1
  MaxFaults = 0
  MaxStops = 0
  MaxRepeats = 5
SPECIFICATION Spec
INVARIANTS
  UnchangedNotRedecided
CHECK_DEADLOCK FALSE
