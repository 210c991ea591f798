CONSTANTS
  d1 = d1
  d2 = d2
  d3 = d3
  d4 = d4
  a1 = a1
  a2 = a2
  a3 = a3
  NoAction = NoAction
  Actions = {a1, a2}
  ActionOf <- ActionIn
  Asks <- Asking
  Decisions = {d1, d2, d3, d4}
  Measured = {a1}
  ExpiresAt <- Deadlines
  Workflows = {w1}
  MaxTime = 1
  MaxFaults = 1
  MaxCrashes = 1
SPECIFICATION Spec
INVARIANTS
  OneVerdict
  AnnouncedIsDurable
CHECK_DEADLOCK FALSE
