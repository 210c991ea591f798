CONSTANTS
  k1 = k1
  k2 = k2
  a1 = a1
  a2 = a2
  c1 = c1
  c2 = c2
  NoEntry = NoEntry
  NoKey = NoKey
  Keys = {k1, k2}
  Callers = {c1}
  Actions = {a1}
  KeysOf <- SharedKeys
  ActionOf <- OneAction
  Approval <- Approvals
  ExpiresAt <- Expiries
  Controls = {"global", "pause", "action"}
  MaxTime = 0
  MaxFaults = 1
  MaxCrashes = 1
  MaxLines = 9
SPECIFICATION Spec
INVARIANTS
  TypeOK
  AtMostOneDispatch
  OneAnswer
  DurableBeforeDispatch
  DeniedNeverDispatched
PROPERTIES
  ReviewGate
CHECK_DEADLOCK FALSE
