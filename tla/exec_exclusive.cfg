CONSTANTS
  k1 = k1
  k2 = k2
  a1 = a1
  a2 = a2
  c1 = c1
  c2 = c2
  NoEntry = NoEntry
  NoKey = NoKey
  Keys = {k1, k2}
  Callers = {c1, c2}
  Actions = {a1}
  KeysOf <- OwnKeys
  ActionOf <- OneAction
  Approval <- Approvals
  ExpiresAt <- Expiries
  Controls = {}
  MaxTime = 1
  MaxFaults = 0
  MaxCrashes = 1
  MaxLines = 7
SPECIFICATION Spec
INVARIANTS
  AnswerInv
  HonestAnswers
PROPERTIES
  WriteSpec
CHECK_DEADLOCK FALSE
