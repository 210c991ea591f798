CONSTANTS
  p1 = p1
  p2 = p2
  w1 = w1
  w2 = w2
  Players = {p1, p2}
  Wordings = {w1, w2}
  SafetyWindow = 1
  NoExpiry = NoExpiry
  MaxTradeWindow = 2
  Leagues <- FixedGames
  Answers <- ApprovalAnswers
  References <- ApprovalReferences
  InputSize <- Inputs
  AttemptsPerRole = 2
  MaxTotalCalls = 6
  MaxTotalInput = 8
  MaxOutput = 1
  MaxTotalOutput = 6
  Responses <- SomeResponses
  Flaws = {"notText", "overflow", "policy"}
  MaxSnapshotAge = 1
  MaxTime = 3
  MaxCycles = 2
  MaxFaults = 1
  Doubtful = Doubtful
  NoWeek = NoWeek
  Times = {2, 3, 5}
  MaxNow = 2
SPECIFICATION ApprovalsSpec
INVARIANTS
  AsksJustWhenSafe
  StableReference
  DeadlinesAreCertain
  BudgetKept
  ApprovalsAreBacked
PROPERTIES
  AnsweredIsReady
  ApprovedBeforeGames
  LifecycleSpec
  HeardAnswersFit
CHECK_DEADLOCK FALSE
