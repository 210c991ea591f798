CONSTANTS
  Sessions = {s1, s2}
  NoSession = NoSession
  Nothing = Nothing
  Attempts = 5
  InitialDelay = 1
  MaxDelay = 3
  MaxAge = 1
  Writers = {w1, w2}
  Readers = {r1}
  Values = {s1, s2}
  NoFile = NoFile
  Torn = Torn
  MaxFaults = 1
  MaxCrashes = 1
  MaxKills = 1
  MaxToolFaults = 2
  d1 = d1
  d2 = d2
  d3 = d3
  Tools = {t1, t2}
  Decisions = {d1, d2, d3}
  InSeason = {d2, d3}
  PublicId <- PublicIds
  NoReport = NoReport
SPECIFICATION FilesFairSpec
INVARIANTS
  OneAlertAnOutage
  PollIsBounded
  AnnouncedIsKept
  LeftoverHasCause
PROPERTIES
  RecoveryAnswersAlert
  OutageIsTold
  ReauthenticationRecovers
  RegisterSpec
CHECK_DEADLOCK FALSE
