--------------------------- MODULE EspnReadsProofs ---------------------------
(***************************************************************************)
(* For any sessions, any retry policy and any number of polls: one alert   *)
(* an outage, a notice of recovery exactly after an alert and bounded      *)
(* waits; and the composition of the monitor with the reader keeps what    *)
(* holds of the monitor.                                                   *)
(***************************************************************************)
EXTENDS EspnReads, FiniteSetTheorems, TLAPS

-----------------------------------------------------------------------------
(* The monitor *)

\* The monitor is unhealthy just while there is an alert without a recovery.
AlertInv == unhealthy \in BOOLEAN /\ alerts = IF unhealthy THEN 1 ELSE 0

LEMMA InitAlertInv == Init => AlertInv
BY DEF Init, AlertInv

LEMMA FailKeepsAlertInv ==
  ASSUME AlertInv, NEW kind, Fail(kind)
  PROVE  AlertInv'
<1>1. CASE unhealthy
  <2>1. Cardinality(FailureEvents(kind)) = 0
    BY <1>1, FS_EmptySet DEF FailureEvents
  <2> QED BY <1>1, <2>1 DEF AlertInv, Fail
<1>2. CASE ~unhealthy
  <2>1. Cardinality(FailureEvents(kind)) = 1
    BY <1>2, FS_Singleton DEF FailureEvents
  <2> QED BY <1>2, <2>1 DEF AlertInv, Fail
<1> QED BY <1>1, <1>2

LEMMA FailAttemptKeepsAlertInv ==
  ASSUME AlertInv, NEW error, FailAttempt(error)
  PROVE  AlertInv'
<1>1. CASE Fail("lost_access") BY <1>1, FailKeepsAlertInv
<1>2. CASE Fail("service_failure") BY <1>2, FailKeepsAlertInv
<1>3. CASE UNCHANGED <<unhealthy, alerts>> BY <1>3 DEF AlertInv
<1> QED BY <1>1, <1>2, <1>3 DEF FailAttempt

LEMMA NextAlertInv == AlertInv /\ [Next]_vars => AlertInv'
<1> SUFFICES ASSUME AlertInv, [Next]_vars PROVE AlertInv'
  OBVIOUS
<1>1. CASE Poll BY <1>1 DEF AlertInv, Poll
<1>2. ASSUME NEW age \in Ages, NEW complete \in BOOLEAN, ReadSnapshot(age, complete)
      PROVE  AlertInv'
  <2>1. CASE Succeed BY <2>1 DEF AlertInv, Succeed
  <2>2. CASE FailAttempt("integrity") BY <2>2, FailAttemptKeepsAlertInv
  <2> QED BY <1>2, <2>1, <2>2 DEF ReadSnapshot
<1>3. ASSUME NEW error \in Errors, ReadFails(error) PROVE AlertInv'
  BY <1>3, FailAttemptKeepsAlertInv DEF ReadFails
<1>4. CASE ReadRaises BY <1>4 DEF AlertInv, ReadRaises
<1>5. CASE Wait BY <1>5 DEF AlertInv, Wait
<1>6. CASE Restart BY <1>6 DEF AlertInv, Restart
<1>7. CASE UNCHANGED vars BY <1>7 DEF AlertInv, vars
<1> QED BY <1>1, <1>2, <1>3, <1>4, <1>5, <1>6, <1>7 DEF Next, Step

LEMMA AlwaysAlertInv == Spec => []AlertInv
BY InitAlertInv, NextAlertInv, PTL DEF Spec

\* One outage has one alert, however its errors change from poll to poll.
THEOREM OneAlert == Spec => []OneAlertAnOutage
<1>1. AlertInv => OneAlertAnOutage BY DEF AlertInv, OneAlertAnOutage
<1> QED BY <1>1, AlwaysAlertInv, PTL

LEMMA DelayIsBounded ==
  ASSUME NEW n \in Nat \ {0}
  PROVE  Delay(n) \in Int /\ Delay(n) <= MaxDelay
<1>1. 2^(n - 1) \in Int
  <2>1. n - 1 \in Nat
    OBVIOUS
  <2> QED BY <2>1
<1>2. InitialDelay * 2^(n - 1) \in Int
  BY <1>1, MonitorAssumption
<1> QED BY <1>2, MonitorAssumption DEF Delay

LEMMA OneMoreWait ==
  ASSUME NEW n \in Int, NEW m \in Int
  PROVE  ((n + 1) - 1) * m = (n - 1) * m + m
OBVIOUS

\* Each attempt but the first has waited for at most MaxDelay, and the last
\* does not wait.
WaitInv ==
  /\ pc \in {"idle", "read", "wait"}
  /\ attempt \in 1 .. Attempts /\ waited \in Int
  /\ waited <= (attempt - 1) * MaxDelay
  /\ pc = "wait" => attempt < Attempts

LEMMA FailAttemptKeepsWaitInv ==
  ASSUME WaitInv, NEW error, FailAttempt(error)
  PROVE  WaitInv'
BY DEF WaitInv, FailAttempt, Fail

LEMMA NextWaitInv == WaitInv /\ [Next]_vars => WaitInv'
<1> SUFFICES ASSUME WaitInv, [Next]_vars PROVE WaitInv'
  OBVIOUS
<1>0. (1 - 1) * MaxDelay = 0 /\ 1 \in 1 .. Attempts
  BY MonitorAssumption
<1>1. CASE Poll BY <1>0, <1>1 DEF WaitInv, Poll
<1>2. ASSUME NEW age \in Ages, NEW complete \in BOOLEAN, ReadSnapshot(age, complete)
      PROVE  WaitInv'
  <2>1. CASE Succeed BY <2>1 DEF WaitInv, Succeed
  <2>2. CASE FailAttempt("integrity") BY <2>2, FailAttemptKeepsWaitInv
  <2> QED BY <1>2, <2>1, <2>2 DEF ReadSnapshot
<1>3. ASSUME NEW error \in Errors, ReadFails(error) PROVE WaitInv'
  BY <1>3, FailAttemptKeepsWaitInv DEF ReadFails
<1>4. CASE ReadRaises BY <1>4 DEF WaitInv, ReadRaises
<1>5. CASE Wait
  <2>1. /\ attempt \in Nat \ {0} /\ attempt < Attempts /\ waited \in Int
        /\ waited <= (attempt - 1) * MaxDelay
    BY <1>5, MonitorAssumption DEF Wait, WaitInv
  <2>2. ((attempt + 1) - 1) * MaxDelay = (attempt - 1) * MaxDelay + MaxDelay
    BY <2>1, MonitorAssumption, OneMoreWait
  <2>3. (attempt - 1) * MaxDelay \in Int
    BY <2>1, MonitorAssumption
  <2>4. /\ waited + Delay(attempt) \in Int
        /\ waited + Delay(attempt) <= ((attempt + 1) - 1) * MaxDelay
    BY <2>1, <2>2, <2>3, DelayIsBounded, MonitorAssumption
  <2>5. attempt + 1 \in 1 .. Attempts
    BY <2>1, MonitorAssumption
  <2> QED BY <1>5, <2>4, <2>5 DEF Wait, WaitInv
<1>6. CASE Restart BY <1>0, <1>6 DEF WaitInv, Restart
<1>7. CASE UNCHANGED vars BY <1>7 DEF WaitInv, vars
<1> QED BY <1>1, <1>2, <1>3, <1>4, <1>5, <1>6, <1>7 DEF Next, Step

\* A poll waits for a bounded time only, for every retry policy: as often and
\* as long as RetryPolicy says, however the waits grow.
THEOREM WaitsAreBounded == Spec => []PollIsBounded
<1>1. Init => WaitInv
  BY MonitorAssumption DEF Init, WaitInv
<1>2. WaitInv => PollIsBounded
  BY MonitorAssumption DEF WaitInv, PollIsBounded
<1> QED BY <1>1, <1>2, NextWaitInv, PTL DEF Spec

LEMMA FailAttemptHasNoSnapshot ==
  ASSUME NEW error, FailAttempt(error), pc' = "idle"
  PROVE  ~result'.snapshot
BY DEF FailAttempt, Fail

\* The end of an outage is announced, once, and only if its begin was.
THEOREM RecoveryAnswers == Spec => RecoveryAnswersAlert
<1> DEFINE Answers == pc = "read" /\ pc' = "idle" /\ result'.snapshot
                      => ("recovered" \in result'.events <=> alerts = 1)
<1>1. AlertInv /\ [Next]_vars => [Answers]_vars
  <2> SUFFICES ASSUME AlertInv, Next, pc = "read", pc' = "idle", result'.snapshot
               PROVE  "recovered" \in result'.events <=> alerts = 1
    OBVIOUS
  <2>1. CASE Poll BY <2>1 DEF Poll
  <2>2. ASSUME NEW age \in Ages, NEW complete \in BOOLEAN, ReadSnapshot(age, complete)
        PROVE  "recovered" \in result'.events <=> alerts = 1
    <3>1. CASE Succeed BY <3>1 DEF AlertInv, Succeed
    <3>2. CASE FailAttempt("integrity") BY <3>2, FailAttemptHasNoSnapshot
    <3> QED BY <2>2, <3>1, <3>2 DEF ReadSnapshot
  <2>3. ASSUME NEW error \in Errors, ReadFails(error) PROVE FALSE
    BY <2>3, FailAttemptHasNoSnapshot DEF ReadFails
  <2>4. CASE ReadRaises BY <2>4 DEF ReadRaises, NoResult
  <2>5. CASE Wait BY <2>5 DEF Wait
  <2>6. CASE Restart BY <2>6 DEF Restart, NoResult
  <2> QED BY <2>1, <2>2, <2>3, <2>4, <2>5, <2>6 DEF Next, Step
<1> QED BY <1>1, AlwaysAlertInv, PTL DEF Spec, RecoveryAnswersAlert

-----------------------------------------------------------------------------
(* The monitor with the reader below it *)

LEMMA GoodAges == 0 .. MaxAge \subseteq Ages
BY MonitorAssumption DEF Ages

\* The reader and the world below it make no step of the monitor that is not
\* its own: what holds of ReadHealthMonitor holds of the composition.
THEOREM ReadsImplementMonitor == ReadsSpec => Spec
<1>1. ReadsInit => Init BY DEF ReadsInit
<1>2. [ReadsNext]_readsVars => [Next]_vars
  <2> SUFFICES ASSUME [ReadsNext]_readsVars PROVE [Next]_vars
    OBVIOUS
  <2>1. CASE StartPoll BY <2>1 DEF StartPoll, Next
  <2>2. CASE ReadSession BY <2>2 DEF ReadSession
  <2>3. CASE NoCredentials BY <2>3 DEF NoCredentials, Next, Step
  <2>4. CASE Ask
    <3>1. CASE AskSucceeds
      <4>1. PICK age \in Ages, complete \in BOOLEAN : ReadSnapshot(age, complete)
        BY <3>1, GoodAges DEF AskSucceeds
      <4> QED BY <4>1 DEF Next, Step
    <3>2. CASE AskFails
      <4>1. PICK text \in SUBSET Words : ReadFails(Classify(text)) BY <3>2 DEF AskFails
      <4>2. Classify(text) \in Errors \ {"integrity"} BY DEF Classify, Errors
      <4> QED BY <4>1, <4>2 DEF Next, Step
    <3> QED BY <2>4, <3>1, <3>2 DEF Ask
  <2>5. CASE WaitForRetry BY <2>5 DEF WaitForRetry, Next, Step
  <2>6. CASE RestartService BY <2>6 DEF RestartService, Next
  <2>7. CASE ChangeSession \/ ChangeAccepted \/ ChangeEspn
    BY <2>7 DEF ChangeSession, ChangeAccepted, ChangeEspn
  <2>8. CASE UNCHANGED readsVars BY <2>8 DEF readsVars
  <2> QED BY <2>1, <2>2, <2>3, <2>4, <2>5, <2>6, <2>7, <2>8 DEF ReadsNext, ServiceStep
<1> QED BY <1>1, <1>2, PTL DEF ReadsSpec, Spec
=============================================================================
