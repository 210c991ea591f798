------------------------- MODULE ReadHealthMonitor -------------------------
(***************************************************************************)
(* ReadHealthMonitor.poll (health.py) over EspnApiReader.read_snapshot     *)
(* (espn_adapter.py): bounded retries with a growing wait, and the events  *)
(* that tell the service of an outage and of its end.                      *)
(*                                                                         *)
(* ESPN's answers appear as what the reader makes of them; the monitor     *)
(* alone decides what is retried.                                          *)
(***************************************************************************)
EXTENDS Integers, FiniteSets

CONSTANTS
  Attempts, InitialDelay, MaxDelay,  \* RetryPolicy
  MaxAge                             \* of a snapshot

ASSUME MonitorAssumption ==
  /\ Attempts \in Nat \ {0} /\ InitialDelay \in Nat /\ MaxDelay \in Nat
  /\ MaxAge \in Nat \ {0}

VARIABLES
  pc,         \* "idle", or within poll: "read" or "wait"
  attempt,
  unhealthy,  \* _unhealthy
  result,     \* the PollResult of the last poll
  waited,     \* time this poll has waited
  alerts      \* alerts since the last good read of this process

vars == <<pc, attempt, unhealthy, result, waited, alerts>>

-----------------------------------------------------------------------------
Errors == {"denied", "invalid", "transient", "schema", "integrity"}

NoResult == [snapshot |-> FALSE, events |-> {}]

Results == [snapshot : BOOLEAN, events : SUBSET {"lost_access", "service_failure", "recovered"}]

Init ==
  /\ pc = "idle" /\ attempt = 1 /\ unhealthy = FALSE
  /\ result = NoResult /\ waited = 0 /\ alerts = 0

\* _validate_snapshot: neither from the future nor too old, and complete.
Valid(age, complete) == age \in 0 .. MaxAge /\ complete

Retryable(error) == error \in {"transient", "integrity"}

\* The wait after the n-th attempt.
Delay(n) ==
  IF InitialDelay * 2^(n - 1) < MaxDelay THEN InitialDelay * 2^(n - 1) ELSE MaxDelay

\* Mutation: every failed poll has its event.
FailureEvents_EachPoll(kind) == {kind}

FailureEvents(kind) == IF unhealthy THEN {} ELSE {kind}

Poll ==
  /\ pc = "idle"
  /\ pc' = "read" /\ attempt' = 1 /\ waited' = 0
  /\ result' = NoResult
  /\ UNCHANGED <<unhealthy, alerts>>

\* Mutation: a good read does not end the outage.
Succeed_StillUnhealthy ==
  /\ pc' = "idle"
  /\ result' = [snapshot |-> TRUE, events |-> IF unhealthy THEN {"recovered"} ELSE {}]
  /\ unhealthy' = unhealthy /\ alerts' = 0
  /\ UNCHANGED <<attempt, waited>>

Succeed ==
  /\ pc' = "idle"
  /\ result' = [snapshot |-> TRUE, events |-> IF unhealthy THEN {"recovered"} ELSE {}]
  /\ unhealthy' = FALSE /\ alerts' = 0
  /\ UNCHANGED <<attempt, waited>>

Fail(kind) ==
  /\ pc' = "idle"
  /\ result' = [snapshot |-> FALSE, events |-> FailureEvents(kind)]
  /\ unhealthy' = TRUE
  /\ alerts' = alerts + Cardinality(FailureEvents(kind))
  /\ UNCHANGED <<attempt, waited>>

\* Mutation: the last attempt waits for another one.
FailAttempt_OneMore(error) ==
  IF error = "denied" THEN Fail("lost_access")
  ELSE IF Retryable(error) /\ attempt <= Attempts
  THEN /\ pc' = "wait"
       /\ UNCHANGED <<attempt, unhealthy, result, waited, alerts>>
  ELSE Fail("service_failure")

\* Mutation: an error that is neither a refusal nor retried leaves poll.
FailAttempt_Escapes(error) ==
  IF error = "denied" THEN Fail("lost_access")
  ELSE IF ~Retryable(error)
  THEN /\ pc' = "idle" /\ result' = NoResult
       /\ UNCHANGED <<attempt, unhealthy, waited, alerts>>
  ELSE IF attempt < Attempts
  THEN /\ pc' = "wait"
       /\ UNCHANGED <<attempt, unhealthy, result, waited, alerts>>
  ELSE Fail("service_failure")

\* What an error of the adapter leads to.
FailAttempt(error) ==
  IF error = "denied" THEN Fail("lost_access")
  ELSE IF Retryable(error) /\ attempt < Attempts
  THEN /\ pc' = "wait"
       /\ UNCHANGED <<attempt, unhealthy, result, waited, alerts>>
  ELSE Fail("service_failure")

ReadSnapshot(age, complete) ==
  /\ pc = "read"
  /\ IF Valid(age, complete) THEN Succeed ELSE FailAttempt("integrity")

ReadFails(error) ==
  /\ pc = "read"
  /\ FailAttempt(error)

\* An exception that is none of the adapter's leaves poll, and the state as
\* it is: the session store has no credentials.
ReadRaises ==
  /\ pc = "read"
  /\ pc' = "idle" /\ result' = NoResult
  /\ UNCHANGED <<attempt, unhealthy, waited, alerts>>

Wait ==
  /\ pc = "wait"
  /\ waited' = waited + Delay(attempt)
  /\ attempt' = attempt + 1
  /\ pc' = "read"
  /\ UNCHANGED <<unhealthy, result, alerts>>

\* A new process has a new monitor.
Restart ==
  /\ pc' = "idle" /\ attempt' = 1 /\ unhealthy' = FALSE
  /\ result' = NoResult /\ waited' = 0 /\ alerts' = 0

\* The clock may have been set back since the snapshot was taken.
Ages == -1 .. MaxAge + 1

Step ==
  \/ \E age \in Ages, complete \in BOOLEAN : ReadSnapshot(age, complete)
  \/ \E error \in Errors \ {"integrity"} : ReadFails(error)
  \/ ReadRaises
  \/ Wait

Next == Poll \/ Step \/ Restart

Spec == Init /\ [][Next]_vars

-----------------------------------------------------------------------------
(* Properties *)

\* Every variable stays in its type.
TypeOK ==
  /\ pc \in {"idle", "read", "wait"}
  /\ attempt \in 1 .. Attempts
  /\ unhealthy \in BOOLEAN /\ result \in Results
  /\ waited \in Nat /\ alerts \in Nat

\* One outage has one alert, however its errors change from poll to poll
\* ("emit at most one alert per unhealthy interval").
OneAlertAnOutage == alerts <= 1

\* The end of an outage is announced, once, and only if its begin was.
RecoveryAnswersAlert ==
  [][pc = "read" /\ pc' = "idle" /\ result'.snapshot
     => ("recovered" \in result'.events <=> alerts = 1)]_vars

\* A poll holds up the service, and with it the owner's commands, for a
\* bounded time only: each attempt RetryPolicy allows but the first has waited
\* once, none waits after the last, and no wait is longer than the longest.
PollIsBounded == attempt <= Attempts /\ waited <= (attempt - 1) * MaxDelay
=============================================================================
