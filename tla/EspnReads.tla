------------------------------ MODULE EspnReads ------------------------------
(***************************************************************************)
(* How the service reads ESPN: each attempt of ReadHealthMonitor.poll is   *)
(* EspnApiReader.read_snapshot (espn_adapter.py), which takes the          *)
(* credentials from the session file, asks ESPN with them, and makes one   *)
(* of the adapter's errors of whatever the provider's library raises.      *)
(*                                                                         *)
(* The session file is a register here (WholeFile), which OwnerOnlyFile    *)
(* implements.                                                             *)
(***************************************************************************)
EXTENDS ReadHealthMonitor

CONSTANTS
  Sessions,   \* what an interactive login may leave in the session file
  NoSession,  \* the file is missing, or of no use
  Nothing     \* no credentials are held

ASSUME ReadsAssumption ==
  NoSession \notin Sessions /\ Nothing \notin Sessions \cup {NoSession}

VARIABLES
  session,    \* what the session file holds
  accepted,   \* sessions ESPN accepts
  espn,       \* "up", "down", or "odd": its answers are not those of a league
  held        \* the credentials of the attempt in progress

worldVars == <<session, accepted, espn>>
readsVars == <<vars, worldVars, held>>

ReadsInit ==
  /\ Init
  /\ session = NoSession /\ accepted = Sessions /\ espn = "up"
  /\ held = Nothing

\* The words _classify_provider_error looks for in the text of an exception, by
\* the class they stand for.  The text is the library's, or that of a proxy or a
\* socket below it: it may hold any of them, whatever the matter is, or none.
Words == {"denied", "invalid", "transient"}

Classify(text) ==
  IF "denied" \in text THEN "denied"
  ELSE IF "invalid" \in text THEN "invalid"
  ELSE IF "transient" \in text THEN "transient" ELSE "schema"

-----------------------------------------------------------------------------
\* get_espn_credentials, at every attempt anew.
ReadSession ==
  /\ pc = "read" /\ held = Nothing
  /\ held' = session
  /\ UNCHANGED <<vars, worldVars>>

\* SecretProviderError is none of the adapter's errors.
NoCredentials ==
  /\ held = NoSession /\ held' = Nothing
  /\ ReadRaises
  /\ UNCHANGED worldVars

\* The league of an answer is normalized, or its shape is wrong.
AskSucceeds ==
  /\ \/ espn = "up" /\ held \in accepted /\ \E age \in 0 .. MaxAge : ReadSnapshot(age, TRUE)
     \/ espn = "odd" /\ \E age \in Ages, complete \in BOOLEAN :
                           ~Valid(age, complete) /\ ReadSnapshot(age, complete)

AskFails ==
  /\ espn = "up" => held \notin accepted
  /\ \E text \in SUBSET Words : ReadFails(Classify(text))

\* Mutation: the credentials of the first attempt serve all later ones.
Ask_KeepsCredentials ==
  /\ held \in Sessions /\ held' = held
  /\ AskSucceeds \/ AskFails
  /\ UNCHANGED worldVars

\* The call of the provider, with a new League object.
Ask ==
  /\ held \in Sessions /\ held' = Nothing
  /\ AskSucceeds \/ AskFails
  /\ UNCHANGED worldVars

StartPoll == Poll /\ UNCHANGED <<worldVars, held>>

WaitForRetry == Wait /\ UNCHANGED <<worldVars, held>>

RestartService == Restart /\ held' = Nothing /\ UNCHANGED worldVars

-----------------------------------------------------------------------------
\* The owner captures a session or clears it, a loss of power brings back an
\* old one: the register changes.
ChangeSession ==
  /\ session' \in Sessions \cup {NoSession}
  /\ UNCHANGED <<vars, accepted, espn, held>>

\* ESPN ends a session, or a login renews it.
ChangeAccepted ==
  /\ accepted' \in SUBSET Sessions
  /\ UNCHANGED <<vars, session, espn, held>>

ChangeEspn ==
  /\ espn' \in {"up", "down", "odd"}
  /\ UNCHANGED <<vars, session, accepted, held>>

ServiceStep == StartPoll \/ ReadSession \/ NoCredentials \/ Ask \/ WaitForRetry

ReadsNext ==
  \/ ServiceStep \/ RestartService
  \/ ChangeSession \/ ChangeAccepted \/ ChangeEspn

ReadsSpec == ReadsInit /\ [][ReadsNext]_readsVars

\* run_forever polls again and again; every wait is a bounded sleep.
ReadsFairSpec == ReadsSpec /\ WF_readsVars(ServiceStep)

-----------------------------------------------------------------------------
(* Properties *)

\* A failure that lasts, a refusal of the session among them, is told to the
\* owner, and once: whatever its texts say, now one thing and now another, no
\* way of classifying, retrying and counting them keeps the service quiet or
\* has it repeat itself.  A new process may tell it again (poll).
OutageIsTold ==
  <>[][~RestartService]_readsVars =>
    \A s \in Sessions :
      <>[](session = s /\ (espn # "up" \/ s \notin accepted))
      => <>[](unhealthy /\ alerts = 1)

\* Once ESPN answers and accepts the session the file holds, the service
\* recovers and stays healthy, without a restart, whatever it was reading or
\* waiting for when that began.
ReauthenticationRecovers ==
  \A s \in Sessions :
    <>[](espn = "up" /\ session = s /\ s \in accepted) => <>[](~unhealthy)
=============================================================================
