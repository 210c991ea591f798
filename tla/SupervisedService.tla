------------------------- MODULE SupervisedService -------------------------
(***************************************************************************)
(* The supervised service (service.py: SupervisedService and its           *)
(* JsonOperationalStateStore): one loop that handles Telegram updates,     *)
(* polls ESPN through the ReadHealthMonitor (health.py), has the Lead      *)
(* Manager decide, sends health alerts and a daily digest, and saves the   *)
(* little state that is to survive a restart.                              *)
(*                                                                         *)
(* The loop is a single thread.  It is cut into steps where something      *)
(* outside it can be observed or can fail: a Telegram or ESPN call, a call *)
(* of the Lead Manager, a save of the state.                               *)
(***************************************************************************)
EXTENDS Integers, FiniteSets

CONSTANTS
  Updates,     \* number of Telegram updates, with the ids 1 .. Updates
  CommandOf,   \* what each of them is
  Refused,     \* the updates whose reply Telegram never takes: it is too long
  DayLength,   \* ticks per UTC day; a tick is at least the monitor interval
  DigestHour,  \* tick of the day from which the digest is due
  FaultKinds,  \* what may fail: "get", "send", "save", "espn", "decide"
  StopKinds,   \* how the process may end: "crash", "interrupt"
  MaxTime,     \* bound on the clock
  MaxLeague,   \* bound on changes of the league
  MaxFaults,   \* bound on failures
  MaxStops,    \* bound on ends of the process
  MaxRepeats   \* commands are counted no further

\* "other" is a command that leaves the modelled state alone, "foreign" comes
\* from a user that is not allowed, "noise" does not decode.
Commands == {"pause", "resume", "run", "other", "foreign", "noise"}

ASSUME ServiceAssumption ==
  /\ Updates \in Nat /\ CommandOf \in [1 .. Updates -> Commands]
  /\ Refused \subseteq 1 .. Updates
  /\ DayLength \in Nat \ {0} /\ DigestHour \in Nat
  /\ FaultKinds \subseteq {"get", "send", "save", "espn", "decide"}
  /\ StopKinds \subseteq {"crash", "interrupt"}
  /\ MaxTime \in Nat /\ MaxLeague \in Nat \ {0} /\ MaxFaults \in Nat /\ MaxStops \in Nat
  /\ MaxRepeats \in Nat \ {0}

VARIABLES
  up,         \* the process runs
  mem,        \* _state, the OperationalState in memory
  durable,    \* service-state.json
  paused,     \* RuntimeWriteState.paused
  unhealthy,  \* ReadHealthMonitor._unhealthy
  loop,       \* where run_once is, with its live locals
  sent,       \* Telegram: updates sent so far
  confirmed,  \* Telegram: updates below are forgotten, an offset confirmed them
  clock, league,
  \* what the user and the history have seen
  handled,    \* per update: how often its command took effect, up to MaxRepeats
  promised,   \* the write mode the last acknowledged command announced
  unsaved,    \* a save of the state has failed
  alerts,     \* urgent alerts delivered since ESPN access was last all right
  digests,    \* per day: digests delivered
  decided,    \* per state of the league: decision cycles recorded
  faults, stops   \* failures; ends of the process, of its own accord or not

worldVars == <<sent, confirmed, clock, league>>
seenVars == <<handled, promised, unsaved, alerts, digests, decided>>
vars == <<up, mem, durable, paused, unhealthy, loop, worldVars, seenVars,
          faults, stops>>

-----------------------------------------------------------------------------
Days == 0 .. (MaxTime \div DayLength)
Never == -1
NoFingerprint == <<0, Never>>

\* OperationalState.  The offset is the id of the next update; the other
\* markers are Never before the first save.
State == [offset : 1 .. Updates + 1, digest : Days \cup {Never},
          monitor : Nat \cup {Never}, fingerprint : Nat \X (Nat \cup {Never}),
          unhealthy : BOOLEAN, paused : BOOLEAN]

FreshState == [offset |-> 1, digest |-> Never, monitor |-> Never,
               fingerprint |-> NoFingerprint, unhealthy |-> FALSE, paused |-> FALSE]

Labels == {"idle", "update", "savePause", "reply", "advance", "cycle", "alert",
           "recover", "saveCycle", "decide", "saveFingerprint", "digest",
           "saveDigest", "failure", "saveFailure"}

\* head .. last are the updates of the batch still to be handled; read is the
\* snapshot (0: none) of a cycle run for the schedule or for a command.
Loop == [pc : Labels, head : 1 .. Updates + 1, last : 0 .. Updates,
         origin : {"schedule", "command"}, now : Nat, readAt : Nat, read : Nat]

IdleLoop == [pc |-> "idle", head |-> 1, last |-> 0, origin |-> "schedule",
             now |-> 0, readAt |-> 0, read |-> 0]

Init ==
  /\ up = TRUE /\ mem = FreshState /\ durable = FreshState
  /\ paused = FALSE /\ unhealthy = FALSE
  /\ loop = IdleLoop
  /\ sent = 0 /\ confirmed = 1 /\ clock = 0 /\ league = 1
  /\ handled = [i \in 1 .. Updates |-> 0]
  /\ promised = "none" /\ unsaved = FALSE /\ alerts = 0
  /\ digests = [d \in Days |-> 0]
  /\ decided = [v \in 1 .. MaxLeague |-> 0]
  /\ faults = 0 /\ stops = 0

Goto(label) == [loop EXCEPT !.pc = label]

Fails(kind) == kind \in FaultKinds /\ faults < MaxFaults /\ faults' = faults + 1

SaveFails == Fails("save") /\ unsaved' = TRUE

\* _persist_state of the new state in memory, which stays there when the save
\* fails.  The file is replaced as a whole, before or after the failure.
Save(state, next, failed) ==
  /\ mem' = state
  /\ \/ durable' = state /\ loop' = next /\ UNCHANGED <<unsaved, faults>>
     \/ durable' \in {durable, state} /\ loop' = failed /\ SaveFails
  /\ UNCHANGED <<handled, promised, alerts, digests, decided>>

\* A message is delivered; or the call raises, before or after the delivery.
Deliver(delivered, silent, next, failed) ==
  \/ delivered /\ loop' = next /\ UNCHANGED faults
  \/ (delivered \/ silent) /\ loop' = failed /\ Fails("send")

-----------------------------------------------------------------------------
(* _poll_telegram *)

\* Mutation: the offset is left to Telegram, which does not know it yet.
First_Unconfirmed == confirmed

\* The first update Telegram still has that the service has not completed.
First == IF confirmed > mem.offset THEN confirmed ELSE mem.offset

\* Mutation: the whole batch counts as done when it is fetched.
GetUpdates_OffsetFirst ==
  /\ loop.pc = "idle"
  /\ loop' = [IdleLoop EXCEPT !.pc = "update", !.head = First, !.last = sent]
  /\ mem' = [mem EXCEPT !.offset = IF sent >= First THEN sent + 1 ELSE @]
  /\ confirmed' = First
  /\ UNCHANGED <<up, durable, paused, unhealthy, sent, clock, league, seenVars,
                 faults, stops>>

\* Mutation: the offset is not sent with the request.
GetUpdates_NoOffset ==
  /\ loop.pc = "idle"
  /\ loop' = [IdleLoop EXCEPT !.pc = "update", !.head = First, !.last = sent]
  /\ UNCHANGED <<up, mem, durable, paused, unhealthy, worldVars, seenVars, faults,
                 stops>>

\* get_updates confirms everything before the offset and fetches the rest.
GetUpdates ==
  /\ loop.pc = "idle"
  /\ \/ /\ loop' = [IdleLoop EXCEPT !.pc = "update", !.head = First, !.last = sent]
        /\ confirmed' = First
        /\ UNCHANGED faults
     \/ Fails("get") /\ loop' = Goto("failure") /\ UNCHANGED confirmed
  /\ UNCHANGED <<up, mem, durable, paused, unhealthy, sent, clock, league,
                 seenVars, stops>>

\* router.handle of the next update.  A new pause or resume voids what an
\* earlier one announced.
Handle ==
  LET command == CommandOf[loop.head] IN
  /\ loop.pc = "update" /\ loop.head <= loop.last
  /\ loop' = CASE command = "noise" -> Goto("advance")
               [] command = "run" -> [Goto("cycle") EXCEPT !.origin = "command"]
               [] OTHER -> Goto("savePause")
  /\ IF command \in {"pause", "resume"}
     THEN paused' = (command = "pause") /\ promised' = "none"
     ELSE UNCHANGED <<paused, promised>>
  /\ handled' = IF command \in {"foreign", "noise"} THEN handled
                ELSE [handled EXCEPT ![loop.head] = IF @ < MaxRepeats THEN @ + 1 ELSE @]
  /\ UNCHANGED <<up, mem, durable, unhealthy, worldVars, unsaved, alerts, digests,
                 decided, faults, stops>>

\* Mutation: the pause is left to the save of the offset.
SavePause_Later ==
  /\ loop.pc = "savePause"
  /\ mem' = [mem EXCEPT !.paused = paused]
  /\ loop' = Goto("reply")
  /\ UNCHANGED <<up, durable, paused, unhealthy, worldVars, seenVars, faults, stops>>

\* _persist_pause_state, which saves a change only.
SavePause ==
  /\ loop.pc = "savePause"
  /\ IF mem.paused = paused
     THEN loop' = Goto("reply") /\ UNCHANGED <<mem, durable, seenVars, faults>>
     ELSE Save([mem EXCEPT !.paused = paused], Goto("reply"), Goto("failure"))
  /\ UNCHANGED <<up, paused, unhealthy, worldVars, stops>>

Announced ==
  CASE CommandOf[loop.head] = "pause" -> "paused"
    [] CommandOf[loop.head] = "resume" -> "active"
    [] OTHER -> promised

Reply ==
  /\ loop.pc = "reply"
  /\ CASE CommandOf[loop.head] = "foreign" ->
            loop' = Goto("advance") /\ UNCHANGED <<promised, faults>>
       [] CommandOf[loop.head] # "foreign" /\ loop.head \in Refused ->
            loop' = Goto("failure") /\ UNCHANGED <<promised, faults>>
       [] OTHER -> Deliver(promised' = Announced, UNCHANGED promised,
                           Goto("advance"), Goto("failure"))
  /\ UNCHANGED <<up, mem, durable, paused, unhealthy, worldVars, handled, unsaved,
                 alerts, digests, decided, stops>>

\* Mutation: an update more than was handled counts as done.
Completed_OneTooFar == [mem EXCEPT !.offset = loop.head + 2]

Completed == [mem EXCEPT !.offset = loop.head + 1]

NextUpdate == [Goto("update") EXCEPT !.head = @ + 1]

\* Mutation: the new offset goes to the file only.
Advance_FileOnly ==
  /\ loop.pc = "advance"
  /\ durable' = Completed /\ loop' = NextUpdate
  /\ UNCHANGED <<up, mem, paused, unhealthy, worldVars, seenVars, faults, stops>>

Advance ==
  /\ loop.pc = "advance"
  /\ Save(Completed, NextUpdate, Goto("failure"))
  /\ UNCHANGED <<up, paused, unhealthy, worldVars, stops>>

\* The batch is done; run_once looks whether a monitor pass is due.
CheckMonitor ==
  /\ loop.pc = "update" /\ loop.head > loop.last
  /\ loop' = IF mem.monitor = Never \/ clock > mem.monitor
             THEN [IdleLoop EXCEPT !.pc = "cycle", !.now = clock]
             ELSE IdleLoop
  /\ UNCHANGED <<up, mem, durable, paused, unhealthy, worldVars, seenVars,
                 faults, stops>>

-----------------------------------------------------------------------------
(* _run_cycle, for the schedule or for a "run" command *)

\* monitor.poll: a snapshot, none once the retries are exhausted, or an
\* exception that is not the adapter's.
PollEspn ==
  /\ loop.pc = "cycle"
  /\ \/ /\ unhealthy' = FALSE
        /\ mem' = [mem EXCEPT !.monitor = clock]
        /\ loop' = [loop EXCEPT !.pc = IF mem.unhealthy THEN "recover" ELSE "saveCycle",
                                !.readAt = clock, !.read = league]
        /\ UNCHANGED faults
     \/ /\ Fails("espn")
        /\ unhealthy' = TRUE
        /\ mem' = [mem EXCEPT !.monitor = clock]
        /\ loop' = [loop EXCEPT !.pc = IF mem.unhealthy THEN "saveCycle" ELSE "alert",
                                !.readAt = clock, !.read = 0]
     \/ Fails("espn") /\ loop' = Goto("failure") /\ UNCHANGED <<mem, unhealthy>>
  /\ UNCHANGED <<up, durable, paused, worldVars, seenVars, stops>>

\* _notify_health swallows what sending raises: the alert is not repeated.
Alert(next) ==
  /\ mem' = [mem EXCEPT !.unhealthy = TRUE]
  /\ Deliver(alerts' = alerts + 1, UNCHANGED alerts, next, next)
  /\ UNCHANGED <<up, durable, paused, unhealthy, worldVars, handled, promised, unsaved,
                 digests, decided, stops>>

LostAccess == loop.pc = "alert" /\ Alert(Goto("saveCycle"))

\* The notice of recovery, whether it is delivered or not.
Recover ==
  /\ loop.pc = "recover"
  /\ mem' = [mem EXCEPT !.unhealthy = FALSE]
  /\ alerts' = 0
  /\ loop' = Goto("saveCycle")
  /\ UNCHANGED <<up, durable, paused, unhealthy, worldVars, handled, promised, unsaved,
                 digests, decided, faults, stops>>

AfterCycle ==
  IF loop.origin = "command" THEN Goto("savePause")
  ELSE IF loop.read # 0 THEN Goto("digest") ELSE IdleLoop

\* The saves of _record_service_failure and _run_cycle, of one state, in one.
SaveCycle ==
  /\ loop.pc = "saveCycle"
  /\ Save(mem, IF loop.read = 0 THEN AfterCycle ELSE Goto("decide"), Goto("failure"))
  /\ UNCHANGED <<up, paused, unhealthy, worldVars, stops>>

\* _snapshot_fingerprint of what the adapter read: the league, and the
\* source_timestamp the adapter gives every read.
Fingerprint == <<loop.read, loop.readAt>>

\* The Lead Manager records a decision, reports that it could not, or raises.
Decide ==
  /\ loop.pc = "decide"
  /\ IF Fingerprint = mem.fingerprint
     THEN loop' = AfterCycle /\ UNCHANGED <<decided, faults>>
     ELSE \/ /\ decided' = [decided EXCEPT ![loop.read] = @ + 1]
             /\ loop' = Goto("saveFingerprint")
             /\ UNCHANGED faults
          \/ Fails("decide") /\ loop' \in {AfterCycle, Goto("failure")} /\ UNCHANGED decided
  /\ UNCHANGED <<up, mem, durable, paused, unhealthy, worldVars, handled, promised, unsaved,
                 alerts, digests, stops>>

SaveFingerprint ==
  /\ loop.pc = "saveFingerprint"
  /\ Save([mem EXCEPT !.fingerprint = Fingerprint], AfterCycle, Goto("failure"))
  /\ UNCHANGED <<up, paused, unhealthy, worldVars, stops>>

-----------------------------------------------------------------------------
(* _maybe_send_digest *)

Day == loop.now \div DayLength

DigestDue == loop.now % DayLength >= DigestHour /\ mem.digest # Day

SendDigest ==
  /\ loop.pc = "digest"
  /\ IF DigestDue
     THEN Deliver(digests' = [digests EXCEPT ![Day] = @ + 1], UNCHANGED digests,
                  Goto("saveDigest"), Goto("failure"))
     ELSE loop' = IdleLoop /\ UNCHANGED <<digests, faults>>
  /\ UNCHANGED <<up, mem, durable, paused, unhealthy, worldVars, handled, promised, unsaved,
                 alerts, decided, stops>>

SaveDigest ==
  /\ loop.pc = "saveDigest"
  /\ Save([mem EXCEPT !.digest = Day], IdleLoop, Goto("failure"))
  /\ UNCHANGED <<up, paused, unhealthy, worldVars, stops>>

-----------------------------------------------------------------------------
(* run_once caught an exception *)

\* _record_service_failure: silent while unhealthy.
Failure ==
  /\ loop.pc = "failure"
  /\ IF mem.unhealthy
     THEN /\ loop' = IdleLoop
          /\ UNCHANGED <<up, mem, durable, paused, unhealthy, worldVars, seenVars,
                         faults, stops>>
     ELSE Alert(Goto("saveFailure"))

\* Its save is outside the try block: the exception ends run_forever.
SaveFailure ==
  /\ loop.pc = "saveFailure"
  /\ \/ durable' = mem /\ UNCHANGED <<up, unsaved, faults, stops>>
     \/ /\ SaveFails /\ durable' \in {durable, mem}
        /\ up' = FALSE /\ stops' = stops + 1
  /\ loop' = IdleLoop
  /\ UNCHANGED <<mem, paused, unhealthy, worldVars, handled, promised, alerts,
                 digests, decided>>

-----------------------------------------------------------------------------
(* The process, Telegram, ESPN and time *)

\* The process is killed, or KeyboardInterrupt reaches run_forever, which
\* saves the state the loop was interrupted in.
Stop ==
  /\ up /\ stops < MaxStops
  /\ up' = FALSE /\ stops' = stops + 1
  /\ loop' = IdleLoop
  /\ \/ "crash" \in StopKinds /\ UNCHANGED <<durable, unsaved, faults>>
     \/ "interrupt" \in StopKinds /\ durable' = mem /\ UNCHANGED <<unsaved, faults>>
     \/ "interrupt" \in StopKinds /\ durable' \in {durable, mem} /\ SaveFails
  /\ UNCHANGED <<mem, paused, unhealthy, worldVars, handled, promised, alerts,
                 digests, decided>>

\* build_runtime: the state is loaded, and a saved pause applied again.
Restart ==
  /\ ~up
  /\ up' = TRUE
  /\ mem' = durable
  /\ paused' = durable.paused
  /\ unhealthy' = FALSE
  /\ UNCHANGED <<durable, loop, worldVars, seenVars, faults, stops>>

SendUpdate ==
  /\ sent < Updates
  /\ sent' = sent + 1
  /\ UNCHANGED <<up, mem, durable, paused, unhealthy, loop, confirmed, clock,
                 league, seenVars, faults, stops>>

\* Time passes, and the league at ESPN may be another then.
Tick ==
  /\ clock < MaxTime
  /\ clock' = clock + 1
  /\ league' \in {league, league + 1} \cap 1 .. MaxLeague
  /\ UNCHANGED <<up, mem, durable, paused, unhealthy, loop, sent, confirmed,
                 seenVars, faults, stops>>

-----------------------------------------------------------------------------
Work ==
  /\ up
  /\ \/ GetUpdates \/ Handle \/ SavePause \/ Reply \/ Advance \/ CheckMonitor
     \/ PollEspn \/ LostAccess \/ Recover \/ SaveCycle \/ Decide \/ SaveFingerprint
     \/ SendDigest \/ SaveDigest \/ Failure \/ SaveFailure

Next == Work \/ Stop \/ Restart \/ SendUpdate \/ Tick

Spec == Init /\ [][Next]_vars

\* The loop never waits for anything but a bounded poll, and the supervisor
\* restarts the process.
FairSpec == Spec /\ WF_vars(Work) /\ WF_vars(Restart)

-----------------------------------------------------------------------------
(* Properties *)

\* Every variable stays in its type; in particular the loop never gets ahead
\* of the updates there are.
TypeOK ==
  /\ up \in BOOLEAN /\ mem \in State /\ durable \in State
  /\ paused \in BOOLEAN /\ unhealthy \in BOOLEAN /\ loop \in Loop
  /\ sent \in 0 .. Updates /\ confirmed \in 1 .. sent + 1
  /\ clock \in Nat /\ league \in 1 .. MaxLeague
  /\ handled \in [1 .. Updates -> Nat] /\ promised \in {"none", "paused", "active"}
  /\ unsaved \in BOOLEAN /\ alerts \in Nat /\ digests \in [Days -> Nat]
  /\ decided \in [1 .. MaxLeague -> Nat]
  /\ faults \in Nat /\ stops \in Nat

\* A command of the user that Telegram has forgotten, or the next process will
\* not ask for, has taken effect, whatever failed in between.
NoCommandLost ==
  \A i \in 1 .. Updates :
    CommandOf[i] \notin {"foreign", "noise"} /\ (i < confirmed \/ i < durable.offset)
      => handled[i] > 0

\* A command whose completion is on disk never takes effect again.
CompletedNotReplayed ==
  [][\A i \in 1 .. Updates : handled'[i] # handled[i] => i >= durable.offset]_vars

\* Nothing is repeated without a failure or a stop of its own: no command, no
\* digest of a day (_maybe_send_digest), and no alert of an outage, which one
\* process gives once, "then retry quietly" (_record_service_failure).
RepeatsHaveCause ==
  /\ \A i \in 1 .. Updates : handled[i] <= 1 + faults + stops
  /\ \A d \in Days : digests[d] <= 1 + faults + stops
  /\ alerts <= 1 + stops

\* Unless a save has failed, what the reply to the last pause or resume
\* announced is what the process does, and what the next one will do, whatever
\* else failed or ended since (_persist_pause_state, before the reply).
PausePromiseKept ==
  ~unsaved =>
    /\ promised = "paused" => durable.paused /\ (up => paused)
    /\ promised = "active" => ~durable.paused /\ (up => ~paused)

\* One state of the league is decided once.
UnchangedNotRedecided == \A v \in 1 .. MaxLeague : decided[v] <= 1

\* Every update is settled in the end: Telegram has seen an offset past it, and
\* gives it to no process again, whatever failed or ended before.
UpdatesSettled == \A i \in 1 .. Updates : (sent >= i) ~> (confirmed > i)

\* ESPN is monitored as time passes, whatever the owner asks ("supervisor loop
\* stays alive after a safe alert").
MonitoringGoesOn == (clock = MaxTime) ~> (mem.monitor = MaxTime)
=============================================================================
