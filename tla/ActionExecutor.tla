--------------------------- MODULE ActionExecutor ---------------------------
(***************************************************************************)
(* PlaywrightESPNActionExecutor.execute (execution.py) run by several      *)
(* callers of one process, with the controls it consults                   *)
(* (RuntimeWriteState, ActionAuthorizer), the JSONL ledger it reserves     *)
(* idempotency keys in, the ESPN write it dispatches, crashes of the       *)
(* process and restarts that reload the ledger.                            *)
(*                                                                         *)
(* One step of a caller is one critical section of the code (a lock is     *)
(* held) or one call of an injected port.                                  *)
(***************************************************************************)
EXTENDS ActionLedger, FiniteSets

CONSTANTS
  Callers,      \* threads that call execute()
  KeysOf,       \* the idempotency keys each of them uses
  Actions,      \* ESPN action ids
  ActionOf,     \* the action each key was issued for
  Approval,     \* per key: "not_required", "valid", "missing", "wrong_user"
  ExpiresAt,    \* per key: approval_expires_at
  Controls,     \* the controls operators use: "global", "pause", "action"
  MaxTime,      \* bound on the clock
  MaxFaults,    \* bound on failed writes, torn lines and failed review sinks
  MaxCrashes,   \* bound on crashes
  MaxLines      \* no call begins once the file has that many lines

ASSUME ExecutorAssumption ==
  /\ KeysOf \in [Callers -> SUBSET Keys]
  /\ ActionOf \in [Keys -> Actions]
  /\ Approval \in [Keys -> {"not_required", "valid", "missing", "wrong_user"}]
  /\ ExpiresAt \in [Keys -> Nat]
  /\ MaxTime \in Nat /\ MaxFaults \in Nat
  /\ MaxCrashes \in Nat /\ MaxLines \in Nat

VARIABLES
  up,             \* the process runs, with its ledger loaded
  enabled, paused, pausedActions, freshRequired,     \* RuntimeWriteState
  file,           \* action-ledger.jsonl
  count, latest,  \* the ledger in memory: len(_entries) and _latest
  call,           \* per caller: where execute() is, with its live locals
  clock,
  attempts,       \* per key: calls of browser.dispatch
  applied,        \* per key: how many of them took effect at ESPN
  answers,        \* per key: the states of the results execute() returned
  faults, crashes

controlVars == <<enabled, paused, pausedActions, freshRequired>>
ledgerVars == <<file, count, latest>>
espnVars == <<attempts, applied>>
budgetVars == <<faults, crashes>>
vars == <<up, controlVars, ledgerVars, call, clock, espnVars, answers,
          budgetVars>>

-----------------------------------------------------------------------------
Labels == {"idle", "read", "reserve", "authorize", "stamp", "append", "open",
           "dispatch", "refresh", "verify", "unknown", "replay"}

Snapshots == {"match", "stale", "none"}

Call == [pc : Labels, key : Keys \cup {NoKey},
         now : Nat, snap : Snapshots,                   \* until authorized
         seen : BOOLEAN,                                \* from the refresh
         seq : Nat, event : Events, state : States]     \* entry to append

IdleCall == [pc |-> "idle", key |-> NoKey, now |-> 0, snap |-> "none",
             seen |-> FALSE, seq |-> 0, event |-> "reserved",
             state |-> "in_flight"]

Init ==
  /\ up = TRUE
  /\ enabled \in BOOLEAN /\ paused = FALSE
  /\ pausedActions = {} /\ freshRequired = {}
  /\ file = <<>> /\ count = 0 /\ latest = [k \in Keys |-> NoEntry]
  /\ call = [c \in Callers |-> IdleCall]
  /\ clock = 0
  /\ attempts = [k \in Keys |-> 0] /\ applied = [k \in Keys |-> 0]
  /\ answers = [k \in Keys |-> {}]
  /\ faults = 0 /\ crashes = 0

\* Where a caller goes, keeping no local but its request.
At(c, label) == [IdleCall EXCEPT !.pc = label, !.key = call[c].key]

Goto(c, label) == call' = [call EXCEPT ![c] = At(c, label)]

\* execute() hands a result back to its caller.
Return(c, state) ==
  /\ call' = [call EXCEPT ![c] = IdleCall]
  /\ answers' = [answers EXCEPT ![call[c].key] = @ \cup {state}]

\* An exception leaves execute(): the caller has no result.
Raise(c) == call' = [call EXCEPT ![c] = IdleCall] /\ UNCHANGED answers

\* _append_event: the entry is chosen here, numbered by Stamp and written by
\* AppendEntry (find and append take the ledger's lock separately).
Emit(c, event, state) ==
  call' = [call EXCEPT ![c] = [At(c, "stamp") EXCEPT !.event = event, !.state = state]]

-----------------------------------------------------------------------------
(* RuntimeWriteState and ActionAuthorizer *)

PauseForReview(a) ==
  /\ pausedActions' = pausedActions \cup {a}
  /\ freshRequired' = freshRequired \cup {a}
  /\ UNCHANGED <<enabled, paused>>

\* Mutation: the gate of the fresh read is forgotten.
IsPaused_NoFreshRead(a) == paused \/ a \in pausedActions

IsPaused(a) == paused \/ a \in pausedActions \/ a \in freshRequired

\* approved_by is the authorized user, and the approval has not expired.
ApprovalHolds(k, now) ==
  \/ Approval[k] = "not_required"
  \/ Approval[k] = "valid" /\ ExpiresAt[k] > now

\* ActionAuthorizer.authorize, at the time execute() began.  (It takes the lock
\* of the controls once per control; the step reads them all at once.)
Allowed(c) ==
  /\ enabled
  /\ ~IsPaused(ActionOf[call[c].key])
  /\ call[c].snap = "match"
  /\ ApprovalHolds(call[c].key, call[c].now)

\* enable_global, disable_global, pause and resume, of all or of one action.
Operate ==
  /\ up
  /\ \/ /\ "global" \in Controls
        /\ enabled' = ~enabled
        /\ UNCHANGED <<paused, pausedActions, freshRequired>>
     \/ /\ "pause" \in Controls
        /\ paused' = ~paused
        /\ UNCHANGED <<enabled, pausedActions, freshRequired>>
     \/ \E a \in Actions :
          /\ "action" \in Controls
          /\ pausedActions' \in {pausedActions \cup {a}, pausedActions \ {a}}
          /\ UNCHANGED <<enabled, paused, freshRequired>>
  /\ UNCHANGED <<up, ledgerVars, call, clock, espnVars, answers, budgetVars>>

\* resolve_review with fresh_read_completed: record_fresh_read.
ResolveReview(a) ==
  /\ up
  /\ a \in freshRequired \cup pausedActions
  /\ freshRequired' = freshRequired \ {a}
  /\ pausedActions' = pausedActions \ {a}
  /\ UNCHANGED <<up, enabled, paused, ledgerVars, call, clock, espnVars,
                 answers, budgetVars>>

-----------------------------------------------------------------------------
(* execute(), up to the authorization *)

\* Mutations: an interrupted, or a denied, attempt is taken up again.
Unclaimed_RetryInFlight(k) == latest[k] # NoEntry => ~HasResult(latest[k])

Unclaimed_RetryDenied(k) ==
  latest[k] # NoEntry => latest[k].state = "rejected" /\ ~HasResult(latest[k])

\* The ledger knows nothing of the key.
Unclaimed(k) == latest[k] = NoEntry

\* The clock is read, then find().
Begin(c, k) ==
  /\ up /\ call[c].pc = "idle" /\ Len(file) < MaxLines
  /\ IF ~Unclaimed(k) /\ HasResult(latest[k])
     THEN /\ answers' = [answers EXCEPT ![k] = @ \cup {latest[k].state}]
          /\ UNCHANGED call
     ELSE /\ call' = [call EXCEPT ![c] =
               [IdleCall EXCEPT !.key = k, !.now = clock,
                  !.pc = IF Unclaimed(k) THEN "read" ELSE "replay"]]
          /\ UNCHANGED answers
  /\ UNCHANGED <<up, controlVars, ledgerVars, clock, espnVars, budgetVars>>

\* _read_precondition: supplied or read; an exception of the reader is None.
ReadPrecondition(c) ==
  /\ call[c].pc = "read"
  /\ \E s \in Snapshots :
       call' = [call EXCEPT ![c].pc = "reserve", ![c].snap = s]
  /\ UNCHANGED <<up, controlVars, ledgerVars, clock, espnVars,
                 answers, budgetVars>>

Reservation(k) ==
  [seq |-> count + 1, key |-> k, event |-> "reserved", state |-> "in_flight"]

\* reserve() and the tests of what it returned.  An existing "reserved"
\* entry is not told apart from the caller's own.
Reserve(c) ==
  LET k == call[c].key IN
  /\ call[c].pc = "reserve"
  /\ IF Unclaimed(k)
     THEN /\ file' = Append(file, Reservation(k))
          /\ count' = count + 1
          /\ latest' = [latest EXCEPT ![k] = Reservation(k)]
          /\ call' = [call EXCEPT ![c].pc = "authorize"]
          /\ UNCHANGED answers
     ELSE /\ UNCHANGED ledgerVars
          /\ IF HasResult(latest[k]) THEN Return(c, latest[k].state)
             ELSE /\ call' = [call EXCEPT ![c].pc =
                       IF latest[k].event = "reserved" THEN "authorize" ELSE "replay"]
                  /\ UNCHANGED answers
  /\ UNCHANGED <<up, controlVars, clock, espnVars, budgetVars>>

\* _persist raises inside reserve(): the exception leaves execute().
ReserveFails(c) ==
  /\ call[c].pc = "reserve" /\ Unclaimed(call[c].key) /\ faults < MaxFaults
  /\ file' \in AfterFailedWrite(file, Reservation(call[c].key))
  /\ faults' = faults + 1
  /\ Raise(c)
  /\ UNCHANGED <<up, controlVars, count, latest, clock,
                 espnVars, crashes>>

Authorize(c) ==
  /\ call[c].pc = "authorize"
  /\ Emit(c, "authorization", IF Allowed(c) THEN "in_flight" ELSE "rejected")
  /\ UNCHANGED <<up, controlVars, ledgerVars, clock, espnVars,
                 answers, budgetVars>>

-----------------------------------------------------------------------------
(* _append_event *)

\* The first half: find(), and the number after that of the key's own entry.
NextSeq(k) == IF latest[k] = NoEntry THEN 1 ELSE latest[k].seq + 1

Stamp(c) ==
  /\ call[c].pc = "stamp"
  /\ call' = [call EXCEPT ![c].pc = "append", ![c].seq = NextSeq(call[c].key)]
  /\ UNCHANGED <<up, controlVars, ledgerVars, clock, espnVars,
                 answers, budgetVars>>

PendingEntry(c) ==
  [seq |-> call[c].seq, key |-> call[c].key, event |-> call[c].event,
   state |-> call[c].state]

\* What execute() does once the entry is appended.
Continue(c) ==
  CASE call[c].event = "authorization" ->
         IF call[c].state = "in_flight"
         THEN Emit(c, "phase:reserved", "in_flight") /\ UNCHANGED answers
         ELSE Emit(c, "result", "rejected") /\ UNCHANGED answers
    [] call[c].event = "phase:reserved" ->
         Goto(c, "open") /\ UNCHANGED answers
    [] call[c].event = "phase:before_dispatch" ->
         Goto(c, "dispatch") /\ UNCHANGED answers
    [] call[c].event = "phase:dispatched" ->
         Goto(c, "refresh") /\ UNCHANGED answers
    [] call[c].event = "phase:refreshed" ->
         call' = [call EXCEPT ![c].pc = "verify"] /\ UNCHANGED answers
    [] OTHER -> Return(c, call[c].state)

\* Mutation: a failed append of the evidence before the dispatch is ignored.
OnRaise_DispatchAnyway(c) ==
  IF call[c].event = "phase:before_dispatch" THEN Goto(c, "dispatch") /\ UNCHANGED answers
  ELSE Raise(c)

\* What it does when the append raises: inside the two try blocks the
\* exception means an indeterminate outcome, elsewhere it leaves execute().
OnRaise(c) ==
  IF call[c].event \in {"phase:before_dispatch", "phase:dispatched",
                        "phase:refreshed"}
  THEN Goto(c, "unknown") /\ UNCHANGED answers
  ELSE Raise(c)

\* The second half: the line is persisted, and only then is its number
\* compared with the number of entries.
AppendEntry(c) ==
  /\ call[c].pc = "append"
  /\ file' = Append(file, PendingEntry(c))
  /\ IF call[c].seq = count + 1
     THEN /\ count' = count + 1
          /\ latest' = [latest EXCEPT ![call[c].key] = PendingEntry(c)]
          /\ Continue(c)
     ELSE OnRaise(c) /\ UNCHANGED <<count, latest>>
  /\ UNCHANGED <<up, controlVars, clock, espnVars, budgetVars>>

AppendFails(c) ==
  /\ call[c].pc = "append" /\ faults < MaxFaults
  /\ file' \in AfterFailedWrite(file, PendingEntry(c))
  /\ faults' = faults + 1
  /\ OnRaise(c)
  /\ UNCHANGED <<up, controlVars, count, latest, clock,
                 espnVars, crashes>>

-----------------------------------------------------------------------------
(* execute(), from the browser to the result *)

\* browser_factory() succeeds, reports a known failure, or raises.
OpenBrowser(c) ==
  /\ call[c].pc = "open"
  /\ \/ Emit(c, "phase:before_dispatch", "in_flight")
     \/ Emit(c, "result", "failed")
     \/ Goto(c, "unknown")
  /\ UNCHANGED <<up, controlVars, ledgerVars, clock, espnVars,
                 answers, budgetVars>>

\* browser.dispatch: ActionDispatchFailure only when ESPN accepted nothing;
\* any other end of the call leaves the effect open.
Dispatch(c) ==
  LET k == call[c].key IN
  /\ call[c].pc = "dispatch"
  /\ attempts' = [attempts EXCEPT ![k] = @ + 1]
  /\ \/ /\ \E effect \in {0, 1} : applied' = [applied EXCEPT ![k] = @ + effect]
        /\ \/ Emit(c, "phase:dispatched", "in_flight")
           \/ Goto(c, "unknown")
     \/ Emit(c, "result", "failed") /\ UNCHANGED applied
  /\ UNCHANGED <<up, controlVars, ledgerVars, clock, answers,
                 budgetVars>>

\* verification_port.refresh reads whether the effect is there.
Refresh(c) ==
  /\ call[c].pc = "refresh"
  /\ call' = [call EXCEPT ![c] =
       [At(c, "stamp") EXCEPT !.event = "phase:refreshed",
                              !.seen = applied[call[c].key] > 0]]
  /\ UNCHANGED <<up, controlVars, ledgerVars, clock, espnVars, answers,
                 budgetVars>>

\* Mutation: a refresh that returns at all confirms the write.
Confirmed_ByReading(c) == call[c].seen \in BOOLEAN

Confirmed(c) == call[c].seen

\* The predicate over what the refresh returned.
Verify(c) ==
  /\ call[c].pc = "verify"
  /\ IF Confirmed(c) THEN Emit(c, "result", "verified")
     ELSE Goto(c, "unknown")
  /\ UNCHANGED <<up, controlVars, ledgerVars, clock, espnVars,
                 answers, budgetVars>>

\* No verification port, or it or the predicate raises.
CannotVerify(c) ==
  /\ call[c].pc \in {"refresh", "verify"}
  /\ Goto(c, "unknown")
  /\ UNCHANGED <<up, controlVars, ledgerVars, clock, espnVars,
                 answers, budgetVars>>

\* Mutation: the call waits until a review of the action is resolved.
Unknown_Waits(c) ==
  /\ call[c].pc = "unknown"
  /\ ActionOf[call[c].key] \notin pausedActions
  /\ PauseForReview(ActionOf[call[c].key])
  /\ Emit(c, "result", "unknown_outcome")
  /\ UNCHANGED <<up, ledgerVars, clock, espnVars, answers, budgetVars>>

\* _unknown: the review gate is closed before the result is recorded.
Unknown(c) ==
  /\ call[c].pc = "unknown"
  /\ PauseForReview(ActionOf[call[c].key])
  /\ Emit(c, "result", "unknown_outcome")
  /\ UNCHANGED <<up, ledgerVars, clock, espnVars, answers, budgetVars>>

\* The review sink raises out of _unknown: nothing is recorded.
ReviewSinkFails(c) ==
  /\ call[c].pc = "unknown" /\ faults < MaxFaults
  /\ PauseForReview(ActionOf[call[c].key])
  /\ faults' = faults + 1
  /\ Raise(c)
  /\ UNCHANGED <<up, ledgerVars, clock, espnVars, crashes>>

\* Mutation: the replay is refused with an exception and no result.
Replay_Refused(c) ==
  /\ call[c].pc = "replay"
  /\ PauseForReview(ActionOf[call[c].key])
  /\ Raise(c)
  /\ UNCHANGED <<up, ledgerVars, clock, espnVars, budgetVars>>

\* _unresolved_replay of an entry without a result.
Replay(c) ==
  /\ call[c].pc = "replay"
  /\ PauseForReview(ActionOf[call[c].key])
  /\ Emit(c, "result", "needs_human_review")
  /\ UNCHANGED <<up, ledgerVars, clock, espnVars, answers, budgetVars>>

-----------------------------------------------------------------------------
(* The process *)

\* The process dies: its memory is gone, and a line being written may be torn.
Crash ==
  /\ up /\ crashes < MaxCrashes
  /\ up' = FALSE
  /\ crashes' = crashes + 1
  /\ \/ UNCHANGED <<file, faults>>
     \/ /\ faults < MaxFaults
        /\ \E c \in Callers : call[c].pc \in {"append", "reserve"}
        /\ file' = Append(file, TornLine)
        /\ faults' = faults + 1
  /\ pausedActions' = {} /\ freshRequired' = {}
  /\ count' = 0 /\ latest' = [k \in Keys |-> NoEntry]
  /\ call' = [c \in Callers |-> IdleCall]
  /\ UNCHANGED <<enabled, paused, clock, espnVars, answers>>

\* A new process: JsonlActionLedger loads the file, or raises.  Its
\* RuntimeWriteState is built from the configuration and the saved pause.
Restart ==
  /\ ~up /\ Readable(file)
  /\ up' = TRUE
  /\ count' = Len(file) /\ latest' = Reload(file)
  /\ enabled' \in BOOLEAN /\ paused' \in BOOLEAN
  /\ UNCHANGED <<pausedActions, freshRequired, file, call, clock,
                 espnVars, answers, budgetVars>>

Tick ==
  /\ clock < MaxTime
  /\ clock' = clock + 1
  /\ UNCHANGED <<up, controlVars, ledgerVars, call, espnVars, answers,
                 budgetVars>>

-----------------------------------------------------------------------------
\* The steps of a call of execute() that has begun.
Step(c) ==
  \/ ReadPrecondition(c) \/ Reserve(c) \/ ReserveFails(c) \/ Authorize(c)
  \/ Stamp(c) \/ AppendEntry(c) \/ AppendFails(c) \/ OpenBrowser(c) \/ Dispatch(c)
  \/ Refresh(c) \/ Verify(c) \/ CannotVerify(c) \/ Unknown(c)
  \/ ReviewSinkFails(c) \/ Replay(c)

Next ==
  \/ \E c \in Callers : (\E k \in KeysOf[c] : Begin(c, k)) \/ Step(c)
  \/ Operate
  \/ \E a \in Actions : ResolveReview(a)
  \/ Crash \/ Restart \/ Tick

Spec == Init /\ [][Next]_vars

\* The scheduling of the process: every call that has begun keeps taking
\* steps (the ports return or raise), a dead process is started again by its
\* supervisor, and clients replay the keys they have no answer for.
Fairness ==
  /\ \A c \in Callers : WF_vars(Step(c))
  /\ \A c \in Callers : \A k \in KeysOf[c] : WF_vars(Begin(c, k))
  /\ WF_vars(Restart)

FairSpec == Spec /\ Fairness

-----------------------------------------------------------------------------
(* Properties *)

\* Every variable stays in its type; in particular an answer is always one of
\* the terminal states of ActionState, never the internal "in_flight".
TypeOK ==
  /\ up \in BOOLEAN
  /\ enabled \in BOOLEAN /\ paused \in BOOLEAN
  /\ pausedActions \subseteq Actions /\ freshRequired \subseteq Actions
  /\ file \in Seq(Line) /\ count \in Nat
  /\ latest \in [Keys -> Entry \cup {NoEntry}]
  /\ call \in [Callers -> Call]
  /\ clock \in Nat
  /\ attempts \in [Keys -> Nat] /\ applied \in [Keys -> Nat]
  /\ answers \in [Keys -> SUBSET TerminalStates]
  /\ faults \in Nat /\ crashes \in Nat

\* No idempotency key is dispatched to ESPN twice, whatever crashes, failed
\* writes, restarts and replays happen (execute(), reserve(), _load()).
AtMostOneDispatch == \A k \in Keys : attempts[k] <= 1

\* What execute() answers is true of ESPN: VERIFIED only of a write that took
\* effect, FAILED only of one that did not, REJECTED only of one never tried.
Truthful(k, state) ==
  /\ state = "verified" => applied[k] = 1
  /\ state = "failed" => applied[k] = 0
  /\ state = "rejected" => attempts[k] = 0

HonestAnswers == \A k \in Keys : \A state \in answers[k] : Truthful(k, state)

\* All calls with one key that get an answer get the same one, also those of
\* later processes that know the key only from the file.
OneAnswer == \A k \in Keys : \A r, s \in answers[k] : r = s

\* A dispatch leaves the durable trail of its approval: its reservation, an
\* authorization that allowed it, and the evidence phase before it.
DurableBeforeDispatch ==
  \A k \in Keys : attempts[k] > 0 =>
    /\ Logged(file, k, "reserved", "in_flight")
    /\ Logged(file, k, "authorization", "in_flight")
    /\ Logged(file, k, "phase:before_dispatch", "in_flight")

\* A key whose denial is on record is never dispatched, also when the process
\* died between the denial and its result.
DeniedNeverDispatched ==
  \A k \in Keys :
    Logged(file, k, "authorization", "rejected") => attempts[k] = 0

\* While an action awaits a fresh read no key of it is dispatched, whatever
\* the operator resumes (pause_for_review, resume, record_fresh_read).
ReviewGate ==
  [][\A k \in Keys :
       attempts'[k] # attempts[k] => ActionOf[k] \notin freshRequired]_vars

\* Without I/O faults the ledger a process leaves behind can be loaded by the
\* next one.
LedgerStaysReadable == faults = 0 => Readable(file)

\* Every call of execute() that has begun ends.
CallsEnd == \A c \in Callers : (call[c].pc # "idle") ~> (call[c].pc = "idle")

\* Every key the file records is in the end answered, by a replay if the call
\* that claimed it was interrupted.
ClaimedIsAnswered ==
  \A k \in Keys : (LinesOf(file, k) # {}) ~> (answers[k] # {})

-----------------------------------------------------------------------------
(* The inductive invariant behind AtMostOneDispatch *)

\* No two callers use the same key.
ExclusiveKeys ==
  \A c, d \in Callers : c # d => KeysOf[c] \cap KeysOf[d] = {}

PreDispatchEvents == {"authorization", "phase:reserved", "phase:before_dispatch"}

\* The caller has reserved its key and has not dispatched yet.
HoldsReservation(c) ==
  \/ call[c].pc \in {"authorize", "open", "dispatch"}
  \/ call[c].pc \in {"stamp", "append"} /\ call[c].event \in PreDispatchEvents

\* The caller may still dispatch its key.
BeforeDispatch(c) == call[c].pc \in {"read", "reserve"} \/ HoldsReservation(c)

\* A call in progress is for a key of its caller; an entry about to be
\* appended is not a reservation, a result is in a terminal state and a phase
\* in flight.
WellFormed(c, r) ==
  /\ r.pc # "idle" => r.key \in KeysOf[c]
  /\ r.pc \in {"stamp", "append"} =>
       /\ r.event # "reserved"
       /\ r.event = "result" => r.state \in TerminalStates
       /\ r.event \in Phases => r.state = "in_flight"

CallersWellFormed ==
  \A c \in Callers : WellFormed(c, call[c]) /\ (call[c].pc # "idle" => up)

ReservationsHeld ==
  \A c \in Callers :
    /\ BeforeDispatch(c) => attempts[call[c].key] = 0
    /\ HoldsReservation(c) =>
         LinesOf(file, call[c].key) # {} /\ latest[call[c].key] # NoEntry

AttemptsRecorded ==
  \A k \in Keys :
    /\ attempts[k] > 0 => LinesOf(file, k) # {} /\ (up => latest[k] # NoEntry)
    /\ latest[k] # NoEntry => LinesOf(file, k) # {}

\* A caller that may still dispatch its key is the only one that could have,
\* and every attempt is on record in the file and in the memory of a process.
DispatchInv ==
  /\ CallersWellFormed
  /\ ReservationsHeld
  /\ AttemptsRecorded
  /\ AtMostOneDispatch

-----------------------------------------------------------------------------
(* The inductive invariant behind the answers *)

Settled(k) == latest[k] # NoEntry /\ HasResult(latest[k])

\* The file holds no decision on the key.
Undecided(k) == \A i \in LinesOf(file, k) : file[i].state = "in_flight"

\* What the file says of a key is true, a key unknown in memory is undecided,
\* and an answer is the last line of the key, in the file and in memory.
KeyInv(k) ==
  /\ applied[k] <= attempts[k]
  /\ \A i \in LinesOf(file, k) : Truthful(k, file[i].state)
  /\ up /\ latest[k] = NoEntry => Undecided(k)
  /\ Settled(k) => LastLine(file, k) = latest[k]
  /\ answers[k] # {} =>
       /\ LinesOf(file, k) # {} /\ HasResult(LastLine(file, k))
       /\ answers[k] = {LastLine(file, k).state}
       /\ up => Settled(k)

\* A call in progress works on an unanswered key, that it claims before it is
\* authorized; until the dispatch the key is undecided, and what the call is
\* about to record is true.
CallInv(c) ==
  LET k == call[c].key IN
  call[c].pc # "idle" =>
    /\ latest[k] = NoEntry <=> call[c].pc \in {"read", "reserve"}
    /\ ~Settled(k) /\ answers[k] = {}
    /\ BeforeDispatch(c) => Undecided(k)
    /\ call[c].pc \in {"stamp", "append"} => Truthful(k, call[c].state)
    /\ call[c].seen => applied[k] > 0

\* Behind at-most-once dispatch, OneAnswer, HonestAnswers and
\* DeniedNeverDispatched, for callers with keys of their own.
AnswerInv ==
  /\ DispatchInv
  /\ \A k \in Keys : KeyInv(k)
  /\ \A c \in Callers : CallInv(c)

-----------------------------------------------------------------------------
(* The inductive invariants behind DurableBeforeDispatch and ReviewGate *)

\* The caller holds an authorization and has not dispatched yet.
Authorized(c) ==
  \/ call[c].pc \in {"open", "dispatch"}
  \/ /\ call[c].pc \in {"stamp", "append"}
     /\ call[c].event \in {"phase:reserved", "phase:before_dispatch"}

\* What is in memory is in the file, and each step towards the dispatch has
\* left its line there, also when callers share keys.
TrailInv ==
  /\ DurableBeforeDispatch
  /\ \A k \in Keys : latest[k] # NoEntry => \E i \in LinesOf(file, k) : file[i] = latest[k]
  /\ \A k \in Keys : \A i \in LinesOf(file, k) :
       file[i].event = "reserved" => file[i].state = "in_flight"
  /\ \A c \in Callers :
       /\ HoldsReservation(c) => Logged(file, call[c].key, "reserved", "in_flight")
       /\ Authorized(c) => Logged(file, call[c].key, "authorization", "in_flight")
       /\ call[c].pc = "dispatch" =>
            Logged(file, call[c].key, "phase:before_dispatch", "in_flight")

\* No two callers work on one action.
ExclusiveActions ==
  \A c, d \in Callers : c # d =>
    \A k \in KeysOf[c], j \in KeysOf[d] : ActionOf[k] # ActionOf[j]

\* The caller has passed the controls and has not dispatched yet.
Cleared(c) ==
  \/ Authorized(c)
  \/ /\ call[c].pc \in {"stamp", "append"}
     /\ call[c].event = "authorization" /\ call[c].state = "in_flight"

\* The gate of the fresh read is open for a caller that may dispatch.
GateInv ==
  \A c \in Callers : Cleared(c) => ActionOf[call[c].key] \notin freshRequired

-----------------------------------------------------------------------------
\* The write as its client sees it.
StatusOf(k) ==
  IF answers[k] # {} THEN "settled"
  ELSE IF attempts[k] > 0 THEN "attempted"
  ELSE IF LinesOf(file, k) # {} THEN "claimed"
  ELSE "free"

Write == INSTANCE OnceOnlyWrite WITH
  status <- [k \in Keys |-> StatusOf(k)], effect <- applied

\* execute() implements OnceOnlyWrite: a key is claimed in the file, tried at
\* most once, and then settled for good.
WriteSpec == Write!Spec
=============================================================================
