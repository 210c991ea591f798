# ESPN fantasy football agent: TLA+ models, checks and proofs

The agent reads an ESPN fantasy league, lets language models analyse it, asks
the owner of the team over Telegram for an approval, and can submit an approved
change to ESPN. This directory models the parts of it in which order, failure
and time matter. Paths below are relative to `src/src/fantasy_football/`.

* [Inventory](#inventory) - the components, their state, what is hard about them
* [Modules](#modules) - which module models what, and how it corresponds to the code
* [Runs](#runs) - what TLC checks, with which bounds, and what it shows
* [Fairness](#fairness) - what liveness rests on
* [Proofs](#proofs) - what TLAPS proves, from what and how
* [Disagreements](#disagreements) - where code and documents differ
* [Not modelled](#not-modelled) - and why
* [Plan](#plan) - order of work, and what is left

## Inventory

### How the parts interact

    Telegram --updates--> SupervisedService --commands--> ManagerWorkflows --\
        ^                    |   one thread                                   v
        '--replies, alerts,--'   |--poll--> ReadHealthMonitor --> EspnApiReader   DecisionHistory
           digest                |                                  |         ^   (JSONL file)
                                 |               ESPNSessionStore <-'         |      |
                                 |               (file; login tool)           |   WeeklyPostmortem
                                 '--run_cycle--> LeadManager -- record_cycle -'   (file; report tool)
                                                   |--> AnalysisPort x 5 roles
                                                   '--> DefaultPendingActionPolicy
    PlaywrightESPNActionExecutor --> RuntimeWriteState, JsonlActionLedger (file), browser

The service is one loop in one thread: it polls Telegram, handles a command at
a time, polls ESPN when the interval is over, has a decision cycle run and sends
what there is to say. The decision history is shared by the workflows, the Lead
Manager and the digest under a lock of its own. The action executor is composed
beside them: it shares the `RuntimeWriteState` the pause command sets. Ports
(Telegram, ESPN, the models, the browser, the clock, the review sink) are
injected and may raise anywhere. The owner runs two tools beside the service: one
captures an ESPN session into a file the service reads at every attempt, one writes
a report of a week. Two append-only files, the state and the session (replaced as
a whole) and the reports (written once) are all that survives a process.

### Components

| Component (source) | State | Operations | What is hard | What makes it correct |
|---|---|---|---|---|
| Action executor and ledger (`execution.py`) | per action pause and review gate, in memory; ledger file, with a count and the last entry of every key in memory | `execute`, `resolve_review`, operator controls, reload | several callers between the ledger's critical sections, a crash anywhere, a failed append that is in the file all the same, a lost acknowledgement | a key is dispatched once at most; answers are true and never change; nothing is dispatched without its trail or past a closed gate; every claimed key is answered |
| Decision history (`decisions.py`) | event file; decision ids and records in memory | `record_cycle`, `pending`, `resolve_pending`, `record_outcome`, replay | sweeps of several events cut by a failure, two workflows on one record, the deadline between two reads of the clock | the file is replayable and equal to memory; one verdict, in time; what was reported is durable |
| Manager workflows (`workflows.py`) | none of its own | approve, veto, status, pause, resume, run | lookup and resolution are separate critical sections | a reply reports the one verdict |
| Supervised service (`service.py`) | state in memory, state file, loop position | polling with an offset, cycles, alerts, digest, save, stop, restart | every call may fail before or after its effect; a save may fail with the state already changed in memory | no command lost or replayed after completion; repetitions have a cause; pause survives; everything is settled in the end |
| Telegram control plane (`telegram.py`) | offset (in the service) | decode, allowlist, routing | at-least-once delivery | strangers change nothing |
| Lead Manager (`orchestration.py`) | call budget of a cycle | `run_cycle` | retries on a shared budget, failure at every step, a repeated answer, the time a cycle takes | limits hold; approvals rest on complete cycles; a repeated answer changes nothing |
| Pending action policy (`orchestration.py`) | none | `materialize` | which deadline, boundary of now, ambiguous dates | asks just when it is safe, with a stable reference |
| Read health monitor (`health.py`) | unhealthy flag | `poll` with retries | outages whose errors change, exceptions that leave `poll` | one alert an outage, one notice of its end, bounded waits |
| ESPN adapter (`espn_adapter.py`) | none | `read_snapshot` | a class of error is read off a text; duplicate and contradictory schedules | a failure that lasts is told, whatever its text; nothing in doubt becomes a fact |
| Model analysis (`model_analysis.py`) | none | `analyze` | malformed, cut and oversized responses | nothing but a JSON object reaches the Lead Manager, which checks it again |
| Session store (`session.py`) | the session file, replaced as a whole | `capture`, `clear`, reads | two captures at a time, a reader between their steps, kills, losses of power | the file is a register: old or new, never a part |
| Weekly reports (`reports.py`) | a file a week | `from_records`, `write_weekly_report` | two runs at a time, failures and interrupts while writing | an announced report stays; no single error leaves a file that nobody announced |
| Onboarding, configuration, credentials (`onboarding.py`, `config.py`, `secrets.py`) | a summary file, or none | | | |
| Contracts (`contracts.py`) | immutable records | | | |

Every hazard found in this code is listed in `PROJECT.json`, at the line where
it bites, with the properties that would show it going wrong.

## Modules

    OnceOnlyWrite  <--refines--  ActionExecutor --extends--> ActionLedger
    PendingActionLifecycle <--refines-- DecisionHistory
                           <--refines-- LeadManager --extends--> PendingActionPolicy
                                                    '--extends--> OpenAIAnalysisPort
    WholeFile      <--refines--  OwnerOnlyFile      WeeklyReport
    ReadHealthMonitor <--refines-- EspnReads (extends it)
    SupervisedService              ApprovalRequests --extends--> PendingActionPolicy, PlayerKickoffs

| Module | Models |
|---|---|
| `OnceOnlyWrite` | what a write under an idempotency key promises: claimed, tried at most once, settled with one consistent answer |
| `ActionLedger` | entries, lines and reload of `JsonlActionLedger` |
| `ActionExecutor` | `PlaywrightESPNActionExecutor.execute`, `resolve_review`, `ActionAuthorizer`, `RuntimeWriteState` |
| `PendingActionLifecycle` | what an approval promises: put up once, decided once, reported truthfully |
| `DecisionHistory` | `JsonlDecisionHistory` with the commands of `ManagerWorkflows` that change it |
| `SupervisedService` | `SupervisedService` with its state store, Telegram's queue, and the health monitor as one step |
| `PendingActionPolicy` | `DefaultPendingActionPolicy`, with a declarative statement (`MayAsk`) of what it is to compute |
| `PlayerKickoffs` | `_player_kickoffs` of the adapter |
| `ApprovalRequests` | the policy asked again and again, while time passes, about one answer and one snapshot, which the adapter may have made of roster entries |
| `OpenAIAnalysisPort` | `OpenAIAnalysisPort.analyze` |
| `LeadManager` | `LeadManager.run_cycle` with `_CallBudget` and `_persist`, calling the port and the policy |
| `ReadHealthMonitor` | `ReadHealthMonitor.poll` |
| `EspnReads` | the attempts of a poll: `get_espn_credentials`, the call of ESPN, `_classify_provider_error`; the session and ESPN change underneath |
| `WholeFile` | what a file promises that is only replaced as a whole: a register that a loss of power may set back |
| `OwnerOnlyFile` | `ESPNSessionStore`: `capture` with `_write`, `clear`, `_read`, step by step |
| `WeeklyReport` | `WeeklyPostmortem.from_records` and `write_weekly_report` |
| `*Proofs` | theorems about the module of that name; `ActionExecutorProofs` also about `ActionLedger`, `EspnReadsProofs` about `ReadHealthMonitor`, `PendingActionPolicyProofs` about `ApprovalRequests` |
| `MCActionExecutor`, `MCDecisionHistory`, `MCSupervisedService` | constants for TLC |
| `MCApprovals`, `MCLocalFiles` | constants for TLC, and one instance of several modules: a behaviour chooses a subject at the start and leaves the others where they begin |

Operators named `<Definition>_<Word>` and commented "Mutation" are faulty forms
of `<Definition>`; each breaks the property `PROJECT.json` pairs it with.

### ActionExecutor

A step of a caller is one critical section (a lock of the ledger is held) or one
call of a port. `call[c]` is the position in `execute()` and the locals alive
there: `Begin` (the clock, `find`), `ReadPrecondition`, `Reserve`, `Authorize`,
then for every recorded event `Stamp` (which numbers the entry, `find`) and
`AppendEntry` (`append`), separate because the code takes the lock twice;
`OpenBrowser`, `Dispatch`, `Refresh`, `Verify` / `CannotVerify`, `Unknown`,
`Replay`. `AppendFails` and `ReserveFails` are both the refusal of a wrong
number and the failure of the write: in the latter nothing, the line or a torn
line is in the file (`AfterFailedWrite`). `OnRaise` is where the enclosing `try`
block of each append leads. `Dispatch` chooses whether the write takes effect at
ESPN and whether the call raises, independently. A `Crash` clears what is in memory
and may tear a line that is being written; `Restart` needs a readable file.

`file`, `count` and `latest` are the ledger's file, `len(_entries)` and
`_latest`; `attempts`, `applied` and `answers` record what the world has seen.
`Authorize` reads all controls in one step, the code takes their lock once each.
Evidence capture is left out: its exceptions are swallowed and it changes nothing.

`ReviewGate` is checked with one caller. Two concurrent calls for one action can
pass the gate before either closes it (the hazard at `execution.py:726`).

### DecisionHistory

A step is a critical section of the history's lock, or a read of the clock. An
event is a line of the file; the records in memory are a function of the events
(`Apply`), and `Accepts` is the check a replay makes of each. `Commit` writes
one event or, for a sweep, several; `CommitFails` writes a prefix, and possibly
the line that failed or a fragment of it. `Command` reads the clock once, then
`ExpireFirst`, `Lookup`, `ResolvePending` and `Reread` follow
`ManagerWorkflows._resolve`. `ListPending` is the `pending()` of "status" and of
the digest. `told` records the verdicts that replies have reported.

### SupervisedService

The loop is cut where something outside it can be observed or can fail. `mem` is
`_state`, `durable` the file. `Save` changes `mem` first, as the code does, and
its failure leaves the file either way. `GetUpdates` confirms at Telegram
whatever lies before the offset it sends. `Handle` is the effect of a command,
followed by `SavePause`, `Reply`, `Advance`. `PollEspn` has the three ends of
`monitor.poll`; `LostAccess`, `Recover`, `SaveCycle`, `Decide`,
`SaveFingerprint`, `SendDigest`, `SaveDigest` follow `_run_cycle` and
`_maybe_send_digest`; `Failure` and `SaveFailure` are the `except` branch of
`run_once`, whose save is outside the `try` block and ends the process when it
fails. `Stop` is a kill, or an interrupt that saves `mem` as it is.
The fingerprint is a pair of the league's state and the time of the read,
because the adapter puts that time into the snapshot it is computed from.
`Refused` are the updates whose reply Telegram never takes, because it is longer
than a message may be.

### PendingActionPolicy, PlayerKickoffs, OpenAIAnalysisPort, LeadManager

`Materialize` is the policy, a refusal with any text being `Refusal`. A
reference is the record of exactly the fields that `_pending_action` hashes.
`ApprovalRequests` has one action, `Evaluate`: the policy is asked at the next
time about what was fixed at the start; if the snapshot was `listed`, its kickoffs
are those that `_player_kickoffs` makes of roster entries.
A `Response` says whether the provider raises, completes, what kind of text it
gives, its size and how much the size changes when the port writes the object
anew; `Analyze` makes of it an error or a text whose size the Lead Manager checks
again. `LeadManager` walks through the five roles; `CallFails`, `CallReturns` and
`BudgetExhausted` are the outcomes of one attempt; every doubt leads to
`PersistNoAction`, an answer of the lead to `PersistReady`, which applies the
policy, reuses a reference on file or records a new one. The history appears as
the statuses of its approvals; a write of it that fails leaves nothing on record
there (what may be in the file after one is the subject of `DecisionHistory`).
Verdicts fall between cycles, because the service runs both in one thread. Too
large a context is `overflow`; a snapshot from the future is left out.

### ReadHealthMonitor, EspnReads

Every read chooses an age and completeness of the snapshot, one of the adapter's
errors, or an exception that is none of them (`ReadRaises`, which leaves `poll`
with the monitor's state unchanged). The wait after the n-th attempt is
`Delay(n)`. In `SupervisedService` a whole poll is the one step `PollEspn`.

`EspnReads` says where these answers come from. `ReadSession` takes the session
the file holds at that moment, `NoCredentials` is the exception of a missing one
(none of the adapter's, so it leaves `poll`), `Ask` the call. A failure, a refusal of
the session included, has a text of the library, which may hold any of the words that
`_classify_provider_error` looks for, or none: `Classify` makes an error of it, the words
for a refusal first. The file, the
sessions ESPN accepts and the state of ESPN change at any time.

### OwnerOnlyFile, WholeFile

The steps of a writer are the calls of the system in `_write`: create, fill, sync,
replace, chmod, and the cleanup of the `finally` clause; each may raise
(`WriteFails`). A reader looks at the mode (`Stat`), then opens (`Open`), and the
path may name another file by then. `disk` holds what the directory may name after
a loss of power: nothing forces it to disk, so that `Replace` adds to it and
`Settle` empties it. A file whose data were not synced survives as `Torn`. A killed
writer leaves its temporary file behind (`strays`). The register has taken the
new value at `Replace` (`StageOf`).

### WeeklyReport

`Build` reduces any selection of records to the public view and refuses mixed
seasons and ids that coincide after the reduction; `CreateReport` opens with `O_EXCL`,
`FillReport` and `SyncReport` write. `Fails` is any call of the system that raises: while
the file is written it leads to the cleanup, where `RemovePart` is the unlink, which may
raise as well and then leaves the file. `KillTool` (also an interrupt, which the code does
not catch) leaves it as it is. Nobody else is assumed to touch the file of the week, so
that the unlink, which goes by the path, meets the file of its own run.

## Runs

`PROJECT.json` lists the runs; the configuration of run `x` is `x.cfg`.
Deadlock is not checked in any of them: every system here may be at rest (all
keys answered, all bounds used up), and the liveness properties say what must not
be left undone.

| Run | Question | Instance | Why it is enough |
|---|---|---|---|
| `exec_serial` | Do keys of one action, used one after the other under operator controls, failed writes and a crash, keep the promises? | 1 caller, 2 keys of 1 action, 1 fault, 1 crash, up to 9 lines before a new call | two keys show the shared numbering and the gate of a common action; nine lines let a whole call of one key (eight at most) precede another |
| `exec_exclusive` | And two callers at once, each with its own key, with an approval that expires? | 2 callers, 2 keys, 1 crash, clock to 1 | all interleavings of two calls between the ledger's critical sections; more callers are covered by the proofs |
| `exec_liveness` | Does every call end and every claimed key get its answer? | 1 key, 2 crashes, all controls | a crash in the call and one in the replay that answers for it |
| `exec_shared_key` | (disagreement) two callers of one key | 2 callers, 1 key, no faults | |
| `exec_two_keys` | (disagreement) is the ledger always readable? | 1 caller, 2 keys, 1 crash | |
| `hist_shared` | Do two workflows, the digest, the deadline and a crash agree on one history? | 2 workflows, 2 actions with the same deadline, clock to 1, 1 crash | two actions make a sweep that can be cut; two workflows race for one record |
| `hist_faults` | And when a write fails or is torn? | 1 workflow, 4 decisions (two that ask, one that reuses a reference, one without), 1 fault, 1 crash | a fault in every position of a sweep, before and after a crash |
| `svc_commands` | Does the loop keep its promises through any two failures and a stop? | updates pause, foreign, resume, run, no reply refused for good; two ticks of one day with the digest due from the first, 2 faults, 1 stop; a command is counted up to 5 times, as often as `RepeatsHaveCause` can allow it here (a failed save may end the process once more); the league stays as it is: none of these properties depends on it | two faults are needed for the quiet failures (the first makes the service unhealthy, the second is silent); four updates make batches that are cut anywhere (an update that does not decode, and a command without state, take shorter paths of `Handle` and are not among them); two due passes on one day are what a second digest needs |
| `svc_unchanged` | (disagreement) is an unchanged league decided once? | no updates, 2 ticks, no faults | |
| `svc_refused` | (disagreement) does monitoring go on when a reply is refused for good? | a "why" with too long an answer, a pause behind it, 2 ticks, no other fault | |
| `approvals` | Does the policy ask just when it may? Do cycles keep their budget, and approvals their meaning? | policy: 2 players, up to 2 kickoffs each and up to 2 trade deadlines at the times 2, 3, 5, 1 or 2 actions, asked at 1 and 2; or up to 3 roster entries of which the last repeats the first. Cycles: 2, with 2 attempts a role, 6 calls, 4 answers, 6 responses, clock to 3, 1 fault | policy: every order and equality of the times that are compared, with a window of 1 around them. Cycles: the retry fits exactly once into the budget of input and calls; the second cycle meets what became of the first one's approval; the proofs cover all bounds |
| `files_reads` | Is the session file a register? Is an outage told, and once, and is logging in again enough? Is an announced report kept, and none left by a single error? | session: 2 writers, 1 reader, 1 fault, 1 kill or loss of power. Reads: 5 attempts (2 of the waits grow, 2 are the longest), 2 sessions, failures with any of the words in their text, restarts at any time. Report: 2 runs of the tool, 3 decisions of which 2 look the same in public and 2 are in season, 2 faults, 1 kill | two writers are needed for a file that another run's `chmod` or `replace` meets, and the second may be killed after the first failed; two sessions for one that is replaced by another while held; the counters of the reads are bounded by a poll, so that polls are not; the second fault of a report tool strikes its cleanup |

What the properties say (their comments in the modules say it in full):

* **ActionExecutor** - `AtMostOneDispatch`, `OneAnswer`, `HonestAnswers`,
  `DurableBeforeDispatch`, `DeniedNeverDispatched`, `ReviewGate`, `CallsEnd`,
  `ClaimedIsAnswered`; `AnswerInv` is the inductive invariant behind the answers,
  and `DispatchInv`, for which `AtMostOneDispatch` speaks, the one behind dispatches;
  `WriteSpec` is the refinement of `OnceOnlyWrite`, with the status of a key read
  off the file and the answers.
* **DecisionHistory** - `HistoryReplays`, `VerdictsInTime`, `OneVerdict`,
  `AnnouncedIsDurable`, `PendingIsDecided`; `LifecycleSpec` refines
  `PendingActionLifecycle`, with the status of an action read off the file.
* **SupervisedService** - `NoCommandLost`, `CompletedNotReplayed`,
  `RepeatsHaveCause` (commands, digests, alerts), `PausePromiseKept` (until a save
  fails), `UpdatesSettled`; `MonitoringGoesOn`, which fails.
* **Policy** - `AsksJustWhenSafe` (against `MayAsk`), `StableReference`,
  `DeadlinesAreCertain` (with `PlayerKickoffs`).
* **LeadManager** - `BudgetKept`, `ApprovalsAreBacked`, `AnsweredIsReady`,
  `ApprovedBeforeGames`, `LifecycleSpec`, `HeardAnswersFit`.
* **ReadHealthMonitor** - `OneAlertAnOutage`, `RecoveryAnswersAlert`,
  `PollIsBounded`; **EspnReads** - `OutageIsTold`: a failure that lasts ends in one
  alert, whatever its texts say (which of the two kinds the alert is, the text decides);
  `ReauthenticationRecovers`: a good session in the file ends an outage without a restart.
* **OwnerOnlyFile** - `RegisterSpec`, the refinement of `WholeFile`.
* **WeeklyReport** - `AnnouncedIsKept`, `LeftoverHasCause`.

`HistoryReplays`, `LifecycleSpec` of the history and `ClaimedIsAnswered` are
checked without I/O faults, which can leave a file no process loads (see
[Disagreements](#disagreements)). Of the kinds of updates, the instance of the
service uses pause, a stranger's, resume and run; one that does not decode only
moves the offset, and another command only answers.

The type invariant of `LeadManager` is in no run because it is proved
(`LeadTypeCorrect`). `HistoryReplays` and the refinements say more of the state of
`DecisionHistory` and `OwnerOnlyFile` than their types; the one of `ReadHealthMonitor`
is there for the reader.

## Fairness

Weak fairness only, and only where the code's own scheduling gives it:

* `ActionExecutor`: a call that has begun takes its next step (a port returns or
  raises; locks are held for one step), a stopped process is started again by its
  supervisor, and clients use their keys again until they have an answer. Operator
  actions, crashes and the clock need not happen.
* `DecisionHistory`: commands go on, the digest lists what is pending every day,
  the clock advances, the process is restarted. Nothing in the code expires an
  action by itself: without the daily list `PendingIsDecided` is false, as its
  mutation shows.
* `SupervisedService`: the loop goes on (it never waits for longer than a bounded
  poll) and the process is restarted. Failures are bounded: an update whose
  handling fails forever blocks the loop forever.
* `EspnReads`: the service polls again and again, and every wait is a bounded sleep.
  The owner need not log in, and ESPN need not recover or fail: `ReauthenticationRecovers`
  and `OutageIsTold` have that in their premises, the latter also that the process is
  restarted finitely often (the monitor's flag is in memory, a new process alerts again).
  Neither the session file nor the report tool is fair.
* `svc_refused` is a counterexample under the same fairness of the service.

## Proofs

TLAPS checks each of these for every value of the constants. Together they state every
invariant, action property and refinement that the passing runs check.

| Theorem | Statement |
|---|---|
| *`ActionExecutorProofs`* | |
| `TypeCorrect` | `Spec => []TypeOK`, and every call is for a key of its caller |
| `DispatchInvariant`, `NoDoubleDispatch` | `DispatchInv`, and with it `AtMostOneDispatch`, if `ExclusiveKeys` |
| `AnswerInvariant`, `AnswersAreTrue`, `AnsweredOnce`, `DenialIsFinal` | `AnswerInv`, and with it `HonestAnswers`, `OneAnswer`, `DeniedNeverDispatched`, if `ExclusiveKeys` |
| `WriteIsOnceOnly` | `Spec => WriteSpec`: `execute()` implements `OnceOnlyWrite`, if `ExclusiveKeys` |
| `DispatchIsDurable` | `Spec => []DurableBeforeDispatch`, shared keys included |
| `GateHolds` | `Spec => ReviewGate`, if `ExclusiveActions` |
| *`DecisionHistoryProofs`* | |
| `HistoryTypeCorrect`, `InTimeAlways` | the types; `Spec => []VerdictsInTime` |
| `VerdictInvariant`, `VerdictIsOne`, `AnnouncedStays` | `VerdictInv`, and with it `OneVerdict` and `AnnouncedIsDurable`, whatever writes fail |
| `ReplayedUntilAFailure`, `LifecycleUntilAFailure` | `HistoryReplays` holds, and every step is one of `PendingActionLifecycle`, as long as no write has failed |
| `HistoryIsReplayed`, `HistoryIsLifecycle` | so `Spec => []HistoryReplays` and `Spec => LifecycleSpec`, if `MaxFaults = 0` |
| *`SupervisedServiceProofs`* | |
| `ServiceTypeCorrect`, `NothingIsLost` | `Spec => []TypeOK`, `Spec => []NoCommandLost` |
| `NoReplay` | `Spec => CompletedNotReplayed`, an action property |
| `AnnouncedPauseKept` | `Spec => []PausePromiseKept` |
| `RepeatsAreCaused` | `Spec => []RepeatsHaveCause`, if `Refused = {}` |
| *`PendingActionPolicyProofs`* | |
| `PolicyIsExact` | what `Materialize` puts up is exactly what `MayAsk` allows |
| `AskedJustWhenSafe`, `ReferenceIsStable`, `CertainDeadlines` | of `RequestSpec`: `AsksJustWhenSafe`, `StableReference`, `DeadlinesAreCertain` |
| *`LeadManagerProofs`* | |
| `LeadTypeCorrect`, `BudgetIsKept`, `OnlyBackedApprovals` | `Spec => []TypeOK`, `[]BudgetKept`, `[]ApprovalsAreBacked` |
| `ApprovalsFollowLifecycle` | `Spec => LifecycleSpec`: the cycles implement `PendingActionLifecycle` |
| `AnsweredAreReady` | `Spec => AnsweredIsReady`, an action property |
| `AnswersFit` | `Spec => HeardAnswersFit`, an action property |
| `ApprovalsPrecedeGames` | `Spec => ApprovedBeforeGames`, if `FixedKickoffs` |
| *`EspnReadsProofs`* | |
| `OneAlert`, `RecoveryAnswers`, `WaitsAreBounded` | of the monitor: `OneAlertAnOutage`, `RecoveryAnswersAlert`, `PollIsBounded` |
| `ReadsImplementMonitor` | the reads with their credentials implement `ReadHealthMonitor`, so that these three hold of them |
| *`OwnerOnlyFileProofs`* | |
| `FileIsWhole` | the path names a whole payload or nothing, and would after a loss of power |
| `FileIsRegister` | `StoreSpec => RegisterSpec`: the file implements `WholeFile` |
| *`WeeklyReportProofs`* | |
| `ReportIsKept`, `LeftoverIsCaused` | `ReportSpec => []AnnouncedIsKept`, `ReportSpec => []LeftoverHasCause` |

*Assumptions.* Each module names those about its constants, and TLC evaluates them in
the runs that extend it: `ExecutorAssumption` and `SentinelsAssumption` (`NoKey` and
`NoEntry` are no keys and no entries), `HistoryAssumption`, `ServiceAssumption`,
`PolicyAssumption`, `KickoffAssumption`, `RequestsAssumption`, `LeadAssumption`,
`MonitorAssumption`, `ReadsAssumption`, `FileAssumption`, `ReportAssumption`. They give
types and the limits the constructors of the code enforce. `LeadAssumption` also says
that an answer is a finite set of actions and that `References` holds what the policy
can make of the answers (it only names the index set of the history). Some theorems
have a premise of their own:

* `ExclusiveKeys`: no key is used by two callers. It cannot be dropped;
  `exec_shared_key` shows why.
* `ExclusiveActions` (`GateHolds`): no two callers work on one action. Two calls for one
  action can both pass the gate before either closes it.
* `MaxFaults = 0` (`HistoryIsReplayed`, `HistoryIsLifecycle`): no write of the history
  fails. After one the file may be unreadable (see [Disagreements](#disagreements));
  crashes, also within a sweep, are allowed. The other theorems about the history hold
  through failed writes.
* `Refused = {}` (`RepeatsAreCaused`): Telegram refuses no reply for good; otherwise a
  command is repeated without any failure that is counted, and `svc_refused` shows how.
* `FixedKickoffs` (`ApprovalsPrecedeGames`): ESPN does not move a game; the deadline of
  an approval is not revised when it does.

*Why at most one dispatch.* `AtMostOneDispatch` is not inductive: a state in
which a caller is about to dispatch a key that was dispatched before satisfies it.
`DispatchInv` adds what rules that out. `ReservationsHeld`: a caller that may still
dispatch finds its key unattempted, and once it has reserved it the key is in the file
and in memory. `AttemptsRecorded`: an attempted key is in the file and, while a
process runs, in its memory; what is in memory is in the file.
`CallersWellFormed`: a call in progress is for a key of its caller, and only while
the process runs. A restart is the step that needs the ledger: the file may hold
anything a fault or a crash left there, but it is loaded only if it is readable, and
then the lemma `LastLineIsEntry` gives every key with a line its entry back, so `Begin`
leads to a replay and never to a dispatch. The proof has a step per action and below it
one per conjunct the action can disturb. The lemmas about the lines of a key in a file
that grew by a line are the first section of `ActionExecutorProofs`.

*Why answers are true and final.* `AnswerInv` adds to `DispatchInv` what the file says:
every line of a key is true of ESPN (`Truthful`), a key unknown in memory is undecided in
the file, and once there is an answer it is the last line of the key, in the file and in
memory, so that all later calls replay it (`KeyInv`); what a call in progress is about to
record is true, and it works on a key without an answer (`CallInv`). The case that needs
thought is an append that fails with its line in the file: the line is not in memory, the
call goes on to record something else, and both lines must be true of the same write. For
the refinement, the claim is the first line of a key, the attempt `Dispatch`, and the
settlement the first answer; all other steps stutter.

*Why dispatches leave a trail, and the gate holds.* `TrailInv` does without
`ExclusiveKeys`: a caller that holds a reservation, an authorization or is at the dispatch
has the line of that in the file, because lines are never removed, and a caller that
continues on a foreign reservation continues on one that is a line. `GateInv`: from
the authorization to the dispatch no fresh read of the action is required, since only the
action's own caller could have closed the gate in between.

*Why verdicts are single and durable.* A replay is a recursive function of the events
(`Views`); `ViewsRecur` is its recursion, shown once by the least counterexample to
"defined as it should be" (the lemma `UpTo`, by well-foundedness of finite sets under
inclusion), and the lemmas about a file that is continued by more lines follow from it.
So the induction over data is stated for sets of numbers, not with an operator as a
parameter. `Planned` is what all commands have in common: the events they are about to
write are numbered on, are accepted one after the other, in time, and move each action at
most once, also if only the first of them are written; that a sweep of several expiries is
planned is the longest part. Each step is then one of five: it writes all it planned, it fails
after a part, it dies after a part, it is quiet, or it restarts. After a failed write memory and
file differ, and the file may be unreadable; `VerdictInv` says what is left: a reported
verdict is a line of the file, a verdict in memory is one too, and *if* the file can be
read, its replay agrees with memory and with every report. Until a write fails memory is
the replay at all times, and what a step writes is a move of `PendingActionLifecycle`.

*Why the service keeps its promises.* Everything rests on `InStep`: the offset on disk
is never past the one in memory, that one never past the updates there are, and an
update that is under way lies at or behind it. `NothingLost` says that
`NoCommandLost` holds below all three offsets (Telegram's, memory's, the file's) and
below the head of the batch, which is what makes it inductive through a restart, where
the file becomes the memory. `PauseKept` adds where in the handling of a command memory,
file and gate may differ. `CommandsCaused`, `DigestsCaused` and `AlertsCaused` pay for
repetitions: each but the last has a failure or a stop to blame, and so has the last
unless it is counted as done or still under way in a running process. `AtRest` (a process
that is down is at no position of the loop) connects the two sides of a stop.

*Why the policy is exact, stable and certain.* The steps of the policy take the first
kickoff of the players with `CHOOSE`; that one exists for any finite, non-empty set of them
follows from the well-foundedness of the naturals. Both inclusions are then shown for each
kind of action. `RequestInv` says that the last request is what `Materialize` computes
of what was fixed at the start; `OneReference` that two answers to it, at any two times, are
the same, because a reference is made of the answer and the games and never of the time.
A kickoff that `_player_kickoffs` keeps is the only date any entry of the player gives
(`KnownIsCertain`).

*Why cycles keep their budget, and approvals their meaning.* `Formed` ties the
position of a cycle to the roles it has heard and to the age its snapshot had when it
began; `CycleInv` adds it to the three invariants. `TargetsBacked` brings in
`PolicyIsExact`: what is put up is in time. For the refinement, a cycle that repeats an
answer finds its approval on file and stutters. `GamesInv` carries what was true of the
games when an approval was put up to the time of the verdict, which is before its deadline.

*Why one alert, and bounded waits.* The monitor's strengthening is that an alert is
outstanding just when the monitor is unhealthy; both theorems follow from it. `WaitInv`
gives every attempt but the first one wait, and none to the last; the delays themselves
are powers of two, but never more than the longest.

*Why the file is a register.* `StoreInv`: the temporary file a writer is about to rename
is whole and on disk (`TempOK`), so what the path and the directory name always is, and
a loss of power changes no content (`WholeSurvives`). Each step of the file is then a
step of the register or a stutter.

*Why a report stays.* `ReportInv`: at most one run of the tool has the file open, and none
once a report was announced, because each created it exclusively and it is removed by
its own writer only. A run at its cleanup has seen one error, so that a file left there is
left by the second.

*Left to TLC:* liveness, which needs `ENABLED` and fairness (`CallsEnd`,
`ClaimedIsAnswered`, `PendingIsDecided`, `UpdatesSettled`, `OutageIsTold`,
`ReauthenticationRecovers`), and the disagreements, whose runs are counterexamples.

## Disagreements

Each of these runs ends in a counterexample of what a document or comment says.

* `exec_shared_key`: `execute()` tells its own reservation from a foreign one only
  by the entry's event, so two concurrent callers of one key both dispatch.
* `exec_two_keys`: `_append_event` numbers an entry after the last one *of its key*,
  `append` wants the next number *of the file* and checks after writing. A key that
  is taken up again after another was used leaves a file that no process can load,
  without any I/O fault.
* `svc_unchanged`: the fingerprint that is to recognise an unchanged league contains
  the time of the read, so no snapshot ever looks unchanged.
* `svc_refused`: a reply is sent inside the loop over the updates and before the offset
  is saved (`service.py:373`). One that Telegram refuses for good, as it does a message
  that is too long, ends every iteration at the same update: no later command is handled
  and ESPN is not polled, although "supervisor loop stays alive after a safe alert"
  (`service.py:297`) and the reply to a pause says "monitoring continues"
  (`workflows.py:128`). `_render_why` (`workflows.py:208-234`) can make such a text of
  four opinions at their limits (`orchestration.py:43-45`).

Other places where a document promises more than the code does, found while
modelling. No run is spent on them; the models show each in the way described.

* A pause that comes after the authorization does not stop the write
  (`execution.py:726`, `:785`): a `Dispatch` step with `paused` true is reachable.
* A history write that fails after its line is in the file is followed by an event
  with the same number (`decisions.py:684-686`), and the file is unreadable from
  then on: `CommitFails`, then `Commit`.
* A pause whose save failed while the service was unhealthy is acknowledged on the
  second attempt without having been saved, because the state in memory no longer
  differs (`service.py:509-513`): `PausePromiseKept` without its premise fails.
* An alert that could not be delivered is not sent again: sending raises, the exception
  is swallowed (`service.py:458-469`), the outage counts as alerted (`:451`), and later
  failures stay quiet. An outage of ESPN that begins while the service is unhealthy for
  another reason is not alerted either. `mem.unhealthy` with `alerts = 0` is a resting state.
* A digest or a command is repeated when the process ends between its effect and
  the save of its marker (`service.py:504-506`, `:370-375`): the two properties
  about repetitions need the `stops` in their bounds, also for an interrupt.
* The policy compares a deadline with the time the cycle began
  (`orchestration.py:718`), so an approval may be put up when it is already over.
* A recommendation that comes again after its veto is reported as a reused *pending*
  approval (`orchestration.py:961-971`): `OnFile` does not look at the status.
* A deadline is not revised when ESPN moves the game forward
  (`orchestration.py:617-624`): `ApprovedBeforeGames` needs games that stay.
* The class of a provider's error is read off its text (`espn_adapter.py:388-404`), which
  is the library's. A text that holds "401", "403" or "private" for another reason (the id
  of a league among the digits of a URL) is called a refusal, and a failure that would
  pass is not retried. The text of a refusal may hold none of these words: the owner is
  then told of a failure of the service, and not that a new login would end it. In
  `EspnReads` both are steps of `AskFails`; `OutageIsTold` says no more than that a lasting
  failure is told.
* "Return one bounded JSON object" (`model_analysis.py:173`): the length is checked
  before the object is written anew (`:204-214`), which escapes letters outside ASCII,
  so the result may exceed the bound. The Lead Manager checks again and the attempt is
  lost (the response with `growth = 1` in `approvals`).
* `_write` syncs the temporary file but not the directory (`session.py:120-138`), so that a
  loss of power after a reported capture may bring the old session back: `WholeFile`
  promises no more (`kept`).
* A report tool that is interrupted while it writes leaves a part of a report, because only
  `Exception` is caught (`reports.py:347`), and so does one whose cleanup fails as its write
  did (`:348`, on a disk that has gone read-only, say); the week cannot be written again:
  `LeftoverHasCause` allows it after a kill or a second error.

## Not modelled

* **The texts of reports** (`reports.py`): the HTML of the view, and curated insights,
  which are passed through.
* **Onboarding** (`onboarding.py`): one read and one summary file, written by the steps
  of `OwnerOnlyFile`.
* **Configuration, credentials, redaction** (`config.py`, `secrets.py`): parsing of
  the environment and pure functions over texts.
* **The login itself** (`session.py`): an interactive browser; what it leaves is a payload.
* **The sections of a snapshot** other than kickoffs (`espn_adapter.py`): mapped field by
  field without state; they appear as a snapshot that is valid or not.
* **HTTP transport and formatting** of Telegram, ESPN and the model port; prompts
  and the content of analyses; screenshots. They appear as outcomes.
* `TelegramService.poll_once`, an older loop that the service does not use, and the
  in-memory ledger, which is the one of the file without the file.

## Plan

The order follows what goes wrong at the highest price: a write at ESPN, then a
verdict of the owner, then the loop that carries both, then what is put to the owner.

1. *Done:* `ActionLedger`, `ActionExecutor`, `OnceOnlyWrite` and the proof of
   `NoDoubleDispatch`; `DecisionHistory`, `PendingActionLifecycle`;
   `SupervisedService` and its proofs; `PendingActionPolicy`, `PlayerKickoffs`,
   `ApprovalRequests`, `OpenAIAnalysisPort`, `LeadManager` and their proofs;
   `ReadHealthMonitor`, composed with its reads in `EspnReads`; `OwnerOnlyFile` as a
   refinement of `WholeFile`; `WeeklyReport`. The proofs of the answers of the executor
   and of its refinement, of the history, and of everything else that is safety.
2. *Extend:* compose the service with the Lead Manager and the history on one
   file (a cycle interrupted between `record_cycle` and the fingerprint; a command
   handled again after its verdict was recorded); show that a poll of
   `ReadHealthMonitor` implements `PollEspn`; the gate for two callers, stated for
   calls that begin after it closed; undecodable updates and other commands in the
   service's instance; `TelegramService.poll_once`.
3. *Prove:* done for every invariant, action property and refinement the passing
   runs check. What is left is what step 2 adds.
