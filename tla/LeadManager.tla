---------------------------- MODULE LeadManager ----------------------------
(***************************************************************************)
(* LeadManager.run_cycle (orchestration.py): the four specialists and the  *)
(* lead are asked in turn, each with retries and all within one budget;    *)
(* every doubt ends in a recorded "no action", an answer of the lead in a  *)
(* recorded recommendation and, if the policy allows, one approval put to  *)
(* the owner.                                                              *)
(*                                                                         *)
(* The decision history (DecisionHistory) appears as the statuses of its   *)
(* approvals.  The service runs cycles and commands in one thread: the     *)
(* owner's verdicts fall between cycles, the clock and the league move at  *)
(* any time.                                                               *)
(***************************************************************************)
EXTENDS PendingActionPolicy, OpenAIAnalysisPort

CONSTANTS
  Leagues,          \* what ESPN may say: a set of snapshots
  Answers,          \* the next_actions a lead may answer
  References,       \* the references these can lead to
  AttemptsPerRole, MaxTotalCalls, MaxTotalInput, MaxOutput, MaxTotalOutput,
  MaxSnapshotAge,   \* AnalysisLimits
  InputSize,        \* per role: instructions and context
  Responses,        \* of the model's provider
  Flaws,            \* what else may go wrong in this instance
  MaxTime, MaxCycles, MaxFaults

\* Another port gives no text, a context is too large, the policy raises.
AllFlaws == {"notText", "overflow", "policy"}

Roles == <<"league_data", "lineup_waiver", "trade", "risk", "lead">>

ASSUME LeadAssumption ==
  /\ Leagues \subseteq Snapshot
  /\ \A actions \in Answers : actions \subseteq Action /\ IsFiniteSet(actions)
  /\ AttemptsPerRole \in Nat \ {0} /\ MaxTotalCalls \in Nat \ {0}
  /\ AttemptsPerRole <= MaxTotalCalls
  /\ MaxTotalInput \in Nat \ {0} /\ MaxTotalOutput \in Nat \ {0}
  /\ MaxOutput \in Nat \ {0} /\ MaxOutput <= MaxTotalOutput
  /\ MaxSnapshotAge \in Nat
  /\ InputSize \in [1 .. Len(Roles) -> Nat]
  /\ \A r \in Responses : r \in Response(Nat, Int) /\ r.size + r.growth \in Nat
  /\ Flaws \subseteq AllFlaws
  /\ MaxTime \in Nat /\ MaxCycles \in Nat /\ MaxFaults \in Nat
  /\ \A s \in Leagues, actions \in Answers, t \in 0 .. MaxTime :
       Materialize(s, actions, t).targets \subseteq References

VARIABLES
  clock,      \* the injected clock
  league,     \* what ESPN would answer now
  cycle,      \* the run_cycle in progress
  outcome,    \* the DecisionCycleResult of the last one
  approvals,  \* the history's pending actions: per reference its record
  cycles, faults

worldVars == <<clock, league>>
vars == <<worldVars, cycle, outcome, approvals, cycles, faults>>

-----------------------------------------------------------------------------
Statuses == {"absent", "pending", "approved", "vetoed", "expired"}

\* A record's status, and of its cycle: triggered_at, the time of its facts,
\* the roles whose analyses it rests on.
Approval == [status : Statuses, at : Nat, read : Nat, heard : SUBSET (1 .. Len(Roles))]

NoApproval == [status |-> "absent", at |-> 0, read |-> 0, heard |-> {}]

Labels == {"idle", "read", "encode", "call", "noAction", "ready"}

\* calls, input and output are the _CallBudget; heard the roles analysed.
Cycle == [pc : Labels, snapshot : Leagues, read : Nat, now : Nat,
          role : 1 .. Len(Roles), attempt : 1 .. AttemptsPerRole,
          calls : Nat, input : Nat, output : Nat,
          heard : SUBSET (1 .. Len(Roles)), answer : Answers \cup {{}}]

Idle == [pc |-> "idle", snapshot |-> CHOOSE s \in Leagues : TRUE, read |-> 0, now |-> 0,
         role |-> 1, attempt |-> 1, calls |-> 0, input |-> 0, output |-> 0,
         heard |-> {}, answer |-> {}]

Outcomes == [status : {"none", "no_action", "recommendation_ready"},
             reason : {"none", "failed_closed", "recorded", "reused", "unsaved"},
             references : SUBSET References]

Outcome(status, reason, references) ==
  [status |-> status, reason |-> reason, references |-> references]

Init ==
  /\ clock = 0 /\ league \in Leagues
  /\ cycle = Idle /\ outcome = Outcome("none", "none", {})
  /\ approvals = [r \in References |-> NoApproval]
  /\ cycles = 0 /\ faults = 0

-----------------------------------------------------------------------------
(* A cycle *)

\* The service reads ESPN and hands the snapshot over.
Read ==
  /\ cycle.pc = "idle" /\ cycles < MaxCycles
  /\ cycle' = [Idle EXCEPT !.pc = "read", !.snapshot = league, !.read = clock]
  /\ cycles' = cycles + 1
  /\ UNCHANGED <<worldVars, outcome, approvals, faults>>

\* _snapshot_problem, with read the source_timestamp.
SnapshotProblem(snapshot, read, now) ==
  now - read > MaxSnapshotAge \/ ~snapshot.complete

Start ==
  /\ cycle.pc = "read"
  /\ cycle' = [cycle EXCEPT
       !.now = clock,
       !.pc = IF SnapshotProblem(cycle.snapshot, cycle.read, clock)
              THEN "noAction" ELSE "encode"]
  /\ UNCHANGED <<worldVars, outcome, approvals, cycles, faults>>

FailClosed == [cycle EXCEPT !.pc = "noAction"]

\* _encode_context: it fits the bound on one call, or does not.
Encode ==
  /\ cycle.pc = "encode"
  /\ \/ cycle' = [cycle EXCEPT !.pc = "call"]
     \/ "overflow" \in Flaws /\ cycle' = FailClosed
  /\ UNCHANGED <<worldVars, outcome, approvals, cycles, faults>>

\* Mutation: the input budget is checked before the call is added to it.
Reserves_Before == cycle.calls < MaxTotalCalls /\ cycle.input <= MaxTotalInput

\* _CallBudget.reserve_call.
Reserves ==
  /\ cycle.calls < MaxTotalCalls
  /\ cycle.input + InputSize[cycle.role] <= MaxTotalInput

Reserved == [cycle EXCEPT !.calls = @ + 1, !.input = @ + InputSize[cycle.role]]

\* The role could not be asked within the budget.
BudgetExhausted ==
  /\ cycle.pc = "call" /\ ~Reserves
  /\ cycle' = FailClosed
  /\ UNCHANGED <<worldVars, outcome, approvals, cycles, faults>>

\* Mutation: a role that fails is passed over.
Retry_PassesOver(c) ==
  IF c.attempt < AttemptsPerRole THEN [c EXCEPT !.attempt = @ + 1]
  ELSE IF c.role = Len(Roles) THEN [c EXCEPT !.pc = "noAction"]
  ELSE [c EXCEPT !.pc = "encode", !.role = @ + 1, !.attempt = 1]

\* The next attempt, or the end of the role and with it of the cycle.
Retry(c) ==
  IF c.attempt < AttemptsPerRole THEN [c EXCEPT !.attempt = @ + 1]
  ELSE [c EXCEPT !.pc = "noAction"]

\* The port raises, or returns something that is not a text.
CallFails ==
  /\ cycle.pc = "call" /\ Reserves
  /\ \/ \E response \in Responses : Analyze(response, MaxOutput) = Raised
     \/ "notText" \in Flaws
  /\ cycle' = Retry(Reserved)
  /\ UNCHANGED <<worldVars, outcome, approvals, cycles, faults>>

\* The answer of the role is valid: on to the next role, or to the end.
Accepted(c, answer) ==
  IF c.role < Len(Roles)
  THEN [c EXCEPT !.pc = "encode", !.role = @ + 1, !.attempt = 1, !.heard = @ \cup {c.role}]
  ELSE [c EXCEPT !.pc = "ready", !.heard = @ \cup {c.role}, !.answer = answer]

\* A text arrived: the budget comes first, then its size and its schema.
Answered(c, valid, answer) ==
  IF c.output > MaxTotalOutput THEN [c EXCEPT !.pc = "noAction"]
  ELSE IF valid THEN Accepted(c, answer) ELSE Retry(c)

\* Mutation: the length of a text is left to the port.
Parses_NotMeasured(text) == text.parses

\* The parsers of _parse_specialist and _parse_lead accept a text that has the
\* schema of its role; one that is too long is not tried.
Parses(text) == text.parses /\ text.size <= MaxOutput

CallReturns ==
  /\ cycle.pc = "call" /\ Reserves
  /\ \E response \in Responses, answer \in Answers :
       LET text == Analyze(response, MaxOutput) IN
       /\ text # Raised
       /\ cycle' = Answered([Reserved EXCEPT !.output = @ + text.size], Parses(text), answer)
  /\ UNCHANGED <<worldVars, outcome, approvals, cycles, faults>>

-----------------------------------------------------------------------------
(* _persist *)

\* The history could not be written: nothing is on record for this process.
Unsaved ==
  /\ faults < MaxFaults /\ faults' = faults + 1
  /\ outcome' = Outcome("no_action", "unsaved", {})
  /\ UNCHANGED approvals

\* record_cycle: a new decision, with its approval if it asks for one.
Record(status, reason, references) ==
  /\ approvals' = [r \in References |->
       IF r \in references
       THEN [status |-> "pending", at |-> cycle.now, read |-> cycle.read, heard |-> cycle.heard]
       ELSE approvals[r]]
  /\ outcome' = Outcome(status, reason, references)
  /\ UNCHANGED faults

PersistNoAction ==
  /\ cycle.pc = "noAction"
  /\ cycle' = Idle
  /\ Record("no_action", "failed_closed", {}) \/ Unsaved
  /\ UNCHANGED <<worldVars, cycles>>

\* Mutation: record_cycle is left to find out that the reference is on file.
OnFile_NotLookedUp(references) == {}

\* The references of a policy result that have a record, whatever its status.
OnFile(references) == {r \in references : approvals[r].status # "absent"}

Reuse(references) ==
  /\ outcome' = Outcome("recommendation_ready", "reused", references)
  /\ UNCHANGED <<approvals, faults>>

\* record_cycle refuses a reference that is on file.
Rejected ==
  /\ outcome' = Outcome("no_action", "unsaved", {})
  /\ UNCHANGED <<approvals, faults>>

\* Mutation: a repeated recommendation replaces the record of the first.
PersistReady_Replaces ==
  /\ cycle.pc = "ready"
  /\ cycle' = Idle
  /\ LET references == Materialize(cycle.snapshot, cycle.answer, cycle.now).targets
     IN  Record("recommendation_ready", "recorded", references) \/ Unsaved
  /\ UNCHANGED <<worldVars, cycles>>

\* A policy that raises counts as a refusal.
PersistReady ==
  /\ cycle.pc = "ready"
  /\ cycle' = Idle
  /\ \E result \in {Materialize(cycle.snapshot, cycle.answer, cycle.now)}
                   \cup (IF "policy" \in Flaws THEN {Refusal} ELSE {}) :
       IF OnFile(result.targets) # {} THEN Reuse(result.targets)
       ELSE IF \E r \in result.targets : approvals[r].status # "absent" THEN Rejected
       ELSE Record("recommendation_ready", "recorded", result.targets) \/ Unsaved
  /\ UNCHANGED <<worldVars, cycles>>

-----------------------------------------------------------------------------
(* Around the cycle *)

Resolve(r, status) ==
  /\ approvals' = [approvals EXCEPT ![r].status = status]
  /\ UNCHANGED <<worldVars, cycle, outcome, cycles, faults>>

\* Mutation: the deadline itself is still in time.
Verdict_AtDeadline(r, verdict) ==
  /\ cycle.pc = "idle" /\ approvals[r].status = "pending" /\ clock <= r.expires
  /\ Resolve(r, verdict)

\* approve or veto: the sweep before it has expired what is due.
Verdict(r, verdict) ==
  /\ cycle.pc = "idle" /\ approvals[r].status = "pending" /\ clock < r.expires
  /\ Resolve(r, verdict)

Expire(r) ==
  /\ cycle.pc = "idle" /\ approvals[r].status = "pending" /\ clock >= r.expires
  /\ Resolve(r, "expired")

\* The process ends and starts again: what it had not recorded is gone.
Crash ==
  /\ cycle.pc # "idle" /\ faults < MaxFaults
  /\ faults' = faults + 1
  /\ cycle' = Idle
  /\ UNCHANGED <<worldVars, outcome, approvals, cycles>>

\* Time passes, and ESPN may list other kickoffs or deadlines then.
Tick ==
  /\ clock < MaxTime
  /\ clock' = clock + 1
  /\ league' \in Leagues
  /\ UNCHANGED <<cycle, outcome, approvals, cycles, faults>>

CycleStep ==
  \/ Start \/ Encode \/ BudgetExhausted \/ CallFails \/ CallReturns
  \/ PersistNoAction \/ PersistReady

Next ==
  \/ Read \/ CycleStep
  \/ \E r \in References : Expire(r) \/ \E v \in {"approved", "vetoed"} : Verdict(r, v)
  \/ Crash \/ Tick

Spec == Init /\ [][Next]_vars

-----------------------------------------------------------------------------
(* Properties *)

\* Every variable stays in its type; a cycle's attempt never passes its limit.
TypeOK ==
  /\ clock \in Nat /\ league \in Leagues
  /\ cycle \in Cycle /\ outcome \in Outcomes
  /\ approvals \in [References -> Approval]
  /\ cycles \in Nat /\ faults \in Nat

\* However retries and roles share it, the budget of one cycle is never
\* overrun (_CallBudget): not by a call, and not by an answer that counts.
BudgetKept ==
  /\ cycle.calls <= MaxTotalCalls
  /\ cycle.input <= MaxTotalInput
  /\ cycle.pc # "noAction" => cycle.output <= MaxTotalOutput

\* The owner is only ever asked to approve what the lead and all four
\* specialists were heard on, from a snapshot that was fresh when the cycle
\* began, and with time left then (run_cycle fails closed).
ApprovalsAreBacked ==
  \A r \in References : approvals[r].status # "absent" =>
    /\ approvals[r].heard = 1 .. Len(Roles)
    /\ approvals[r].at - approvals[r].read \in 0 .. MaxSnapshotAge
    /\ r.expires > approvals[r].at

\* A cycle whose lead answered is reported as a recommendation unless the
\* history could not be written, also if its approval is on file (_persist).
AnsweredIsReady ==
  [][cycle.pc = "ready" /\ cycle'.pc = "idle" /\ faults' = faults
     => outcome'.status = "recommendation_ready"]_vars

\* As long as ESPN does not move a game, no lineup is approved later than
\* 15 minutes before the game of any player it affects.
ApprovedBeforeGames ==
  [][\A r \in References :
       (approvals[r].status = "pending" /\ approvals'[r].status = "approved"
          /\ r.kind \in LineupKinds)
       => \A p \in r.players : \A i \in 1 .. Len(league.kickoffs[p]) :
            clock + SafetyWindow < league.kickoffs[p][i]]_vars

Lifecycle == INSTANCE PendingActionLifecycle WITH
  Actions <- References,
  status <- [r \in References |-> approvals[r].status],
  told <- [r \in References |-> {}]

\* Repeated, failed and interrupted cycles put an action up at most once and
\* leave its verdict alone: the approvals implement PendingActionLifecycle.
LifecycleSpec == Lifecycle!Spec

\* No answer of a role counts that is longer than one call may give, also if it
\* fitted when the port looked and has grown since, because the port writes it
\* anew (analyze, _call_with_retries).
HeardAnswersFit ==
  [][~(cycle'.heard \subseteq cycle.heard)
     => cycle'.output - cycle.output <= MaxOutput]_vars
=============================================================================
