-------------------------- MODULE DecisionHistory --------------------------
(***************************************************************************)
(* The decision history (decisions.py: InMemoryDecisionHistory and the     *)
(* JsonlDecisionHistory that persists it) and the approval workflows over  *)
(* it (workflows.py: ManagerWorkflows).  Several workflows share one       *)
(* history, each serialises its own commands; the Lead Manager records     *)
(* cycles, the daily digest and "status" list, and thereby expire, what is *)
(* pending; writes fail, the process crashes and reloads the file.         *)
(*                                                                         *)
(* A step is one critical section of the history's lock, or one read of    *)
(* the clock.                                                              *)
(***************************************************************************)
EXTENDS Integers, Sequences, FiniteSets

CONSTANTS
  Decisions,   \* decision ids
  Actions,     \* action references
  NoAction,    \* a decision without one
  ActionOf,    \* per decision: its action reference
  Asks,        \* the decisions with a pending action (others: an execution)
  ExpiresAt,   \* per action: PendingAction.expires_at
  Measured,    \* the actions whose outcome is measured
  Workflows,   \* ManagerWorkflows instances on the history
  MaxTime,     \* bound on the clock
  MaxFaults,   \* bound on failed and torn writes
  MaxCrashes   \* bound on crashes

ASSUME HistoryAssumption ==
  /\ NoAction \notin Actions
  /\ ActionOf \in [Decisions -> Actions \cup {NoAction}]
  /\ Asks \subseteq {d \in Decisions : ActionOf[d] \in Actions}
  /\ ExpiresAt \in [Actions -> Nat]
  /\ Measured \subseteq Actions
  /\ MaxTime \in Nat /\ MaxFaults \in Nat /\ MaxCrashes \in Nat

VARIABLES
  up,       \* the process runs, with its history loaded
  file,     \* decision-history.jsonl
  count,    \* len(_events)
  view,     \* _decision_ids and _records
  flow,     \* per workflow: the command it executes
  told,     \* per action: the verdicts its replies have reported
  clock,
  faults, crashes

historyVars == <<file, count, view>>
budgetVars == <<faults, crashes>>
vars == <<up, historyVars, flow, told, clock, budgetVars>>

-----------------------------------------------------------------------------
(* Events, and the view they add up to *)

Verdicts == {"approved", "vetoed", "expired"}

\* A status is "absent" (no record), "none" (the cycle asked for no decision),
\* "pending" or a verdict.
NoView == [ids |-> {},
           records |-> [a \in Actions |-> [status |-> "absent", outcome |-> FALSE]]]

Cycle(seq, d) ==
  [seq |-> seq, kind |-> "cycle_recorded", subject |-> d, status |-> "none", at |-> 0]

Resolution(seq, a, status, at) ==
  [seq |-> seq, kind |-> "pending_resolved", subject |-> a, status |-> status, at |-> at]

Outcome(seq, a) ==
  [seq |-> seq, kind |-> "outcome_recorded", subject |-> a, status |-> "none", at |-> 0]

TornLine == [seq |-> 0, kind |-> "torn", subject |-> NoAction, status |-> "none", at |-> 0]

\* Mutation: a resolved action can be resolved again.
CanResolve_Again(v, a) == v.records[a].status \notin {"absent", "none"}

\* The guard of _resolve and of the replay of its event.
CanResolve(v, a) == v.records[a].status = "pending"

\* The guards of record_cycle and record_outcome, checked again by a replay.
CanRecord(v, d) ==
  /\ d \notin v.ids
  /\ ActionOf[d] # NoAction => v.records[ActionOf[d]].status = "absent"

CanMeasure(v, a) == v.records[a].status # "absent" /\ ~v.records[a].outcome

Accepts(v, e) ==
  CASE e.kind = "cycle_recorded" -> CanRecord(v, e.subject)
    [] e.kind = "pending_resolved" -> CanResolve(v, e.subject)
    [] e.kind = "outcome_recorded" -> CanMeasure(v, e.subject)
    [] OTHER -> FALSE

Apply(v, e) ==
  CASE e.kind = "cycle_recorded" /\ ActionOf[e.subject] = NoAction ->
         [v EXCEPT !.ids = @ \cup {e.subject}]
    [] e.kind = "cycle_recorded" /\ ActionOf[e.subject] # NoAction ->
         [v EXCEPT !.ids = @ \cup {e.subject},
            !.records[ActionOf[e.subject]].status =
               IF e.subject \in Asks THEN "pending" ELSE "none"]
    [] e.kind = "pending_resolved" -> [v EXCEPT !.records[e.subject].status = e.status]
    [] e.kind = "outcome_recorded" -> [v EXCEPT !.records[e.subject].outcome = TRUE]

\* The view after each prefix of a sequence of events.
Views(v, es) ==
  LET after[i \in 0 .. Len(es)] == IF i = 0 THEN v ELSE Apply(after[i - 1], es[i])
  IN  after

ViewAfter(v, es) == Views(v, es)[Len(es)]

Untorn(f) == \A i \in 1 .. Len(f) : f[i] # TornLine

\* _load accepts the file.
Readable(f) ==
  /\ Untorn(f)
  /\ LET after == Views(NoView, f)
     IN  \A i \in 1 .. Len(f) : f[i].seq = i /\ Accepts(after[i - 1], f[i])

-----------------------------------------------------------------------------
(* Writing *)

\* Mutation: the events of a sweep share one number.
Commit_OneNumber(es) ==
  /\ file' = file \o es
  /\ count' = IF es = <<>> THEN count ELSE count + 1
  /\ view' = ViewAfter(view, es)

\* _append_event for each of the events, and the update of the view after it.
Commit(es) ==
  /\ file' = file \o es
  /\ count' = count + Len(es)
  /\ view' = ViewAfter(view, es)

\* Mutation: the view is updated although the event could not be written.
CommitFails_ViewFirst(es) ==
  /\ faults < MaxFaults /\ faults' = faults + 1
  /\ \E i \in 1 .. Len(es) :
       /\ file' \in {file \o SubSeq(es, 1, i - 1), file \o SubSeq(es, 1, i)}
       /\ count' = count + i
       /\ view' = ViewAfter(view, SubSeq(es, 1, i))

\* One of them cannot be written: nothing, all or a fragment of its line is in
\* the file, the view is that of the events before it, and _append_event raises.
CommitFails(es) ==
  /\ faults < MaxFaults /\ faults' = faults + 1
  /\ \E i \in 1 .. Len(es) :
       /\ file' \in {file \o SubSeq(es, 1, i - 1), file \o SubSeq(es, 1, i),
                     file \o Append(SubSeq(es, 1, i - 1), TornLine)}
       /\ count' = count + i - 1
       /\ view' = ViewAfter(view, SubSeq(es, 1, i - 1))

\* The events are written, or one of them is not and the caller sees it.
Write(es) == (Commit(es) /\ UNCHANGED faults) \/ CommitFails(es)

\* Mutation: an action may still be approved at its deadline.
Due_After(now) ==
  {a \in Actions : view.records[a].status = "pending" /\ ExpiresAt[a] < now}

\* expire_pending: the actions whose deadline has come.
Due(now) ==
  {a \in Actions : view.records[a].status = "pending" /\ ExpiresAt[a] <= now}

\* The events of expire_pending, in any order of the actions.
Expiries(now) ==
  LET n == Cardinality(Due(now))
      orders == {o \in [1 .. n -> Due(now)] : \A i, j \in 1 .. n : o[i] = o[j] => i = j}
  IN  {[i \in 1 .. n |-> Resolution(count + i, o[i], "expired", now)] : o \in orders}

-----------------------------------------------------------------------------
(* The Lead Manager, the digest and the caller of record_outcome *)

\* record_cycle; a known decision id or action reference raises, and nothing
\* changes.
RecordCycle(d) ==
  LET es == <<Cycle(count + 1, d)>> IN
  /\ up /\ CanRecord(view, d)
  /\ Write(es)
  /\ UNCHANGED <<up, flow, told, clock, crashes>>

\* record_outcome, also on behalf of record_execution_result.
RecordOutcome(a) ==
  LET es == <<Outcome(count + 1, a)>> IN
  /\ up /\ CanMeasure(view, a)
  /\ Write(es)
  /\ UNCHANGED <<up, flow, told, clock, crashes>>

\* Mutation: what is overdue is left out of the list, and left pending.
ListPending_FiltersOnly == up /\ UNCHANGED vars

\* pending(), as "status" and the daily digest call it.
ListPending ==
  /\ up
  /\ \E es \in Expiries(clock) : Write(es)
  /\ UNCHANGED <<up, flow, told, clock, crashes>>

-----------------------------------------------------------------------------
(* ManagerWorkflows._resolve *)

\* A command is "idle", or where it is in _resolve, with its verdict and its time.
IdleFlow == [pc |-> "idle", action |-> NoAction, verdict |-> "approved", now |-> 0]

\* approve or veto: the clock is read once, for the whole command.
Command(w, a, verdict) ==
  /\ up /\ flow[w].pc = "idle"
  /\ flow' = [flow EXCEPT ![w] =
       [pc |-> "expire", action |-> a, verdict |-> verdict, now |-> clock]]
  /\ UNCHANGED <<up, historyVars, told, clock, budgetVars>>

Goto(w, label) == flow' = [flow EXCEPT ![w].pc = label]

Finish(w) == flow' = [flow EXCEPT ![w] = IdleFlow]

\* The reply reports the status of the record, if that is a verdict.
Reply(w, status) ==
  /\ Finish(w)
  /\ told' = [told EXCEPT ![flow[w].action] = @ \cup ({status} \cap Verdicts)]

StatusOf(w) == view.records[flow[w].action].status

\* history.pending(now)
ExpireFirst(w) ==
  /\ flow[w].pc = "expire"
  /\ \E es \in Expiries(flow[w].now) :
       \/ Commit(es) /\ Goto(w, "lookup") /\ UNCHANGED faults
       \/ CommitFails(es) /\ Finish(w)
  /\ UNCHANGED <<up, told, clock, crashes>>

\* history.get, and the replies that need no resolution.
Lookup(w) ==
  /\ flow[w].pc = "lookup"
  /\ IF StatusOf(w) = "pending" THEN Goto(w, "resolve") /\ UNCHANGED told
     ELSE Reply(w, StatusOf(w))
  /\ UNCHANGED <<up, historyVars, clock, budgetVars>>

\* What resolve_pending writes: what is due by now, and then the verdict,
\* unless _resolve refuses it.
ResolutionsOf(w) ==
  {IF CanResolve(ViewAfter(view, es), flow[w].action)
   THEN Append(es, Resolution(count + Len(es) + 1, flow[w].action,
                              flow[w].verdict, flow[w].now))
   ELSE es : es \in Expiries(flow[w].now)}

\* The last of them is the owner's verdict.
Resolves(w, es) == es # <<>> /\ es[Len(es)].status = flow[w].verdict

\* Mutation: the command believes the status it looked up.
ResolvePending_Blind(w) ==
  /\ flow[w].pc = "resolve"
  /\ \E es \in ResolutionsOf(w) : Write(es)
  /\ Reply(w, flow[w].verdict)
  /\ UNCHANGED <<up, clock, crashes>>

\* history.resolve_pending: ValueError leads to a second look, RuntimeError
\* leaves the command without a reply.
ResolvePending(w) ==
  /\ flow[w].pc = "resolve"
  /\ \E es \in ResolutionsOf(w) :
       \/ /\ Commit(es)
          /\ UNCHANGED faults
          /\ IF Resolves(w, es) THEN Reply(w, flow[w].verdict)
             ELSE Goto(w, "reread") /\ UNCHANGED told
       \/ CommitFails(es) /\ Finish(w) /\ UNCHANGED told
  /\ UNCHANGED <<up, clock, crashes>>

Reread(w) ==
  /\ flow[w].pc = "reread"
  /\ Reply(w, StatusOf(w))
  /\ UNCHANGED <<up, historyVars, clock, budgetVars>>

-----------------------------------------------------------------------------
(* The process *)

\* The process dies, possibly within a sweep or within a line.
Crash ==
  /\ up /\ crashes < MaxCrashes
  /\ up' = FALSE
  /\ crashes' = crashes + 1
  /\ \/ UNCHANGED <<file, faults>>
     \/ /\ \E w \in Workflows :
             /\ flow[w].pc \in {"expire", "resolve"}
             /\ \E es \in IF flow[w].pc = "expire" THEN Expiries(flow[w].now)
                          ELSE ResolutionsOf(w) :
                  \E i \in 1 .. Len(es) : file' = file \o SubSeq(es, 1, i)
        /\ UNCHANGED faults
     \/ /\ faults < MaxFaults /\ faults' = faults + 1
        /\ file' = Append(file, TornLine)
  /\ count' = 0 /\ view' = NoView
  /\ flow' = [w \in Workflows |-> IdleFlow]
  /\ UNCHANGED <<told, clock>>

\* A new process replays the file, or raises "decision history is unreadable".
Restart ==
  /\ ~up /\ Readable(file)
  /\ up' = TRUE
  /\ count' = Len(file)
  /\ view' = ViewAfter(NoView, file)
  /\ UNCHANGED <<file, flow, told, clock, budgetVars>>

Tick ==
  /\ clock < MaxTime
  /\ clock' = clock + 1
  /\ UNCHANGED <<up, historyVars, flow, told, budgetVars>>

-----------------------------------------------------------------------------
Init ==
  /\ up = TRUE
  /\ file = <<>> /\ count = 0 /\ view = NoView
  /\ flow = [w \in Workflows |-> IdleFlow]
  /\ told = [a \in Actions |-> {}]
  /\ clock = 0 /\ faults = 0 /\ crashes = 0

Step(w) == ExpireFirst(w) \/ Lookup(w) \/ ResolvePending(w) \/ Reread(w)

Next ==
  \/ \E d \in Decisions : RecordCycle(d)
  \/ \E a \in Measured : RecordOutcome(a)
  \/ ListPending
  \/ \E w \in Workflows, a \in Actions, v \in {"approved", "vetoed"} : Command(w, a, v)
  \/ \E w \in Workflows : Step(w)
  \/ Crash \/ Restart \/ Tick

Spec == Init /\ [][Next]_vars

\* Commands that have begun go on, the digest lists what is pending every day,
\* time passes and the supervisor restarts a dead process.
Fairness ==
  /\ \A w \in Workflows : WF_vars(Step(w))
  /\ WF_vars(ListPending) /\ WF_vars(Tick) /\ WF_vars(Restart)

FairSpec == Spec /\ Fairness

-----------------------------------------------------------------------------
(* Properties *)

\* Without I/O faults the file can always be replayed, also one a crash left
\* within a sweep, and the replay is what the process has in memory: nothing
\* approved, vetoed or expired is forgotten or undone by a restart.
HistoryReplays ==
  /\ Readable(file)
  /\ up => view = ViewAfter(NoView, file) /\ count = Len(file)

\* The replies about one action never contradict each other, whatever two
\* workflows, the deadline, failed writes and restarts do.
OneVerdict == \A a \in Actions : Cardinality(told[a]) <= 1

\* The file has a line that gives the action this verdict.
Resolved(f, a, v) ==
  \E i \in 1 .. Len(f) :
    f[i].kind = "pending_resolved" /\ f[i].subject = a /\ f[i].status = v

\* What a reply reports is in the file, and so survives the process.
AnnouncedIsDurable == \A a \in Actions : \A v \in told[a] : Resolved(file, a, v)

InTime(e) ==
  e.kind = "pending_resolved" =>
    (e.status = "expired" <=> ExpiresAt[e.subject] <= e.at)

\* The owner's verdicts are given strictly before the deadline, the deadline's
\* at or after it (expire_pending, before every resolution).
VerdictsInTime == \A i \in 1 .. Len(file) : InTime(file[i])

DurableStatus(a) == ViewAfter(NoView, file).records[a].status

\* Every pending action is decided in the end, by the deadline if by nobody.
PendingIsDecided ==
  \A a \in Actions : (DurableStatus(a) = "pending") ~> (DurableStatus(a) \in Verdicts)

Lifecycle == INSTANCE PendingActionLifecycle WITH
  status <- [a \in Actions |-> DurableStatus(a)]

\* The history implements PendingActionLifecycle, with the file as its state.
LifecycleSpec == Lifecycle!Spec

-----------------------------------------------------------------------------
(* The inductive invariants of the proofs (DecisionHistoryProofs) *)

Event ==
  [seq : Nat, kind : {"cycle_recorded"}, subject : Decisions, status : {"none"}, at : {0}]
    \cup [seq : Nat, kind : {"pending_resolved"}, subject : Actions,
          status : Verdicts, at : Nat]
    \cup [seq : Nat, kind : {"outcome_recorded"}, subject : Actions,
          status : {"none"}, at : {0}]
    \cup {TornLine}

View ==
  [ids : SUBSET Decisions,
   records : [Actions -> [status : {"absent", "none", "pending"} \cup Verdicts,
                          outcome : BOOLEAN]]]

Flow ==
  [pc : {"idle", "expire", "lookup", "resolve", "reread"},
   action : Actions \cup {NoAction}, verdict : {"approved", "vetoed"}, now : Nat]

\* The actions the history knows.
Known(v) == {a \in Actions : v.records[a].status # "absent"}

\* Types; only a process that runs executes commands, and however many actions
\* there may be, a history holds finitely many.
HistoryTyped ==
  /\ up \in BOOLEAN /\ file \in Seq(Event) /\ count \in Nat /\ view \in View
  /\ flow \in [Workflows -> Flow] /\ told \in [Actions -> SUBSET Verdicts]
  /\ clock \in Nat /\ faults \in Nat /\ crashes \in Nat
  /\ \A w \in Workflows : flow[w].pc # "idle" => up /\ flow[w].action \in Actions
  /\ IsFiniteSet(Known(view))

\* Whatever v decides, w decides in the same way.
AgreesWith(w, v) ==
  \A a \in Actions : v.records[a].status \in Verdicts =>
    w.records[a].status = v.records[a].status

\* The verdicts in memory are in the file, what was told is what is in memory,
\* and a file that can be loaded gives back both, though the two differ after
\* a write that failed.
VerdictInv ==
  /\ AnnouncedIsDurable
  /\ \A a \in Actions : \A u, v \in told[a] : u = v
  /\ up => \A a \in Actions :
       /\ view.records[a].status \in Verdicts => Resolved(file, a, view.records[a].status)
       /\ \A v \in told[a] : view.records[a].status = v
  /\ Readable(file) =>
       /\ up => AgreesWith(ViewAfter(NoView, file), view)
       /\ \A a \in Actions : \A v \in told[a] : DurableStatus(a) = v
=============================================================================
