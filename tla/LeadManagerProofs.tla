-------------------------- MODULE LeadManagerProofs --------------------------
(***************************************************************************)
(* For any limits, answers, responses and snapshots: a cycle of the Lead   *)
(* Manager keeps its budget, and what it puts to the owner is backed by    *)
(* every role and put up once.                                             *)
(***************************************************************************)
EXTENDS LeadManager, PendingActionPolicyProofs

\* A cycle keeps the two limits a call is checked against before it is made,
\* and knows at every position which roles it has heard, and how old its
\* snapshot was when it began.
Formed(c) ==
  /\ c \in Cycle
  /\ c.calls <= MaxTotalCalls /\ c.input <= MaxTotalInput
  /\ c.now <= MaxTime
  /\ c.pc \in {"encode", "call", "ready"} => c.now - c.read \in 0 .. MaxSnapshotAge
  /\ c.pc \in {"read", "encode", "call"} => c.heard = 1 .. c.role - 1
  /\ c.pc = "ready" => c.heard = 1 .. Len(Roles) /\ c.answer \in Answers

\* The limit an answer is checked against when it has arrived.
WithinOutput(c) == c.pc # "noAction" => c.output <= MaxTotalOutput

\* The strengthening of TypeOK, BudgetKept and ApprovalsAreBacked.
CycleInv ==
  /\ TypeOK
  /\ clock <= MaxTime
  /\ Formed(cycle) /\ WithinOutput(cycle)
  /\ cycle.pc = "read" => cycle.read <= clock
  /\ ApprovalsAreBacked

-----------------------------------------------------------------------------
LEMMA FiveRoles == Len(Roles) = 5
BY DEF Roles

\* The limits alone, for the steps that count.
LEMMA Limits ==
  /\ AttemptsPerRole \in Nat \ {0}
  /\ MaxTotalCalls \in Nat /\ MaxTotalInput \in Nat /\ MaxTotalOutput \in Nat
  /\ MaxOutput \in Nat /\ MaxSnapshotAge \in Nat
  /\ InputSize \in [1 .. Len(Roles) -> Nat]
BY LeadAssumption

LEMMA NormalizedSize ==
  ASSUME NEW response \in Responses, Analyze(response, MaxOutput) # Raised
  PROVE  Analyze(response, MaxOutput).size \in Nat
BY LeadAssumption DEF Analyze, Normalized, Raised

LEMMA TargetsBacked ==
  ASSUME NEW s \in Leagues, NEW acts \in Answers, NEW now \in Nat, now <= MaxTime,
         NEW result \in {Materialize(s, acts, now)} \cup {Refusal}
  PROVE  /\ result.targets \subseteq References
         /\ \A r \in result.targets : r.expires > now
<1>1. CASE result = Refusal
  BY <1>1 DEF Refusal
<1>2. CASE result = Materialize(s, acts, now)
  <2>1. s \in Snapshot /\ acts \in SUBSET Action /\ IsFiniteSet(acts)
    BY LeadAssumption
  <2>2. result.targets = {r \in Reference : MayAsk(s, acts, r, now)}
    BY <1>2, <2>1, PolicyIsExact
  <2>3. result.targets \subseteq References
    BY <1>2, LeadAssumption
  <2>4. \A r \in Reference : MayAsk(s, acts, r, now) => r.expires > now
    BY Zenon DEF MayAsk
  <2> QED BY <2>2, <2>3, <2>4
<1> QED BY <1>1, <1>2

LEMMA IdleIsFormed ==
  ASSUME Leagues # {}
  PROVE  Formed(Idle) /\ WithinOutput(Idle)
<1>1. Idle.snapshot \in Leagues
  BY DEF Idle
<1> QED BY <1>1, LeadAssumption, FiveRoles DEF Formed, WithinOutput, Idle, Cycle, Labels

LEMMA RetryKeeps ==
  ASSUME NEW c, Formed(c), WithinOutput(c), c.pc = "call"
  PROVE  Formed(Retry(c)) /\ WithinOutput(Retry(c))
<1>1. CASE c.attempt < AttemptsPerRole
  <2>1. c.attempt + 1 \in 1 .. AttemptsPerRole
    <3>1. c.attempt \in 1 .. AttemptsPerRole
      BY DEF Formed, Cycle
    <3>2. AttemptsPerRole \in Nat
      BY LeadAssumption
    <3> QED BY <1>1, <3>1, <3>2
  <2>2. Retry(c) = [c EXCEPT !.attempt = c.attempt + 1]
    BY <1>1 DEF Retry
  <2> QED BY <2>1, <2>2 DEF Formed, WithinOutput, Cycle
<1>2. CASE ~(c.attempt < AttemptsPerRole)
  <2>1. Retry(c) = [c EXCEPT !.pc = "noAction"]
    BY <1>2 DEF Retry
  <2> QED BY <2>1 DEF Formed, WithinOutput, Cycle, Labels
<1> QED BY <1>1, <1>2

LEMMA AcceptedKeeps ==
  ASSUME NEW c, Formed(c), WithinOutput(c), c.pc = "call", NEW answer \in Answers
  PROVE  Formed(Accepted(c, answer)) /\ WithinOutput(Accepted(c, answer))
<1>1. c.role \in 1 .. 5 /\ c.heard = 1 .. c.role - 1
  BY FiveRoles DEF Formed, Cycle
<1>2. c.heard \cup {c.role} = 1 .. c.role
  BY <1>1
<1>3. CASE c.role < 5
  <2>1. c.role + 1 \in 1 .. 5 /\ c.role = (c.role + 1) - 1
    BY <1>1, <1>3
  <2>2. Accepted(c, answer) = [c EXCEPT !.pc = "encode", !.role = c.role + 1,
                                        !.attempt = 1, !.heard = 1 .. c.role]
    BY <1>2, <1>3, FiveRoles DEF Accepted
  <2>3. 1 .. c.role \in SUBSET (1 .. 5) /\ 1 \in 1 .. AttemptsPerRole
    BY <1>1, LeadAssumption
  <2>4. Accepted(c, answer) \in Cycle
    <3>1. c \in Cycle /\ c.role + 1 \in 1 .. Len(Roles)
          /\ 1 .. c.role \in SUBSET (1 .. Len(Roles)) /\ "encode" \in Labels
      BY <2>1, <2>3, FiveRoles DEF Formed, Labels
    <3>2. ASSUME NEW d \in Cycle, NEW r \in 1 .. Len(Roles), NEW h \in SUBSET (1 .. Len(Roles))
          PROVE  [d EXCEPT !.pc = "encode", !.role = r, !.attempt = 1, !.heard = h] \in Cycle
      BY <2>3, <3>1 DEF Cycle
    <3>3. [c EXCEPT !.pc = "encode", !.role = c.role + 1,
                    !.attempt = 1, !.heard = 1 .. c.role] \in Cycle
      BY <3>1, <3>2, Zenon
    <3> QED BY <2>2, <3>3
  <2>5. LET d == Accepted(c, answer)
        IN  /\ d.pc = "encode" /\ d.heard = 1 .. d.role - 1
            /\ d.calls = c.calls /\ d.input = c.input /\ d.output = c.output
            /\ d.now = c.now /\ d.read = c.read
    BY <2>1, <2>2 DEF Formed, Cycle
  <2> QED BY <2>4, <2>5 DEF Formed, WithinOutput
<1>4. CASE c.role = 5
  <2>1. Accepted(c, answer) = [c EXCEPT !.pc = "ready", !.heard = 1 .. 5, !.answer = answer]
    <3>1. ~(c.role < Len(Roles)) /\ c.heard \cup {c.role} = 1 .. 5
      BY <1>2, <1>4, FiveRoles
    <3> QED BY <3>1 DEF Accepted
  <2>2. Accepted(c, answer) \in Cycle
    <3>1. c \in Cycle /\ 1 .. 5 \in SUBSET (1 .. Len(Roles)) /\ answer \in Answers \cup {{}}
      BY FiveRoles DEF Formed
    <3> QED BY <2>1, <3>1 DEF Cycle, Labels
  <2>3. LET d == Accepted(c, answer)
        IN  /\ d.pc = "ready" /\ d.heard = 1 .. Len(Roles) /\ d.answer \in Answers
            /\ d.calls = c.calls /\ d.input = c.input /\ d.output = c.output
            /\ d.now = c.now /\ d.read = c.read
    BY <2>1, FiveRoles DEF Formed, Cycle
  <2> QED BY <2>2, <2>3 DEF Formed, WithinOutput
<1> QED BY <1>1, <1>3, <1>4

LEMMA AnsweredKeeps ==
  ASSUME NEW c, Formed(c), c.pc = "call", NEW valid, NEW answer \in Answers
  PROVE  Formed(Answered(c, valid, answer)) /\ WithinOutput(Answered(c, valid, answer))
<1>1. CASE c.output > MaxTotalOutput
  BY <1>1 DEF Formed, WithinOutput, Answered, Cycle, Labels
<1>2. CASE ~(c.output > MaxTotalOutput)
  <2>1. WithinOutput(c)
    <3>1. c.output \in Nat /\ MaxTotalOutput \in Nat
      BY Limits DEF Formed, Cycle
    <3>2. c.output <= MaxTotalOutput
      BY <1>2, <3>1
    <3> QED BY <3>2 DEF WithinOutput
  <2> QED BY <1>2, <2>1, RetryKeeps, AcceptedKeeps DEF Answered
<1> QED BY <1>1, <1>2

LEMMA ReservedKeeps ==
  ASSUME Formed(cycle), WithinOutput(cycle), cycle.pc = "call", Reserves
  PROVE  Formed(Reserved) /\ WithinOutput(Reserved) /\ Reserved.pc = "call"
<1>1. InputSize[cycle.role] \in Nat /\ cycle.input \in Nat /\ cycle.calls \in Nat
  BY Limits DEF Formed, Cycle
<1> DEFINE size == InputSize[cycle.role]
<1> HIDE DEF size
<1>2. /\ cycle.calls + 1 \in Nat /\ cycle.input + size \in Nat
      /\ cycle.calls + 1 <= MaxTotalCalls /\ cycle.input + size <= MaxTotalInput
  BY <1>1, Limits DEF size, Reserves
<1>3. Reserved = [cycle EXCEPT !.calls = cycle.calls + 1, !.input = cycle.input + size]
  BY DEF Reserved, size
<1> QED BY <1>2, <1>3 DEF Formed, WithinOutput, Cycle

-----------------------------------------------------------------------------
LEMMA InitiallyInv == Init => CycleInv
<1> SUFFICES ASSUME Init PROVE CycleInv
  OBVIOUS
<1>1. Formed(Idle) /\ WithinOutput(Idle) /\ Idle \in Cycle /\ Idle.pc = "idle"
  BY IdleIsFormed DEF Init, Formed, Idle
<1>2. NoApproval \in Approval /\ NoApproval.status = "absent"
  BY DEF NoApproval, Approval, Statuses
<1>3. outcome \in Outcomes
  BY DEF Init, Outcome, Outcomes
<1>4. TypeOK
  BY <1>1, <1>2, <1>3 DEF TypeOK, Init
<1>5. ApprovalsAreBacked
  BY <1>2 DEF ApprovalsAreBacked, Init
<1> QED BY <1>1, <1>4, <1>5, LeadAssumption DEF CycleInv, Init

\* A step inside a cycle changes nothing but the cycle.
LEMMA CycleMoves ==
  ASSUME CycleInv, UNCHANGED <<worldVars, outcome, approvals, cycles, faults>>,
         Formed(cycle'), WithinOutput(cycle'), cycle'.pc # "read"
  PROVE  CycleInv'
<1>1. ApprovalsAreBacked'
  BY DEF CycleInv, ApprovalsAreBacked
<1>2. TypeOK'
  BY DEF CycleInv, TypeOK, worldVars, Formed
<1> QED BY <1>1, <1>2 DEF CycleInv, worldVars, Formed, WithinOutput

LEMMA FailClosedKeeps ==
  ASSUME Formed(cycle)
  PROVE  Formed(FailClosed) /\ WithinOutput(FailClosed) /\ FailClosed.pc # "read"
BY DEF Formed, WithinOutput, FailClosed, Cycle, Labels

LEMMA StartKeeps == CycleInv /\ Start => CycleInv'
<1> SUFFICES ASSUME CycleInv, Start PROVE CycleInv'
  OBVIOUS
<1>1. cycle \in Cycle /\ cycle.pc = "read" /\ cycle.read <= clock /\ clock \in Nat
  BY DEF CycleInv, Start, Formed, TypeOK
<1>2. CASE cycle' = [cycle EXCEPT !.now = clock, !.pc = "noAction"]
  <2>1. Formed(cycle') /\ WithinOutput(cycle') /\ cycle'.pc # "read"
    BY <1>1, <1>2 DEF CycleInv, Formed, WithinOutput, Cycle, Labels
  <2> QED BY <2>1, CycleMoves DEF Start
<1>3. CASE /\ cycle' = [cycle EXCEPT !.now = clock, !.pc = "encode"]
           /\ ~SnapshotProblem(cycle.snapshot, cycle.read, clock)
  <2>1. clock - cycle.read \in 0 .. MaxSnapshotAge
    <3>1. cycle.read \in Nat
      BY <1>1 DEF Cycle
    <3>2. clock - cycle.read <= MaxSnapshotAge
      BY <1>1, <1>3, <3>1, Limits DEF SnapshotProblem
    <3> QED BY <1>1, <3>1, <3>2, Limits
  <2>2. cycle' \in Cycle
    BY <1>1, <1>3 DEF Cycle, Labels
  <2>3. Formed(cycle') /\ WithinOutput(cycle') /\ cycle'.pc # "read"
    BY <1>1, <1>3, <2>1, <2>2 DEF CycleInv, Formed, WithinOutput, Cycle
  <2> QED BY <2>3, CycleMoves DEF Start
<1> QED BY <1>2, <1>3 DEF Start

LEMMA ReadKeeps == CycleInv /\ Read => CycleInv'
<1> SUFFICES ASSUME CycleInv, Read PROVE CycleInv'
  OBVIOUS
<1>1. league \in Leagues /\ clock \in Nat /\ Leagues # {}
  BY DEF CycleInv, TypeOK
<1>2. Formed(Idle) /\ WithinOutput(Idle)
  BY <1>1, IdleIsFormed
<1>3. Idle.heard = 1 .. Idle.role - 1 /\ Idle.pc = "idle"
  BY DEF Idle
<1>4. cycle' = [Idle EXCEPT !.pc = "read", !.snapshot = league, !.read = clock]
  BY DEF Read
<1>5. cycle' \in Cycle /\ cycle'.pc = "read" /\ cycle'.read = clock
  BY <1>1, <1>2, <1>4 DEF Formed, Cycle, Labels
<1>6. Formed(cycle') /\ WithinOutput(cycle')
  BY <1>2, <1>3, <1>4, <1>5 DEF Formed, WithinOutput, Cycle
<1>7. ApprovalsAreBacked' /\ TypeOK'
  BY <1>5 DEF CycleInv, ApprovalsAreBacked, TypeOK, Read, worldVars
<1> QED BY <1>1, <1>5, <1>6, <1>7 DEF CycleInv, Read, worldVars

LEMMA EncodeKeeps == CycleInv /\ Encode => CycleInv'
<1> SUFFICES ASSUME CycleInv, Encode PROVE CycleInv'
  OBVIOUS
<1>1. CASE cycle' = [cycle EXCEPT !.pc = "call"]
  <2>1. Formed(cycle') /\ WithinOutput(cycle') /\ cycle'.pc # "read"
    BY <1>1 DEF CycleInv, Encode, Formed, WithinOutput, Cycle, Labels
  <2> QED BY <2>1, CycleMoves DEF Encode
<1>2. CASE cycle' = FailClosed
  BY <1>2, FailClosedKeeps, CycleMoves DEF Encode, CycleInv
<1> QED BY <1>1, <1>2 DEF Encode

LEMMA BudgetExhaustedKeeps == CycleInv /\ BudgetExhausted => CycleInv'
BY FailClosedKeeps, CycleMoves DEF BudgetExhausted, CycleInv

LEMMA CallFailsKeeps == CycleInv /\ CallFails => CycleInv'
<1> SUFFICES ASSUME CycleInv, CallFails PROVE CycleInv'
  OBVIOUS
<1>1. Formed(Reserved) /\ WithinOutput(Reserved) /\ Reserved.pc = "call"
  BY ReservedKeeps DEF CallFails, CycleInv
<1>2. cycle' = Retry(Reserved)
  BY DEF CallFails
<1>3. Formed(cycle') /\ WithinOutput(cycle')
  BY <1>1, <1>2, RetryKeeps
<1>4. cycle'.pc # "read"
  BY <1>1, <1>2 DEF Retry, Formed, Cycle
<1> QED BY <1>3, <1>4, CycleMoves DEF CallFails

LEMMA CallReturnsKeeps == CycleInv /\ CallReturns => CycleInv'
<1> SUFFICES ASSUME CycleInv, CallReturns PROVE CycleInv'
  OBVIOUS
<1>1. Formed(Reserved) /\ Reserved.pc = "call"
  BY ReservedKeeps DEF CallReturns, CycleInv
<1>2. PICK response \in Responses, answer \in Answers :
        /\ Analyze(response, MaxOutput) # Raised
        /\ cycle' = Answered([Reserved EXCEPT !.output = @ + Analyze(response, MaxOutput).size],
                             Parses(Analyze(response, MaxOutput)), answer)
  BY Zenon DEF CallReturns
<1> DEFINE text == Analyze(response, MaxOutput)
           c == [Reserved EXCEPT !.output = @ + text.size]
<1>3. text.size \in Nat
  BY <1>2, NormalizedSize
<1>4. Formed(c) /\ c.pc = "call"
  <2> HIDE DEF text
  <2>1. Reserved \in Cycle /\ Reserved.output + text.size \in Nat
    BY <1>1, <1>3 DEF Formed, Cycle
  <2>2. c = [Reserved EXCEPT !.output = Reserved.output + text.size]
    OBVIOUS
  <2>3. c \in Cycle
    BY <2>1, <2>2 DEF Cycle
  <2> QED BY <1>1, <2>1, <2>2, <2>3 DEF Formed, Cycle
<1>5. cycle' = Answered(c, Parses(text), answer)
  BY <1>2
<1>6. Formed(cycle') /\ WithinOutput(cycle')
  <2> HIDE DEF c, text
  <2> QED BY <1>4, <1>5, AnsweredKeeps
<1>7. cycle'.pc # "read"
  <2> HIDE DEF c, text
  <2> QED BY <1>4, <1>5 DEF Answered, Accepted, Retry, Formed, Cycle
<1> QED BY <1>6, <1>7, CycleMoves DEF CallReturns

-----------------------------------------------------------------------------
\* The cycle is over and nothing was put up.
LEMMA EndKeeps ==
  ASSUME CycleInv, cycle' = Idle, UNCHANGED <<worldVars, approvals>>,
         outcome' \in Outcomes, cycles' \in Nat, faults' \in Nat
  PROVE  CycleInv'
<1>1. Formed(Idle) /\ WithinOutput(Idle) /\ Idle.pc = "idle" /\ Idle \in Cycle
  BY IdleIsFormed DEF CycleInv, TypeOK, Formed, Idle
<1>2. TypeOK'
  BY <1>1 DEF CycleInv, TypeOK, worldVars
<1> QED BY <1>1, <1>2 DEF CycleInv, worldVars, ApprovalsAreBacked

LEMMA RecordKeeps ==
  ASSUME CycleInv, cycle' = Idle, UNCHANGED <<worldVars, cycles>>,
         NEW status \in {"no_action", "recommendation_ready"},
         NEW reason \in {"failed_closed", "recorded"},
         NEW references \in SUBSET References, Record(status, reason, references),
         \A r \in references : cycle.pc = "ready" /\ r.expires > cycle.now
  PROVE  CycleInv'
<1> DEFINE new == [status |-> "pending", at |-> cycle.now, read |-> cycle.read,
                   heard |-> cycle.heard]
<1>1. Formed(Idle) /\ WithinOutput(Idle) /\ Idle.pc = "idle" /\ Idle \in Cycle
  BY IdleIsFormed DEF CycleInv, TypeOK, Formed, Idle
<1>2. outcome' \in Outcomes
  BY DEF Record, Outcome, Outcomes
<1>3. /\ new \in Approval
      /\ new.heard = cycle.heard /\ new.at = cycle.now /\ new.read = cycle.read
  BY DEF CycleInv, TypeOK, Cycle, Approval, Statuses
<1>4. approvals' = [r \in References |-> IF r \in references THEN new ELSE approvals[r]]
  BY DEF Record
<1>5. TypeOK'
  <2> HIDE DEF new
  <2> QED BY <1>1, <1>2, <1>3, <1>4 DEF CycleInv, TypeOK, worldVars, Record
<1>6. ApprovalsAreBacked'
  <2> HIDE DEF new
  <2> SUFFICES ASSUME NEW r \in References, approvals'[r].status # "absent"
               PROVE  /\ approvals'[r].heard = 1 .. Len(Roles)
                      /\ approvals'[r].at - approvals'[r].read \in 0 .. MaxSnapshotAge
                      /\ r.expires > approvals'[r].at
    BY DEF ApprovalsAreBacked
  <2>1. CASE r \in references
    BY <1>3, <1>4, <2>1 DEF CycleInv, Formed
  <2>2. CASE r \notin references
    BY <1>4, <2>2 DEF CycleInv, ApprovalsAreBacked
  <2> QED BY <2>1, <2>2
<1> QED BY <1>1, <1>5, <1>6 DEF CycleInv, worldVars

LEMMA UnsavedKeeps ==
  ASSUME CycleInv, cycle' = Idle, UNCHANGED <<worldVars, cycles>>, Unsaved
  PROVE  CycleInv'
<1>1. outcome' \in Outcomes /\ faults' \in Nat /\ cycles' \in Nat
  BY DEF Unsaved, Outcome, Outcomes, CycleInv, TypeOK
<1> QED BY <1>1, EndKeeps DEF Unsaved

LEMMA PersistNoActionKeeps == CycleInv /\ PersistNoAction => CycleInv'
<1> SUFFICES ASSUME CycleInv, PersistNoAction PROVE CycleInv'
  OBVIOUS
<1>1. CASE Record("no_action", "failed_closed", {})
  BY <1>1, RecordKeeps DEF PersistNoAction
<1>2. CASE Unsaved
  BY <1>2, UnsavedKeeps DEF PersistNoAction
<1> QED BY <1>1, <1>2 DEF PersistNoAction

LEMMA PersistReadyKeeps == CycleInv /\ PersistReady => CycleInv'
<1> SUFFICES ASSUME CycleInv, PersistReady PROVE CycleInv'
  OBVIOUS
<1>1. PICK result \in {Materialize(cycle.snapshot, cycle.answer, cycle.now)} \cup {Refusal} :
        \/ Reuse(result.targets)
        \/ Rejected
        \/ Record("recommendation_ready", "recorded", result.targets)
        \/ Unsaved
  BY DEF PersistReady
<1>2. /\ cycle.snapshot \in Leagues /\ cycle.answer \in Answers
      /\ cycle.now \in Nat /\ cycle.now <= MaxTime
  BY DEF PersistReady, CycleInv, Formed, Cycle
<1>3. result.targets \subseteq References /\ \A r \in result.targets : r.expires > cycle.now
  BY <1>2, TargetsBacked
<1>4. CASE Reuse(result.targets)
  <2>1. outcome' \in Outcomes /\ faults' \in Nat /\ cycles' \in Nat
    BY <1>3, <1>4 DEF PersistReady, Reuse, Outcome, Outcomes, CycleInv, TypeOK
  <2> QED BY <1>4, <2>1, EndKeeps DEF PersistReady, Reuse
<1>5. CASE Rejected
  <2>1. outcome' \in Outcomes /\ faults' \in Nat /\ cycles' \in Nat
    BY <1>5 DEF PersistReady, Rejected, Outcome, Outcomes, CycleInv, TypeOK
  <2> QED BY <1>5, <2>1, EndKeeps DEF PersistReady, Rejected
<1>6. CASE Record("recommendation_ready", "recorded", result.targets)
  BY <1>3, <1>6, RecordKeeps DEF PersistReady
<1>7. CASE Unsaved
  BY <1>7, UnsavedKeeps DEF PersistReady
<1> QED BY <1>1, <1>4, <1>5, <1>6, <1>7

\* A verdict or a deadline changes the status of a record that stays backed.
LEMMA ResolveKeeps ==
  ASSUME CycleInv, NEW r \in References, approvals[r].status = "pending",
         NEW to \in {"approved", "vetoed", "expired"}, Resolve(r, to)
  PROVE  CycleInv'
<1>1. \A x \in References :
        /\ approvals[x] \in Approval
        /\ approvals'[x] = IF x = r THEN [approvals[x] EXCEPT !.status = to] ELSE approvals[x]
  BY DEF Resolve, CycleInv, TypeOK
<1>2. \A x \in References :
        /\ approvals'[x] \in Approval
        /\ approvals'[x].heard = approvals[x].heard
        /\ approvals'[x].at = approvals[x].at /\ approvals'[x].read = approvals[x].read
        /\ approvals'[x].status = IF x = r THEN to ELSE approvals[x].status
  <2>1. \A a \in Approval :
          /\ [a EXCEPT !.status = to] \in Approval
          /\ [a EXCEPT !.status = to].heard = a.heard
          /\ [a EXCEPT !.status = to].at = a.at /\ [a EXCEPT !.status = to].read = a.read
          /\ [a EXCEPT !.status = to].status = to
    BY DEF Approval, Statuses
  <2> TAKE x \in References
  <2>2. CASE x = r
    <3>1. approvals[x] \in Approval /\ approvals'[x] = [approvals[x] EXCEPT !.status = to]
      BY <1>1, <2>2
    <3> QED BY <2>1, <2>2, <3>1
  <2>3. CASE x # r
    BY <1>1, <2>3
  <2> QED BY <2>2, <2>3
<1>3. ApprovalsAreBacked'
  <2>1. \A x \in References : approvals'[x].status # "absent" => approvals[x].status # "absent"
    BY <1>2
  <2> QED BY <1>2, <2>1 DEF CycleInv, ApprovalsAreBacked
<1>4. approvals' \in [References -> Approval]
  BY <1>2 DEF Resolve, CycleInv, TypeOK
<1>5. TypeOK'
  BY <1>4 DEF Resolve, CycleInv, TypeOK, worldVars
<1> QED BY <1>3, <1>5 DEF Resolve, CycleInv, worldVars

LEMMA TickKeeps == CycleInv /\ Tick => CycleInv'
<1> SUFFICES ASSUME CycleInv, Tick PROVE CycleInv'
  OBVIOUS
<1>1. clock' \in Nat /\ clock' <= MaxTime /\ clock <= clock'
  BY LeadAssumption DEF CycleInv, TypeOK, Tick
<1>2. cycle.pc = "read" => cycle.read <= clock'
  BY <1>1 DEF CycleInv, TypeOK, Cycle
<1>3. TypeOK' /\ ApprovalsAreBacked'
  BY <1>1 DEF CycleInv, TypeOK, Tick, ApprovalsAreBacked
<1> QED BY <1>1, <1>2, <1>3 DEF CycleInv, Tick

LEMMA NextKeeps == CycleInv /\ [Next]_vars => CycleInv'
<1> SUFFICES ASSUME CycleInv, [Next]_vars PROVE CycleInv'
  OBVIOUS
<1>1. CASE Read BY <1>1, ReadKeeps
<1>2. CASE CycleStep
  BY <1>2, StartKeeps, EncodeKeeps, BudgetExhaustedKeeps, CallFailsKeeps, CallReturnsKeeps,
     PersistNoActionKeeps, PersistReadyKeeps DEF CycleStep
<1>3. CASE \E r \in References : Expire(r) \/ \E v \in {"approved", "vetoed"} : Verdict(r, v)
  BY <1>3, ResolveKeeps DEF Expire, Verdict
<1>4. CASE Crash
  <2>1. faults' \in Nat /\ outcome' \in Outcomes /\ cycles' \in Nat
    BY <1>4 DEF Crash, CycleInv, TypeOK
  <2> QED BY <1>4, <2>1, EndKeeps DEF Crash
<1>5. CASE Tick BY <1>5, TickKeeps
<1>6. CASE UNCHANGED vars
  BY <1>6 DEF vars, worldVars, CycleInv, TypeOK, ApprovalsAreBacked
<1> QED BY <1>1, <1>2, <1>3, <1>4, <1>5, <1>6 DEF Next

\* What the theorems below follow from: whatever the port, the history and the
\* owner do, a cycle is within its limits and knows whom it has heard.
THEOREM CycleInvariant == Spec => []CycleInv
BY InitiallyInv, NextKeeps, PTL DEF Spec

\* Every variable of the Lead Manager keeps its type (run_cycle).
THEOREM LeadTypeCorrect == Spec => []TypeOK
<1>1. CycleInv => TypeOK BY DEF CycleInv
<1> QED BY <1>1, CycleInvariant, PTL

\* Retries and roles never overrun the budget of a cycle (_CallBudget), for any
\* limits, sizes and numbers of attempts.
THEOREM BudgetIsKept == Spec => []BudgetKept
<1>1. CycleInv => BudgetKept BY DEF CycleInv, Formed, WithinOutput, BudgetKept
<1> QED BY <1>1, CycleInvariant, PTL

\* Nothing is put to the owner without the five roles, a fresh snapshot and time
\* to decide (run_cycle and the policy).
THEOREM OnlyBackedApprovals == Spec => []ApprovalsAreBacked
<1>1. CycleInv => ApprovalsAreBacked BY DEF CycleInv
<1> QED BY <1>1, CycleInvariant, PTL

-----------------------------------------------------------------------------
LEMMA RecordMoves ==
  ASSUME NEW status, NEW reason, NEW references, Record(status, reason, references),
         \A r \in references : approvals[r].status = "absent", NEW r \in References
  PROVE  Lifecycle!Move(approvals[r].status, approvals'[r].status)
BY DEF Record, Lifecycle!Move

LEMMA StatusMoves ==
  ASSUME CycleInv, [Next]_vars, NEW r \in References
  PROVE  Lifecycle!Move(approvals[r].status, approvals'[r].status)
<1>1. CASE UNCHANGED approvals
  BY <1>1 DEF Lifecycle!Move
<1>2. CASE PersistNoAction
  <2>1. CASE Record("no_action", "failed_closed", {})
    BY <2>1, RecordMoves
  <2> QED BY <1>1, <1>2, <2>1 DEF PersistNoAction, Unsaved
<1>3. CASE PersistReady
  <2>1. PICK result \in {Materialize(cycle.snapshot, cycle.answer, cycle.now)} \cup {Refusal} :
          \/ UNCHANGED approvals
          \/ /\ OnFile(result.targets) = {}
             /\ Record("recommendation_ready", "recorded", result.targets)
    BY <1>3 DEF PersistReady, Reuse, Rejected, Unsaved
  <2>2. CASE OnFile(result.targets) = {}
             /\ Record("recommendation_ready", "recorded", result.targets)
    <3>1. \A x \in result.targets : approvals[x].status = "absent"
      BY <2>2 DEF OnFile
    <3> QED BY <2>2, <3>1, RecordMoves
  <2> QED BY <1>1, <2>1, <2>2
<1>4. ASSUME NEW x \in References, approvals[x].status = "pending",
             NEW to \in {"approved", "vetoed", "expired"}, Resolve(x, to)
      PROVE  Lifecycle!Move(approvals[r].status, approvals'[r].status)
  <2>1. approvals'[r] = IF r = x THEN [approvals[r] EXCEPT !.status = to] ELSE approvals[r]
    BY <1>4 DEF Resolve, CycleInv, TypeOK
  <2>2. approvals[r] \in Approval
    BY DEF CycleInv, TypeOK
  <2>3. approvals'[r].status = IF r = x THEN to ELSE approvals[r].status
    BY <2>1, <2>2 DEF Approval
  <2> QED BY <1>4, <2>3 DEF Lifecycle!Move, Lifecycle!Verdicts
<1>5. CASE \E x \in References : Expire(x) \/ \E v \in {"approved", "vetoed"} : Verdict(x, v)
  BY <1>4, <1>5 DEF Expire, Verdict
<1> QED BY <1>1, <1>2, <1>3, <1>5
        DEF Next, CycleStep, Read, Start, Encode, BudgetExhausted, CallFails, CallReturns,
            Crash, Tick, vars

\* However cycles are repeated, fail or are cut, an approval is put up once and
\* decided once (_persist, record_cycle).
THEOREM ApprovalsFollowLifecycle == Spec => LifecycleSpec
<1>1. Init => Lifecycle!Init
  BY DEF Init, NoApproval, Lifecycle!Init
<1>2. CycleInv /\ CycleInv' /\ [Next]_vars => [Lifecycle!Next]_Lifecycle!vars
  <2> SUFFICES ASSUME CycleInv, CycleInv', [Next]_vars PROVE Lifecycle!Next
    OBVIOUS
  <2>1. \A r \in References :
          /\ approvals'[r].status \in Statuses
          /\ Lifecycle!Move(approvals[r].status, approvals'[r].status)
    BY StatusMoves DEF CycleInv, TypeOK, Approval
  <2> QED BY <2>1 DEF Lifecycle!Next, Lifecycle!Decide, Lifecycle!Verdicts, Statuses
<1> QED BY <1>1, <1>2, CycleInvariant, PTL DEF Spec, LifecycleSpec, Lifecycle!Spec

-----------------------------------------------------------------------------
\* A cycle whose lead answered is reported as a recommendation unless the
\* history could not be written, also if its approval is on file (_persist):
\* what record_cycle would refuse has been looked up before.
THEOREM AnsweredAreReady == Spec => AnsweredIsReady
<1> DEFINE Ready == cycle.pc = "ready" /\ cycle'.pc = "idle" /\ faults' = faults
                    => outcome'.status = "recommendation_ready"
<1>1. CycleInv /\ [Next]_vars => [Ready]_vars
  <2> SUFFICES ASSUME CycleInv, Next, cycle.pc = "ready", cycle'.pc = "idle", faults' = faults
               PROVE  outcome'.status = "recommendation_ready"
    OBVIOUS
  <2>1. faults \in Nat /\ faults' # faults + 1
    BY DEF CycleInv, TypeOK
  <2>2. CASE PersistReady
    <3>1. PICK result \in {Materialize(cycle.snapshot, cycle.answer, cycle.now)} \cup {Refusal} :
            IF OnFile(result.targets) # {} THEN Reuse(result.targets)
            ELSE IF \E r \in result.targets : approvals[r].status # "absent" THEN Rejected
            ELSE Record("recommendation_ready", "recorded", result.targets) \/ Unsaved
      BY <2>2 DEF PersistReady
    <3>2. ~Unsaved
      BY <2>1 DEF Unsaved
    <3>3. CASE Reuse(result.targets)
      BY <3>3 DEF Reuse, Outcome
    <3>4. CASE Record("recommendation_ready", "recorded", result.targets)
      BY <3>4 DEF Record, Outcome
    <3> QED BY <3>1, <3>2, <3>3, <3>4 DEF OnFile
  <2>3. CASE Crash
    BY <2>1, <2>3 DEF Crash
  <2>4. CASE UNCHANGED cycle
    BY <2>4
  <2> QED
    BY <2>2, <2>3, <2>4
       DEF Next, CycleStep, Read, Start, Encode, BudgetExhausted, CallFails, CallReturns,
           PersistNoAction, Expire, Verdict, Resolve, Tick
<1> QED BY <1>1, CycleInvariant, PTL DEF Spec, AnsweredIsReady

-----------------------------------------------------------------------------
\* No answer counts that is longer than one call may give, whatever the port
\* makes of its length (_call_with_retries).
THEOREM AnswersFit == Spec => HeardAnswersFit
<1> DEFINE Fits == ~(cycle'.heard \subseteq cycle.heard)
                   => cycle'.output - cycle.output <= MaxOutput
<1>1. CycleInv /\ [Next]_vars => [Fits]_vars
  <2> SUFFICES ASSUME CycleInv, Next, ~(cycle'.heard \subseteq cycle.heard)
               PROVE  cycle'.output - cycle.output <= MaxOutput
    OBVIOUS
  <2>1. cycle \in Cycle
    BY DEF CycleInv, TypeOK
  <2>2. CASE CallReturns
    <3>1. PICK response \in Responses, answer \in Answers :
            /\ Analyze(response, MaxOutput) # Raised
            /\ cycle' = Answered([Reserved EXCEPT !.output = @ + Analyze(response, MaxOutput).size],
                                 Parses(Analyze(response, MaxOutput)), answer)
      BY <2>2, Zenon DEF CallReturns
    <3> DEFINE text == Analyze(response, MaxOutput)
               c == [Reserved EXCEPT !.output = @ + text.size]
    <3>2. text.size \in Nat
      BY <3>1, NormalizedSize
    <3> HIDE DEF text
    <3>3. c.heard = cycle.heard /\ c.output = cycle.output + text.size
      BY <2>1 DEF Reserved, Cycle
    <3>4. cycle' = Answered(c, Parses(text), answer)
      BY <3>1 DEF text
    <3>5. c \in Cycle
      <4>1. ASSUME NEW d \in Cycle, NEW n \in Nat, NEW i \in Nat, NEW o \in Nat
            PROVE  [d EXCEPT !.calls = n, !.input = i, !.output = o] \in Cycle
        BY DEF Cycle
      <4>2. /\ cycle.calls + 1 \in Nat /\ cycle.input + InputSize[cycle.role] \in Nat
            /\ cycle.output + text.size \in Nat
        <5>1. /\ cycle.calls \in Nat /\ cycle.input \in Nat /\ cycle.output \in Nat
              /\ cycle.role \in 1 .. Len(Roles)
          BY <2>1 DEF Cycle
        <5>2. InputSize[cycle.role] \in Nat
          BY <5>1, Limits
        <5>3. ASSUME NEW a \in Nat, NEW b \in Nat PROVE a + b \in Nat
          OBVIOUS
        <5> HIDE DEF c
        <5> QED BY <3>2, <5>1, <5>2, <5>3
      <4>3. c = [cycle EXCEPT !.calls = cycle.calls + 1,
                              !.input = cycle.input + InputSize[cycle.role],
                              !.output = cycle.output + text.size]
        BY <2>1 DEF Reserved, Cycle
      <4> HIDE DEF c
      <4> QED BY <2>1, <4>1, <4>2, <4>3, Zenon
    <3> HIDE DEF c
    <3>6. Parses(text) /\ cycle' = Accepted(c, answer)
      BY <3>3, <3>4, <3>5 DEF Answered, Retry, Cycle
    <3>7. cycle'.output = c.output
      BY <3>5, <3>6 DEF Accepted, Cycle
    <3>8. cycle.output \in Nat /\ text.size <= MaxOutput
      BY <2>1, <3>6 DEF Parses, Cycle
    <3> QED BY <3>2, <3>3, <3>7, <3>8, Limits
  <2>3. CASE cycle'.heard = cycle.heard
    BY <2>3
  <2>4. CASE cycle' = Idle \/ Read
    <3>1. cycle' = Idle => cycle'.heard = {}
      BY DEF Idle
    <3>2. Read => cycle'.heard = {}
      BY DEF Read, Idle
    <3> QED BY <2>4, <3>1, <3>2
  <2>5. CASE Start \/ Encode \/ BudgetExhausted \/ CallFails
    BY <2>1, <2>3, <2>5
       DEF Start, Encode, BudgetExhausted, FailClosed, CallFails, Retry, Reserved, Cycle
  <2> QED
    BY <2>2, <2>3, <2>4, <2>5
       DEF Next, CycleStep, PersistNoAction, PersistReady, Expire, Verdict, Resolve, Crash, Tick
<1> QED BY <1>1, CycleInvariant, PTL DEF Spec, HeardAnswersFit

-----------------------------------------------------------------------------
(* Lineups and the games they are for *)

FixedKickoffs == \A s, t \in Leagues : s.kickoffs = t.kickoffs

\* A lineup change on record is for players with one game each, and its
\* deadline is in time for all of these.
GamesInv ==
  \A r \in References :
    approvals[r].status # "absent" /\ r.kind \in LineupKinds =>
      /\ r.expires \in Int
      /\ \A p \in r.players : /\ Len(league.kickoffs[p]) = 1
                              /\ league.kickoffs[p][1] \in Int
                              /\ InTimeFor(r, league.kickoffs[p][1])

LEMMA TargetsInTime ==
  ASSUME NEW s \in Leagues, NEW acts \in Answers, NEW now \in Nat,
         NEW r \in Materialize(s, acts, now).targets, r.kind \in LineupKinds
  PROVE  /\ r.expires \in Int
         /\ \A p \in r.players : /\ Len(s.kickoffs[p]) = 1
                                 /\ s.kickoffs[p][1] \in Int
                                 /\ InTimeFor(r, s.kickoffs[p][1])
<1>1. s \in Snapshot /\ acts \in SUBSET Action /\ IsFiniteSet(acts)
  BY LeadAssumption
<1>2. r \in Reference /\ MayAsk(s, acts, r, now)
  BY <1>1, PolicyIsExact
<1>3. \A p \in r.players : Len(s.kickoffs[p]) = 1 /\ InTimeFor(r, s.kickoffs[p][1])
  BY <1>2 DEF MayAsk
<1>4. ASSUME NEW p \in r.players PROVE s.kickoffs[p][1] \in Int
  <2>1. s.kickoffs[p] \in Seq(Nat)
    BY <1>1, <1>2 DEF Reference, Snapshot
  <2> QED BY <1>3, <2>1
<1> QED BY <1>2, <1>3, <1>4 DEF Reference

LEMMA RecordInTime ==
  ASSUME FixedKickoffs, CycleInv, GamesInv, league' = league, cycle.pc = "ready",
         Record("recommendation_ready", "recorded",
                Materialize(cycle.snapshot, cycle.answer, cycle.now).targets)
  PROVE  GamesInv'
<1> DEFINE targets == Materialize(cycle.snapshot, cycle.answer, cycle.now).targets
<1>1. cycle.snapshot \in Leagues /\ cycle.answer \in Answers /\ cycle.now \in Nat
  BY DEF CycleInv, Formed, Cycle
<1>2. cycle.snapshot.kickoffs = league.kickoffs
  BY <1>1 DEF FixedKickoffs, CycleInv, TypeOK
<1>3. ASSUME NEW r \in targets, r.kind \in LineupKinds
      PROVE  /\ r.expires \in Int
             /\ \A p \in r.players : /\ Len(league.kickoffs[p]) = 1
                                     /\ league.kickoffs[p][1] \in Int
                                     /\ InTimeFor(r, league.kickoffs[p][1])
  BY <1>1, <1>2, <1>3, TargetsInTime
<1>4. \A r \in References :
        approvals'[r].status # "absent" => r \in targets \/ approvals[r].status # "absent"
  BY DEF Record
<1> HIDE DEF targets
<1> QED BY <1>3, <1>4 DEF GamesInv

LEMMA NextGamesInv ==
  ASSUME FixedKickoffs, CycleInv, GamesInv, [Next]_vars
  PROVE  GamesInv'
<1>1. CASE UNCHANGED <<league, approvals>>
  BY <1>1 DEF GamesInv
<1>2. CASE PersistNoAction
  <2>1. CASE Record("no_action", "failed_closed", {})
    <3>1. \A r \in References : approvals'[r] = approvals[r]
      BY <2>1 DEF Record
    <3> QED BY <1>2, <3>1 DEF PersistNoAction, worldVars, GamesInv
  <2> QED BY <1>1, <1>2, <2>1 DEF PersistNoAction, Unsaved, worldVars
<1>3. CASE PersistReady
  <2>1. CASE UNCHANGED approvals
    BY <1>1, <1>3, <2>1 DEF PersistReady, worldVars
  <2>2. CASE Record("recommendation_ready", "recorded",
                    Materialize(cycle.snapshot, cycle.answer, cycle.now).targets)
    BY <1>3, <2>2, RecordInTime DEF PersistReady, worldVars
  <2>3. CASE Record("recommendation_ready", "recorded", Refusal.targets)
    <3>1. \A r \in References : approvals'[r] = approvals[r]
      BY <2>3 DEF Record, Refusal
    <3> QED BY <1>3, <3>1 DEF PersistReady, worldVars, GamesInv
  <2> QED BY <1>3, <2>1, <2>2, <2>3 DEF PersistReady, Reuse, Rejected, Unsaved
<1>4. ASSUME NEW x \in References, approvals[x].status = "pending", NEW to, Resolve(x, to)
      PROVE  GamesInv'
  <2>1. \A r \in References :
          approvals'[r].status # "absent" => approvals[r].status # "absent"
    BY <1>4 DEF Resolve, CycleInv, TypeOK
  <2> QED BY <1>4, <2>1 DEF Resolve, worldVars, GamesInv
<1>5. CASE \E x \in References : Expire(x) \/ \E v \in {"approved", "vetoed"} : Verdict(x, v)
  BY <1>4, <1>5 DEF Expire, Verdict
<1>6. CASE Tick
  <2>1. league'.kickoffs = league.kickoffs /\ UNCHANGED approvals
    BY <1>6 DEF Tick, FixedKickoffs, CycleInv, TypeOK
  <2> QED BY <2>1 DEF GamesInv
<1> QED BY <1>1, <1>2, <1>3, <1>5, <1>6
        DEF Next, CycleStep, Read, Start, Encode, BudgetExhausted, CallFails, CallReturns,
            Crash, vars, worldVars

\* As long as ESPN does not move a game, no lineup is approved later than 15
\* minutes before the game of any player it affects, for all answers, snapshots
\* and clocks (_lineup_action, and the sweep before a verdict).
THEOREM ApprovalsPrecedeGames == ASSUME FixedKickoffs PROVE Spec => ApprovedBeforeGames
<1> DEFINE InTime ==
      \A r \in References :
        (approvals[r].status = "pending" /\ approvals'[r].status = "approved"
           /\ r.kind \in LineupKinds)
        => \A p \in r.players : \A i \in 1 .. Len(league.kickoffs[p]) :
             clock + SafetyWindow < league.kickoffs[p][i]
<1>1. Init => GamesInv
  BY DEF Init, NoApproval, GamesInv
<1>2. CycleInv /\ GamesInv /\ [Next]_vars => GamesInv'
  BY NextGamesInv
<1>3. CycleInv /\ GamesInv /\ [Next]_vars => [InTime]_vars
  <2> SUFFICES ASSUME CycleInv, GamesInv, Next, NEW r \in References,
                      approvals[r].status = "pending", approvals'[r].status = "approved",
                      r.kind \in LineupKinds,
                      NEW p \in r.players, NEW i \in 1 .. Len(league.kickoffs[p])
               PROVE  clock + SafetyWindow < league.kickoffs[p][i]
    OBVIOUS
  <2>1. /\ i = 1 /\ league.kickoffs[p][1] \in Int /\ r.expires \in Int
        /\ r.expires + SafetyWindow <= league.kickoffs[p][1]
    <3>1. approvals[r].status # "absent"
      OBVIOUS
    <3>2. /\ r.expires \in Int /\ Len(league.kickoffs[p]) = 1
          /\ league.kickoffs[p][1] \in Int /\ InTimeFor(r, league.kickoffs[p][1])
      BY <3>1 DEF GamesInv
    <3>3. i = 1
      BY <3>2
    <3> QED BY <3>2, <3>3 DEF InTimeFor
  <2>2. clock < r.expires
    <3>1. ASSUME NEW x \in References, NEW to, Resolve(x, to), x # r PROVE FALSE
      BY <3>1 DEF Resolve, CycleInv, TypeOK
    <3>2. ASSUME NEW status, NEW reason, NEW references, Record(status, reason, references)
          PROVE  FALSE
      BY <3>2 DEF Record
    <3>3. PICK x \in References : Expire(x) \/ \E v \in {"approved", "vetoed"} : Verdict(x, v)
      BY <3>2 DEF Next, CycleStep, Read, Start, Encode, BudgetExhausted, CallFails, CallReturns,
                  PersistNoAction, PersistReady, Reuse, Rejected, Unsaved, Crash, Tick
    <3>4. x = r
      BY <3>1, <3>3 DEF Expire, Verdict
    <3>5. ~Expire(r)
      <4>1. approvals[r] \in Approval
        BY DEF CycleInv, TypeOK
      <4>2. Expire(r) => approvals'[r].status = "expired"
        BY <4>1 DEF Expire, Resolve, CycleInv, TypeOK, Approval
      <4> QED BY <4>2
    <3> QED BY <3>3, <3>4, <3>5 DEF Verdict
  <2>3. clock \in Int
    BY DEF CycleInv, TypeOK
  <2> QED BY <2>1, <2>2, <2>3, PolicyAssumption
<1> QED BY <1>1, <1>2, <1>3, CycleInvariant, PTL DEF Spec, ApprovedBeforeGames
=============================================================================
