------------------------- MODULE WeeklyReportProofs -------------------------
(***************************************************************************)
(* Proofs about the file of the weekly report: for any number of runs of   *)
(* the tool, errors and kills, an announced report stays as it is, and no  *)
(* single error leaves a file that nobody announced.                       *)
(***************************************************************************)
EXTENDS WeeklyReport, TLAPS

Writing(t) == tool[t] \in {"fill", "sync", "cleanup"}

\* O_EXCL lets one tool write at a time, and none after a report has been
\* announced.
ReportInv ==
  /\ tool \in [Tools -> {"start", "create", "fill", "sync", "cleanup", "done"}]
  /\ material \in [Tools -> Views]
  /\ answer \in [Tools -> {"none", "written", "exists", "invalid", "failed"}]
  /\ report \in Reports \cup {NoReport}
  /\ kills \in Nat /\ toolFaults \in Nat
  /\ \A t \in Tools : tool[t] = "cleanup" => toolFaults > 0
  /\ \A t \in Tools : Writing(t) =>
       /\ report # NoReport
       /\ \A u \in Tools : answer[u] # "written" /\ (Writing(u) => u = t)
  /\ \A t \in Tools : tool[t] = "sync" => report = [view |-> material[t], whole |-> TRUE]
  /\ \A t \in Tools : answer[t] = "written" => tool[t] = "done"
  /\ AnnouncedIsKept /\ LeftoverHasCause

\* No report has been announced while one can still be created or changed.
LEMMA StepKeepsReport ==
  ASSUME ReportInv, ReportNext
  PROVE  ReportInv'
<1>1. /\ tool \in [Tools -> {"start", "create", "fill", "sync", "cleanup", "done"}]
      /\ material \in [Tools -> Views]
      /\ answer \in [Tools -> {"none", "written", "exists", "invalid", "failed"}]
      /\ report \in Reports \cup {NoReport} /\ kills \in Nat /\ toolFaults \in Nat
  BY DEF ReportInv
<1>2. /\ \A t \in Tools : Writing(t) =>
           /\ report # NoReport
           /\ \A u \in Tools : answer[u] # "written" /\ (Writing(u) => u = t)
      /\ \A t \in Tools : tool[t] = "sync" => report = [view |-> material[t], whole |-> TRUE]
      /\ \A t \in Tools : answer[t] = "written" =>
           tool[t] = "done" /\ report = [view |-> material[t], whole |-> TRUE]
      /\ \A t \in Tools : tool[t] = "cleanup" => toolFaults > 0
      /\ report # NoReport /\ (\A t \in Tools : answer[t] # "written")
         => kills > 0 \/ toolFaults > 1 \/ \E t \in Tools : Writing(t)
  BY DEF ReportInv, AnnouncedIsKept, LeftoverHasCause, Working, Writing
<1>3. ASSUME NEW v \in Views, NEW w \in BOOLEAN
      PROVE  [view |-> v, whole |-> w] \in Reports /\ [view |-> v, whole |-> w] # NoReport
             /\ [view |-> v, whole |-> w].whole = w
  BY ReportAssumption DEF Reports
<1>4. Empty \in Views
  BY DEF Empty, Views
<1>. USE DEF Writing
<1>5. ASSUME NEW t \in Tools, Build(t)
      PROVE  ReportInv'
  <2>1. \A S \in SUBSET Recorded : View(S) \in Views
    BY DEF View, Views, Recorded
  <2>2. /\ tool[t] = "start" /\ UNCHANGED <<report, kills, toolFaults>>
        /\ \/ /\ \E v \in Views : material' = [material EXCEPT ![t] = v]
              /\ tool' = [tool EXCEPT ![t] = "create"] /\ UNCHANGED answer
           \/ /\ tool' = [tool EXCEPT ![t] = "done"] /\ UNCHANGED material
              /\ answer' = [answer EXCEPT ![t] = "invalid"]
    BY <1>5, <2>1 DEF Build, Goto, Finish
  <2>. QED
    BY <1>1, <1>2, <2>2 DEF ReportInv, AnnouncedIsKept, LeftoverHasCause, Working
<1>6. ASSUME NEW t \in Tools, CreateReport(t)
      PROVE  ReportInv'
  <2>1. tool[t] = "create" /\ UNCHANGED <<material, kills, toolFaults>>
    BY <1>6 DEF CreateReport
  <2>2. CASE report = NoReport
    <3>1. /\ report' = [view |-> Empty, whole |-> FALSE] /\ UNCHANGED answer
          /\ tool' = [tool EXCEPT ![t] = "fill"]
      BY <1>6, <2>2 DEF CreateReport, Goto
    <3>2. \A u \in Tools : answer[u] # "written" /\ ~Writing(u)
      BY <1>2, <1>3, <1>1, <2>2
    <3>3. report' \in Reports /\ report' # NoReport
      BY <1>3, <1>4, <3>1
    <3>4. \A u \in Tools : tool'[u] = IF u = t THEN "fill" ELSE tool[u]
      BY <1>1, <3>1
    <3>5. \A u \in Tools : Writing(u)' <=> u = t
      BY <3>2, <3>4
    <3>6. \A u \in Tools : answer'[u] # "written" /\ tool'[u] \notin {"sync", "cleanup"}
      BY <3>1, <3>2, <3>4
    <3>7. AnnouncedIsKept' /\ LeftoverHasCause'
      BY <3>5, <3>6 DEF AnnouncedIsKept, LeftoverHasCause, Working
    <3>. QED
      BY <1>1, <2>1, <3>1, <3>3, <3>5, <3>6, <3>7 DEF ReportInv
  <2>3. CASE report # NoReport
    <3>1. /\ UNCHANGED report /\ tool' = [tool EXCEPT ![t] = "done"]
          /\ answer' = [answer EXCEPT ![t] = "exists"]
      BY <1>6, <2>3 DEF CreateReport, Goto, Finish
    <3>. QED
      BY <1>1, <1>2, <2>1, <3>1 DEF ReportInv, AnnouncedIsKept, LeftoverHasCause, Working
  <2>. QED
    BY <2>2, <2>3
<1>7. ASSUME NEW t \in Tools, FillReport(t)
      PROVE  ReportInv'
  <2>1. /\ tool[t] = "fill" /\ report' = [view |-> material[t], whole |-> TRUE]
        /\ tool' = [tool EXCEPT ![t] = "sync"] /\ UNCHANGED <<material, answer, kills, toolFaults>>
    BY <1>7 DEF FillReport, Goto
  <2>2. material[t] \in Views
    BY <1>1
  <2>3. report' \in Reports /\ report' # NoReport /\ report'.whole
    BY <1>3, <2>1, <2>2
  <2>4. \A u \in Tools : answer[u] # "written" /\ (Writing(u) => u = t)
    BY <1>2, <2>1
  <2>5. \A u \in Tools : tool'[u] = IF u = t THEN "sync" ELSE tool[u]
    BY <1>1, <2>1
  <2>6. \A u \in Tools : answer'[u] # "written" /\ (Writing(u)' <=> u = t)
    BY <2>1, <2>4, <2>5
  <2>7. \A u \in Tools : tool'[u] = "sync" => report' = [view |-> material'[u], whole |-> TRUE]
    BY <2>1, <2>4, <2>5
  <2>8. AnnouncedIsKept' /\ LeftoverHasCause'
    BY <2>3, <2>6 DEF AnnouncedIsKept, LeftoverHasCause, Working
  <2>9. \A u \in Tools : tool'[u] = "cleanup" => toolFaults' > 0
    BY <1>2, <2>1, <2>5
  <2>. QED
    BY <1>1, <2>1, <2>3, <2>6, <2>7, <2>8, <2>9 DEF ReportInv
<1>8. ASSUME NEW t \in Tools, SyncReport(t)
      PROVE  ReportInv'
  <2>1. /\ tool[t] = "sync" /\ answer' = [answer EXCEPT ![t] = "written"]
        /\ tool' = [tool EXCEPT ![t] = "done"] /\ UNCHANGED <<report, material, kills, toolFaults>>
    BY <1>8 DEF SyncReport, Goto, Finish
  <2>. QED
    BY <1>1, <1>2, <1>3, <2>1 DEF ReportInv, AnnouncedIsKept, LeftoverHasCause, Working
<1>9. ASSUME NEW t \in Tools, Fails(t)
      PROVE  ReportInv'
  <2>1. UNCHANGED <<report, material, kills>> /\ toolFaults' = toolFaults + 1
    BY <1>9 DEF Fails
  <2>2. CASE tool[t] \in {"fill", "sync"}
    <3>1. tool' = [tool EXCEPT ![t] = "cleanup"] /\ UNCHANGED answer
      BY <1>9, <2>2 DEF Fails, Goto
    <3>. QED
      BY <1>1, <1>2, <2>1, <2>2, <3>1 DEF ReportInv, AnnouncedIsKept, LeftoverHasCause, Working
  <2>3. CASE tool[t] \in {"create", "cleanup"}
    <3>1. /\ tool' = [tool EXCEPT ![t] = "done"]
          /\ answer' = [answer EXCEPT ![t] = "failed"]
      BY <1>9, <2>3 DEF Fails, Goto, Finish
    <3>. QED
      BY <1>1, <1>2, <2>1, <2>3, <3>1 DEF ReportInv, AnnouncedIsKept, LeftoverHasCause, Working
  <2>. QED
    BY <1>9, <2>2, <2>3 DEF Fails
<1>10. ASSUME NEW t \in Tools, RemovePart(t)
       PROVE  ReportInv'
  <2>1. /\ tool[t] = "cleanup" /\ answer' = [answer EXCEPT ![t] = "failed"]
        /\ report' = NoReport
        /\ tool' = [tool EXCEPT ![t] = "done"] /\ UNCHANGED <<material, kills, toolFaults>>
    BY <1>10 DEF RemovePart, Goto, Finish
  <2>. QED
    BY <1>1, <1>2, <2>1 DEF ReportInv, AnnouncedIsKept, LeftoverHasCause, Working
<1>11. ASSUME NEW t \in Tools, KillTool(t)
       PROVE  ReportInv'
  <2>1. /\ tool' = [tool EXCEPT ![t] = "done"] /\ kills' = kills + 1
        /\ UNCHANGED <<report, material, answer, toolFaults>>
    BY <1>11 DEF KillTool, Goto
  <2>. QED
    BY <1>1, <1>2, <2>1 DEF ReportInv, AnnouncedIsKept, LeftoverHasCause, Working
<1>12. ASSUME NEW d \in Decisions, Learn(d)
       PROVE  ReportInv'
  BY <1>12 DEF Learn, ReportInv, AnnouncedIsKept, LeftoverHasCause, Working
<1>. QED
  BY <1>5, <1>6, <1>7, <1>8, <1>9, <1>10, <1>11, <1>12 DEF ReportNext

LEMMA ReportInvariant == ReportSpec => []ReportInv
<1>1. ReportInit => ReportInv
  BY DEF ReportInit, ReportInv, Empty, Views, Writing, AnnouncedIsKept, LeftoverHasCause
<1>2. ASSUME ReportInv, [ReportNext]_reportVars
      PROVE  ReportInv'
  <2>1. CASE ReportNext
    BY <1>2, <2>1, StepKeepsReport
  <2>2. CASE UNCHANGED reportVars
    BY <1>2, <2>2
       DEF reportVars, ReportInv, Writing, AnnouncedIsKept, LeftoverHasCause, Working
  <2>. QED
    BY <1>2, <2>1, <2>2
<1>. QED
  BY <1>1, <1>2, PTL DEF ReportSpec

\* An announced report is never replaced, truncated or removed, for any number of
\* tools, errors and kills (write_weekly_report).
THEOREM ReportIsKept == ReportSpec => []AnnouncedIsKept
<1>1. ReportInv => AnnouncedIsKept
  BY DEF ReportInv
<1>. QED
  BY <1>1, ReportInvariant, PTL

\* A file that nobody announced is left by a kill or by two errors, and never by
\* one: what a tool cannot write it removes (write_weekly_report).
THEOREM LeftoverIsCaused == ReportSpec => []LeftoverHasCause
<1>1. ReportInv => LeftoverHasCause
  BY DEF ReportInv
<1>. QED
  BY <1>1, ReportInvariant, PTL
=============================================================================
