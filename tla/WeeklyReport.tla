---------------------------- MODULE WeeklyReport ----------------------------
(***************************************************************************)
(* The weekly post-mortem (reports.py): decision records are reduced to a  *)
(* public view, and write_weekly_report puts it into a file that no report *)
(* has been written to before, step by step; the tool may be run twice at  *)
(* a time, and killed.                                                     *)
(*                                                                         *)
(* The HTML shows the view and nothing else, and is left out.              *)
(***************************************************************************)
EXTENDS Integers, FiniteSets

CONSTANTS
  Tools,       \* runs of the tool
  Decisions,   \* the decision records there may be
  InSeason,    \* those of the season of the report
  PublicId,    \* per decision: its id as _public_text leaves it
  NoReport,
  MaxToolFaults, MaxKills   \* bounds

\* What a report shows of the decisions: the ids of all of them, and of those
\* whose outcome was measured.
Views == [decisions : SUBSET {PublicId[d] : d \in Decisions},
          outcomes : SUBSET {PublicId[d] : d \in Decisions}]

\* What the file of the week may hold.
Reports == [view : Views, whole : BOOLEAN]

ASSUME ReportAssumption ==
  /\ NoReport \notin Reports
  /\ MaxToolFaults \in Nat /\ MaxKills \in Nat

VARIABLES
  record,    \* per decision: "none", "open" or "measured" in the history
  report,    \* the file of the week
  tool,      \* per tool: where write_weekly_report is
  material,  \* per tool: its WeeklyPostmortem
  answer,    \* per tool: "none", "written", "exists", "invalid" or "failed"
  toolFaults, kills

reportVars == <<record, report, tool, material, answer, toolFaults, kills>>

Empty == [decisions |-> {}, outcomes |-> {}]

ReportInit ==
  /\ record = [d \in Decisions |-> "none"]
  /\ report = NoReport
  /\ tool = [t \in Tools |-> "start"]
  /\ material = [t \in Tools |-> Empty]
  /\ answer = [t \in Tools |-> "none"]
  /\ toolFaults = 0 /\ kills = 0

Recorded == {d \in Decisions : record[d] # "none"}

\* from_record: neither the pending action nor the execution of a decision
\* reaches the report, and an outcome only when it is measured.
View(S) == [decisions |-> {PublicId[d] : d \in S},
            outcomes |-> {PublicId[d] : d \in {e \in S : record[e] = "measured"}}]

Goto(t, label) == tool' = [tool EXCEPT ![t] = label]

Finish(t, how) == Goto(t, "done") /\ answer' = [answer EXCEPT ![t] = how]

\* WeeklyPostmortem.from_records of the records given: all of one season, and
\* with ids that differ after their reduction.
Build(t) ==
  /\ tool[t] = "start"
  /\ \E S \in SUBSET Recorded :
       IF S \subseteq InSeason /\ Cardinality(View(S).decisions) = Cardinality(S)
       THEN /\ material' = [material EXCEPT ![t] = View(S)]
            /\ Goto(t, "create") /\ UNCHANGED answer
       ELSE Finish(t, "invalid") /\ UNCHANGED material
  /\ UNCHANGED <<record, report, toolFaults, kills>>

\* Mutation: an old report is truncated.
CreateReport_Truncates(t) ==
  /\ tool[t] = "create"
  /\ report' = [view |-> Empty, whole |-> FALSE]
  /\ Goto(t, "fill")
  /\ UNCHANGED <<record, material, answer, toolFaults, kills>>

\* os.open with O_EXCL.
CreateReport(t) ==
  /\ tool[t] = "create"
  /\ IF report = NoReport
     THEN /\ report' = [view |-> Empty, whole |-> FALSE]
          /\ Goto(t, "fill") /\ UNCHANGED answer
     ELSE Finish(t, "exists") /\ UNCHANGED report
  /\ UNCHANGED <<record, material, toolFaults, kills>>

FillReport(t) ==
  /\ tool[t] = "fill"
  /\ report' = [view |-> material[t], whole |-> TRUE]
  /\ Goto(t, "sync")
  /\ UNCHANGED <<record, material, answer, toolFaults, kills>>

SyncReport(t) ==
  /\ tool[t] = "sync"
  /\ Finish(t, "written")
  /\ UNCHANGED <<record, report, material, toolFaults, kills>>

\* Mutation: a file that could not be written stays.
Fails_LeavesFile(t) ==
  /\ tool[t] \in {"create", "fill", "sync", "cleanup"} /\ toolFaults < MaxToolFaults
  /\ toolFaults' = toolFaults + 1
  /\ Finish(t, "failed")
  /\ UNCHANGED <<record, report, material, kills>>

\* A call of the system raises.  While the file is written it is to be removed;
\* when that fails too, it stays as it is.
Fails(t) ==
  /\ toolFaults < MaxToolFaults /\ toolFaults' = toolFaults + 1
  /\ \/ tool[t] \in {"create", "cleanup"} /\ Finish(t, "failed")
     \/ tool[t] \in {"fill", "sync"} /\ Goto(t, "cleanup") /\ UNCHANGED answer
  /\ UNCHANGED <<record, report, material, kills>>

\* The unlink of a file that could not be written.
RemovePart(t) ==
  /\ tool[t] = "cleanup"
  /\ report' = NoReport
  /\ Finish(t, "failed")
  /\ UNCHANGED <<record, material, toolFaults, kills>>

\* The tool is killed or interrupted (KeyboardInterrupt is no Exception): what
\* it has written stays.
KillTool(t) ==
  /\ tool[t] \in {"create", "fill", "sync", "cleanup"} /\ kills < MaxKills
  /\ kills' = kills + 1
  /\ Goto(t, "done")
  /\ UNCHANGED <<record, report, material, answer, toolFaults>>

\* A decision is recorded, or its outcome measured.
Learn(d) ==
  /\ record' = [record EXCEPT ![d] = IF @ = "none" THEN "open" ELSE "measured"]
  /\ record[d] # "measured"
  /\ UNCHANGED <<report, tool, material, answer, toolFaults, kills>>

ReportNext ==
  \/ \E t \in Tools : \/ Build(t) \/ CreateReport(t) \/ FillReport(t) \/ SyncReport(t)
                     \/ Fails(t) \/ RemovePart(t) \/ KillTool(t)
  \/ \E d \in Decisions : Learn(d)

ReportSpec == ReportInit /\ [][ReportNext]_reportVars

-----------------------------------------------------------------------------
(* Properties *)

Working == \E t \in Tools : tool[t] \in {"fill", "sync", "cleanup"}

\* A report that a tool has announced stays as it is: no other run of the tool
\* replaces, truncates or removes it, however the two interleave and fail
\* ("without replacing an existing artifact").
AnnouncedIsKept ==
  \A t \in Tools :
    answer[t] = "written" => report = [view |-> material[t], whole |-> TRUE]

\* A file that no tool has announced blocks the week for good (O_EXCL).  No
\* single error leaves one, in whatever step it strikes and however two tools
\* interleave: it takes the end of a tool, or a second error in the cleanup.
LeftoverHasCause ==
  report # NoReport /\ ~Working /\ (\A t \in Tools : answer[t] # "written")
  => kills > 0 \/ toolFaults > 1
=============================================================================
