---------------------------- MODULE MCLocalFiles ----------------------------
(***************************************************************************)
(* Instances for TLC of what is kept in local files beside the ledger and  *)
(* the history: the session file, the reads of ESPN that depend on it, and *)
(* the weekly report.  The three share no variable, so that a behaviour    *)
(* explores one of them and leaves the others where they begin.            *)
(***************************************************************************)
EXTENDS EspnReads, OwnerOnlyFile, WeeklyReport

CONSTANTS
  d1, d2, d3

VARIABLES
  subject

\* Two of the decisions look the same in public.
PublicIds == [d \in Decisions |-> IF d = d3 THEN d2 ELSE d]

filesVars == <<storeVars, reportVars, readsVars, subject>>

FilesInit ==
  /\ StoreInit /\ ReadsInit /\ ReportInit
  /\ subject \in {"session", "reads", "report"}

FilesNext ==
  /\ UNCHANGED subject
  /\ \/ subject = "session" /\ StoreNext /\ UNCHANGED <<readsVars, reportVars>>
     \/ subject = "reads" /\ ReadsNext /\ UNCHANGED <<storeVars, reportVars>>
     \/ subject = "report" /\ ReportNext /\ UNCHANGED <<storeVars, readsVars>>

\* Fairness is that of the service that reads.
FilesSpec == FilesInit /\ [][FilesNext]_filesVars

FilesFairSpec ==
  FilesSpec /\ WF_filesVars(subject = "reads" /\ ServiceStep
                            /\ UNCHANGED <<storeVars, reportVars, subject>>)
=============================================================================
