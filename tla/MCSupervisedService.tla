------------------------ MODULE MCSupervisedService ------------------------
(***************************************************************************)
(* Instances of SupervisedService for TLC.                                 *)
(***************************************************************************)
EXTENDS SupervisedService

PauseForeignResumeRun == <<"pause", "foreign", "resume", "run">>
NoCommands == <<>>
\* A "why" whose answer is longer than a message, and a pause behind it.
WhyPause == <<"other", "pause">>
=============================================================================
