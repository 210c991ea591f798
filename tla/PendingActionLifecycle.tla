----------------------- MODULE PendingActionLifecycle -----------------------
(***************************************************************************)
(* What an approval workflow promises the owner of the team: an action is  *)
(* put up for a decision once, decided once (by the owner or by its        *)
(* deadline), and what the owner is told is that one decision.             *)
(***************************************************************************)
CONSTANT Actions

VARIABLES
  status,  \* "absent", "none" (needs no decision), "pending" or a verdict
  told     \* the verdicts replies have reported

vars == <<status, told>>

Verdicts == {"approved", "vetoed", "expired"}

Init ==
  /\ status = [a \in Actions |-> "absent"]
  /\ told = [a \in Actions |-> {}]

\* One sweep may settle several actions, each of them once.
Move(from, to) ==
  \/ to = from
  \/ from = "absent" /\ to \in {"none", "pending"}
  \/ from = "pending" /\ to \in Verdicts

Decide ==
  /\ status' \in [Actions -> {"absent", "none", "pending"} \cup Verdicts]
  /\ \A a \in Actions : Move(status[a], status'[a])

Tell(a) ==
  /\ status'[a] \in Verdicts
  /\ told' = [told EXCEPT ![a] = @ \cup {status'[a]}]

Next == Decide /\ (UNCHANGED told \/ \E a \in Actions : Tell(a))

Spec == Init /\ [][Next]_vars
=============================================================================
