------------------------- MODULE MCDecisionHistory -------------------------
(***************************************************************************)
(* Instances of DecisionHistory for TLC.                                   *)
(***************************************************************************)
EXTENDS DecisionHistory

CONSTANTS d1, d2, d3, d4, a1, a2, a3

\* Two decisions for one action, one for another, and one without any.
ActionIn ==
  [d \in Decisions |-> CASE d = d1 -> a1 [] d = d2 -> a2 [] d = d3 -> a1 [] OTHER -> NoAction]

\* The third decision refers to an execution and asks for no approval.
Asking == Decisions \cap {d1, d2}

Deadlines == [a \in Actions |-> 1]
=============================================================================
