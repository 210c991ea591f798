-------------------------- MODULE MCActionExecutor --------------------------
(***************************************************************************)
(* Instances of ActionExecutor for TLC.                                    *)
(***************************************************************************)
EXTENDS ActionExecutor

CONSTANTS k1, k2, a1, a2, c1, c2

\* Every caller may use every key.
SharedKeys == [c \in Callers |-> Keys]

\* No key is used by two callers.
OwnKeys == [c \in Callers |-> IF c = c1 THEN {k1} ELSE {k2}]

\* All keys are issued for one action, or each for its own.
OneAction == [k \in Keys |-> a1]
OwnAction == [k \in Keys |-> IF k = k1 THEN a1 ELSE a2]

\* One key needs no approval, the other has one that expires.
Approvals == [k \in Keys |-> IF k = k1 THEN "not_required" ELSE "valid"]
NoApprovals == [k \in Keys |-> IF k = k1 THEN "missing" ELSE "wrong_user"]
Expiries == [k \in Keys |-> 1]
=============================================================================
