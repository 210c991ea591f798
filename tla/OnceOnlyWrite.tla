---------------------------- MODULE OnceOnlyWrite ----------------------------
(***************************************************************************)
(* What an ESPN write under an idempotency key promises its client: the    *)
(* key is claimed before anything is tried, tried at most once, and        *)
(* answered with one result that is true of ESPN and never changes.        *)
(***************************************************************************)
EXTENDS Integers

CONSTANT Keys

VARIABLES
  status,   \* "free", "claimed", "attempted" or "settled"
  effect,   \* how often the write took effect at ESPN
  answers   \* the results given for the key

vars == <<status, effect, answers>>

Init ==
  /\ status = [k \in Keys |-> "free"]
  /\ effect = [k \in Keys |-> 0]
  /\ answers = [k \in Keys |-> {}]

Claim(k) ==
  /\ status[k] = "free"
  /\ status' = [status EXCEPT ![k] = "claimed"]
  /\ UNCHANGED <<effect, answers>>

\* The one attempt, which may or may not take effect.
Attempt(k) ==
  /\ status[k] = "claimed"
  /\ status' = [status EXCEPT ![k] = "attempted"]
  /\ \E e \in {0, 1} : effect' = [effect EXCEPT ![k] = e]
  /\ UNCHANGED answers

\* A result is consistent with what happened; the last two commit to nothing.
Consistent(k, result) ==
  CASE result = "rejected" -> status[k] = "claimed"
    [] result = "failed" -> effect[k] = 0
    [] result = "verified" -> status[k] = "attempted" /\ effect[k] = 1
    [] result \in {"unknown_outcome", "needs_human_review"} -> TRUE

Settle(k) ==
  /\ status[k] \in {"claimed", "attempted"}
  /\ \E result \in {"rejected", "failed", "verified", "unknown_outcome",
                    "needs_human_review"} :
       Consistent(k, result) /\ answers' = [answers EXCEPT ![k] = {result}]
  /\ status' = [status EXCEPT ![k] = "settled"]
  /\ UNCHANGED effect

Next == \E k \in Keys : Claim(k) \/ Attempt(k) \/ Settle(k)

Spec == Init /\ [][Next]_vars
=============================================================================
