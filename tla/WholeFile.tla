------------------------------ MODULE WholeFile ------------------------------
(***************************************************************************)
(* What a file promises that is only ever replaced as a whole: a register. *)
(* A write takes effect at one moment between its call and its answer, or  *)
(* not at all; a reader gets what the register holds, or nothing.  A loss  *)
(* of power may bring back an earlier content, never a part of one.        *)
(***************************************************************************)
CONSTANTS
  Writers, Readers,
  Values,
  NoFile   \* the register is empty

VARIABLES
  value,   \* what the register holds
  kept,    \* what it may hold after a loss of power
  put,     \* per writer: the value it is about to write, or NoFile
  stage,   \* per writer: "idle", "begun", "placed", "stored" or "failed"
  got      \* per reader: what its last read gave

vars == <<value, kept, put, stage, got>>

Init ==
  /\ value = NoFile /\ kept = {NoFile}
  /\ put = [w \in Writers |-> NoFile]
  /\ stage = [w \in Writers |-> "idle"]
  /\ got = [r \in Readers |-> "nothing"]

Begin(w) ==
  /\ stage[w] \in {"idle", "stored", "failed"}
  /\ stage' = [stage EXCEPT ![w] = "begun"]
  /\ \E v \in Values : put' = [put EXCEPT ![w] = v]
  /\ UNCHANGED <<value, kept, got>>

\* The one moment at which a write takes effect.
Place(w) ==
  /\ stage[w] = "begun"
  /\ stage' = [stage EXCEPT ![w] = "placed"]
  /\ value' = put[w] /\ kept' = kept \cup {put[w]}
  /\ put' = [put EXCEPT ![w] = NoFile]
  /\ UNCHANGED got

\* Success is reported of a write that took effect only.
Answer(w) ==
  /\ \/ stage[w] = "placed" /\ stage' = [stage EXCEPT ![w] = "stored"]
     \/ stage[w] \in {"begun", "placed"} /\ stage' = [stage EXCEPT ![w] = "failed"]
  /\ put' = [put EXCEPT ![w] = NoFile]
  /\ UNCHANGED <<value, kept, got>>

\* The writer dies.
Die(w) ==
  /\ stage' = [stage EXCEPT ![w] = "idle"]
  /\ put' = [put EXCEPT ![w] = NoFile]
  /\ UNCHANGED <<value, kept, got>>

Remove ==
  /\ value' = NoFile /\ kept' = kept \cup {NoFile}
  /\ UNCHANGED <<put, stage, got>>

Get(r) ==
  /\ \E v \in {value, "unavailable", "nothing"} \ {NoFile} : got' = [got EXCEPT ![r] = v]
  /\ UNCHANGED <<value, kept, put, stage>>

\* What the register holds becomes permanent.
Settle ==
  /\ kept' = {value}
  /\ UNCHANGED <<value, put, stage, got>>

LosePower ==
  /\ value' \in kept /\ kept' = {value'}
  /\ stage' = [w \in Writers |-> "idle"]
  /\ put' = [w \in Writers |-> NoFile]
  /\ got' = [r \in Readers |-> "nothing"]

Next ==
  \/ \E w \in Writers : Begin(w) \/ Place(w) \/ Answer(w) \/ Die(w)
  \/ \E r \in Readers : Get(r)
  \/ Remove \/ Settle \/ LosePower

Spec == Init /\ [][Next]_vars
=============================================================================
