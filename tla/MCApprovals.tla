----------------------------- MODULE MCApprovals -----------------------------
(***************************************************************************)
(* Instances for TLC of what puts an approval to the owner: the policy     *)
(* asked about every small snapshot and answer (ApprovalRequests), and the *)
(* cycles of the Lead Manager.  A behaviour explores one of the two.       *)
(***************************************************************************)
EXTENDS LeadManager, ApprovalRequests, TLC

CONSTANTS p1, p2, w1, w2

VARIABLE subject   \* "policy" or "cycles"

approvalVars == <<subject, requestVars, vars>>

-----------------------------------------------------------------------------
(* The policy *)

Lists(S) == {<<>>} \cup {<<x>> : x \in S} \cup {<<x, y>> : x \in S, y \in S}

Asked == {a \in Recommendation : a.wording = w1}

LineupChanges == {a \in Asked : a.kind \in LineupKinds /\ a.expires = NoExpiry}

Entries == Listing(Players, Times)

\* Any snapshot, with one action, or with two and kickoffs that are certain.
AnySnapshot ==
  /\ listed = FALSE /\ listings = <<>>
  /\ snapshot \in [kickoffs : [Players -> Lists(Times)], deadlines : Lists(Times),
                   complete : {TRUE}]
  /\ \/ actions \in {{a} : a \in Asked}
     \/ actions \in {{a, b} : a \in Asked, b \in {x \in Asked : x.players = Players}}
        /\ snapshot.deadlines = <<>>
        /\ \A p \in Players : Len(snapshot.kickoffs[p]) = 1

\* Up to two roster entries, or the first of them once more, and a lineup change.
ListedSnapshot ==
  /\ listed = TRUE
  /\ listings \in {<<>>} \cup {<<a>> : a \in Entries}
       \cup {<<a, b>> : a \in Entries, b \in Entries}
       \cup {<<a, b, a>> : a \in Entries, b \in Entries}
  /\ snapshot = [kickoffs |-> Kickoffs(listings, Players), deadlines |-> <<>>,
                 complete |-> TRUE]
  /\ actions \in {{a} : a \in LineupChanges}

-----------------------------------------------------------------------------
(* The Lead Manager *)

LineupChange(wording, players) ==
  [kind |-> "lineup_change", wording |-> wording, players |-> players, expires |-> NoExpiry]
TradeAcceptance(expires) ==
  [kind |-> "trade_accept", wording |-> w1, players |-> {p1}, expires |-> expires]
Claim == [kind |-> "waiver_claim", wording |-> w1, players |-> {}, expires |-> NoExpiry]

Games(first, second) ==
  [kickoffs |-> (p1 :> <<first>> @@ p2 :> <<second>>), deadlines |-> <<>>, complete |-> TRUE]

\* The games stay where they are; some reads are incomplete.
FixedGames == {Games(3, 4), [Games(3, 4) EXCEPT !.complete = FALSE]}

ApprovalAnswers ==
  {{LineupChange(w1, {p1, p2})}, {LineupChange(w2, {p1, p2}), Claim},
   {TradeAcceptance(2)}, {LineupChange(w1, {p2}), TradeAcceptance(2)}}

\* What the policy makes of them: a game at 3, or a trade that is asked for
\* until 2, is decided before 2.
ApprovalReferences ==
  {ReferenceTo(a, 2) : a \in NeedApproval(UNION ApprovalAnswers)}

Inputs == <<1, 1, 1, 2, 2>>

\* A call that raises, a response cut short, a good one, one that outgrows the
\* limit when it is normalized, one that would have shrunk below it, and one
\* with another schema.
Good == [raises |-> FALSE, completed |-> TRUE, size |-> 1, growth |-> 0, text |-> "schema"]
SomeResponses ==
  {Good, [Good EXCEPT !.raises = TRUE], [Good EXCEPT !.completed = FALSE],
   [Good EXCEPT !.growth = 1], [Good EXCEPT !.size = 2, !.growth = -1],
   [Good EXCEPT !.text = "otherSchema"]}

-----------------------------------------------------------------------------
NoQuestion ==
  /\ listed = FALSE /\ listings = <<>> /\ snapshot = <<>> /\ actions = {}
  /\ time = 0 /\ request = NoTarget

ApprovalsInit ==
  /\ Init
  /\ \/ /\ subject = "policy" /\ league = Idle.snapshot
        /\ (AnySnapshot \/ ListedSnapshot) /\ RequestInit
     \/ subject = "cycles" /\ NoQuestion

ApprovalsNext ==
  /\ UNCHANGED subject
  /\ \/ subject = "policy" /\ Evaluate /\ UNCHANGED vars
     \/ subject = "cycles" /\ Next /\ UNCHANGED requestVars

ApprovalsSpec == ApprovalsInit /\ [][ApprovalsNext]_approvalVars
=============================================================================
