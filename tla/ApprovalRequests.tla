-------------------------- MODULE ApprovalRequests --------------------------
(***************************************************************************)
(* What the owner is asked to approve: PendingActionPolicy asked, again    *)
(* and again while time passes, about one answer of the model and one      *)
(* snapshot, which may be one the reader makes of what ESPN lists          *)
(* (PlayerKickoffs).                                                       *)
(***************************************************************************)
EXTENDS PendingActionPolicy, PlayerKickoffs

CONSTANTS
  Times,   \* of games, deadlines and expiries
  MaxNow   \* bound on the clock

ASSUME RequestsAssumption ==
  /\ Times \in SUBSET Nat /\ IsFiniteSet(Times)
  /\ MaxNow \in Nat

VARIABLES
  listed,    \* the snapshot was made of listings
  listings, snapshot, actions,
  time,
  request    \* what the policy answered last

requestVars == <<listed, listings, snapshot, actions, time, request>>

-----------------------------------------------------------------------------
Recommendation ==
  [kind : Kinds, wording : Wordings, players : SUBSET Players,
   expires : Times \cup {NoExpiry}]

RequestInit ==
  /\ listed \in BOOLEAN /\ listings \in Seq(Listing(Players, Times))
  /\ snapshot \in [kickoffs : [Players -> Seq(Times)], deadlines : Seq(Times),
                   complete : BOOLEAN]
  /\ listed => snapshot.kickoffs = Kickoffs(listings, Players)
  /\ actions \in SUBSET Recommendation /\ IsFiniteSet(actions)
  /\ time = 0 /\ request = NoTarget

Evaluate ==
  /\ time < MaxNow
  /\ time' = time + 1
  /\ request' = Materialize(snapshot, actions, time')
  /\ UNCHANGED <<listed, listings, snapshot, actions>>

RequestSpec == RequestInit /\ [][Evaluate]_requestVars

-----------------------------------------------------------------------------
(* Properties *)

\* An approval is put up just when it may be, for nothing but the one action
\* that needs it, until just before the first game or for the time asked
\* (DefaultPendingActionPolicy.materialize against MayAsk).
AsksJustWhenSafe ==
  time > 0 =>
    request.targets =
      {r \in {ReferenceTo(a, t - w) : a \in NeedApproval(actions), t \in Times,
                                      w \in {0, SafetyWindow}} :
         MayAsk(snapshot, actions, r, time)}

\* The same answer about the same games has the same reference at any time,
\* so that a retry finds the approval it asked for before (_pending_action).
StableReference ==
  \A t \in 1 .. time :
    LET before == Materialize(snapshot, actions, t)
    IN  before.targets # {} /\ request.targets # {} => request.targets = before.targets

\* The owner is asked to approve a change only of players whose every roster
\* entry that mentions the week gives one and the same kickoff, and until
\* before all of these: nothing ESPN is in doubt about becomes a deadline
\* (_player_kickoffs and the lineup branch of the policy).
DeadlinesAreCertain ==
  listed =>
    \A r \in {x \in request.targets : x.kind \in LineupKinds} : \A p \in r.players :
      /\ \E i \in DOMAIN listings : listings[i].player = p /\ listings[i].dates # NoWeek
      /\ \A i \in DOMAIN listings :
           listings[i].player = p /\ listings[i].dates # NoWeek =>
             \E t \in Times : listings[i].dates = {t} /\ InTimeFor(r, t)
=============================================================================
