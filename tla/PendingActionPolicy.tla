------------------------ MODULE PendingActionPolicy ------------------------
(***************************************************************************)
(* DefaultPendingActionPolicy (orchestration.py): which of the Lead        *)
(* Manager's recommendations becomes an approval the owner is asked for,   *)
(* until when, and under which reference.                                  *)
(*                                                                         *)
(* Times are naturals.  A snapshot has the kickoffs ESPN lists for each    *)
(* player and the deadlines named "trade".                                 *)
(***************************************************************************)
EXTENDS Integers, FiniteSets, Sequences

CONSTANTS
  Players,
  Wordings,        \* the summaries and rationales a model may give
  SafetyWindow,    \* the 15 minutes before a kickoff
  MaxTradeWindow,  \* MAX_TRADE_APPROVAL_WINDOW
  NoExpiry         \* approval_expires_at is None

ASSUME PolicyAssumption ==
  /\ SafetyWindow \in Nat /\ MaxTradeWindow \in Nat \ {0}
  /\ NoExpiry \notin Int

LineupKinds == {"lineup_change"}
TradeKinds == {"trade_accept", "trade_acceptance"}
ApprovalKinds == LineupKinds \cup TradeKinds
Kinds == ApprovalKinds \cup {"waiver_claim"}

\* RecommendedAction.
Action == [kind : Kinds, wording : Wordings, players : SUBSET Players,
           expires : Nat \cup {NoExpiry}]

\* What of a LeagueSnapshot the policy and the Lead Manager read.
Snapshot == [kickoffs : [Players -> Seq(Nat)], deadlines : Seq(Nat), complete : BOOLEAN]

\* The action_id: a hash of just these fields.
Reference == [kind : ApprovalKinds, wording : Wordings, players : SUBSET Players,
              expires : Int]

ReferenceTo(action, expires) ==
  [kind |-> action.kind, wording |-> action.wording, players |-> action.players,
   expires |-> expires]

\* PendingActionPolicyResult: one approval to ask for, none, or a refusal.
NoTarget == [targets |-> {}, refused |-> FALSE]
Refusal == [targets |-> {}, refused |-> TRUE]
Target(reference) == [targets |-> {reference}, refused |-> FALSE]

NeedApproval(actions) == {a \in actions : a.kind \in ApprovalKinds}

FirstKickoff(snapshot, players) ==
  CHOOSE t \in {snapshot.kickoffs[p][1] : p \in players} :
    \A p \in players : t <= snapshot.kickoffs[p][1]

\* Mutation: what an approval may still be given for is counted from now.
LineupExpiry_FromNow(snapshot, action, now) ==
  LET end == FirstKickoff(snapshot, action.players) - SafetyWindow
  IN  IF end > now + MaxTradeWindow THEN now + MaxTradeWindow ELSE end

LineupExpiry(snapshot, action, now) ==
  FirstKickoff(snapshot, action.players) - SafetyWindow

LineupAction(snapshot, action, now) ==
  IF \/ action.players = {}
     \/ \E p \in action.players : Len(snapshot.kickoffs[p]) # 1
     \/ LineupExpiry(snapshot, action, now) <= now
  THEN Refusal
  ELSE Target(ReferenceTo(action, LineupExpiry(snapshot, action, now)))

\* Mutation: the league's trade deadline is not looked at.
TradeAction_NoDeadline(snapshot, action, now) ==
  IF \/ action.expires = NoExpiry
     \/ ~(action.expires > now /\ action.expires <= now + MaxTradeWindow)
     \/ Len(snapshot.deadlines) > 1
  THEN Refusal
  ELSE Target(ReferenceTo(action, action.expires))

TradeAction(snapshot, action, now) ==
  IF \/ action.expires = NoExpiry
     \/ ~(action.expires > now /\ action.expires <= now + MaxTradeWindow)
     \/ Len(snapshot.deadlines) > 1
     \/ Len(snapshot.deadlines) = 1 /\ action.expires > snapshot.deadlines[1]
  THEN Refusal
  ELSE Target(ReferenceTo(action, action.expires))

Materialize(snapshot, actions, now) ==
  LET asked == NeedApproval(actions)
      action == CHOOSE a \in asked : TRUE
  IN  CASE asked = {} -> NoTarget
        [] Cardinality(asked) > 1 -> Refusal
        [] OTHER -> IF action.kind \in LineupKinds
                    THEN LineupAction(snapshot, action, now)
                    ELSE TradeAction(snapshot, action, now)

-----------------------------------------------------------------------------
(* What an approval promises, stated without the steps that compute it *)

\* A decision the owner makes before the reference expires is in time for t.
InTimeFor(reference, t) == reference.expires + SafetyWindow <= t

\* The approval may be asked for: it is the only one the answer needs, and
\* what it has to be in time for is known beyond doubt.
MayAsk(snapshot, actions, reference, now) ==
  \E a \in NeedApproval(actions) :
    /\ NeedApproval(actions) = {a}
    /\ reference.kind = a.kind /\ reference.wording = a.wording
    /\ reference.players = a.players
    /\ reference.expires > now
    /\ a.kind \in LineupKinds =>
         /\ a.players # {}
         /\ \A p \in a.players :
              /\ Len(snapshot.kickoffs[p]) = 1
              /\ InTimeFor(reference, snapshot.kickoffs[p][1])
         /\ \E p \in a.players :
              snapshot.kickoffs[p][1] = reference.expires + SafetyWindow
    /\ a.kind \in TradeKinds =>
         /\ reference.expires = a.expires
         /\ reference.expires - now <= MaxTradeWindow
         /\ \/ snapshot.deadlines = <<>>
            \/ Len(snapshot.deadlines) = 1 /\ reference.expires <= snapshot.deadlines[1]
=============================================================================
