---------------------- MODULE PendingActionPolicyProofs ----------------------
(***************************************************************************)
(* The policy computes what it is to compute, for every snapshot, answer   *)
(* and time: the steps of Materialize lead to an approval just when MayAsk *)
(* allows one; and asked again and again (ApprovalRequests) it asks for    *)
(* the same approval, on facts that are certain.                           *)
(***************************************************************************)
EXTENDS ApprovalRequests, FiniteSetTheorems, WellFoundedInduction, TLAPS

\* A set of naturals has a least one: the intervals up to its members are
\* finite sets, among which inclusion is well founded.
LEMMA LeastNatural ==
  ASSUME NEW T \in SUBSET Nat, T # {}
  PROVE  \E m \in T : \A k \in T : m <= k
<1> DEFINE upTo == {0 .. n : n \in T}
<1>1. upTo \subseteq FiniteSubsetsOf(Nat) /\ upTo # {}
  <2>1. ASSUME NEW n \in T PROVE 0 .. n \in FiniteSubsetsOf(Nat)
    <3>1. IsFiniteSet(0 .. n)
      <4>1. 0 \in Int /\ n \in Int
        OBVIOUS
      <4> QED BY <4>1, FS_Interval, Zenon
    <3>2. 0 .. n \in SUBSET Nat
      OBVIOUS
    <3> QED BY <3>1, <3>2, Zenon DEF FiniteSubsetsOf
  <2> QED BY <2>1
<1>2. PICK x \in upTo : \A y \in upTo : <<y, x>> \notin StrictSubsetOrdering(Nat)
  <2> HIDE DEF upTo
  <2> QED BY <1>1, FS_StrictSubsetOrderingWellFounded, WFMin
<1>3. PICK m \in T : x = 0 .. m
  OBVIOUS
<1>4. ASSUME NEW k \in T, k < m PROVE FALSE
  <2>1. 0 .. k \in upTo /\ 0 .. k \subseteq 0 .. m /\ m \notin 0 .. k /\ m \in 0 .. m
    BY <1>4
  <2>2. <<0 .. k, 0 .. m>> \in StrictSubsetOrdering(Nat)
    BY <2>1, <1>4 DEF StrictSubsetOrdering
  <2> QED BY <1>2, <1>3, <2>1, <2>2
<1> QED BY <1>3, <1>4

LEMMA FirstKickoffIsFirst ==
  ASSUME NEW s \in Snapshot, NEW players \in SUBSET Players, players # {},
         \A p \in players : Len(s.kickoffs[p]) = 1
  PROVE  /\ FirstKickoff(s, players) \in Nat
         /\ \E p \in players : s.kickoffs[p][1] = FirstKickoff(s, players)
         /\ \A p \in players : FirstKickoff(s, players) <= s.kickoffs[p][1]
<1> DEFINE first == {s.kickoffs[p][1] : p \in players}
<1>1. first \in SUBSET Nat /\ first # {}
  BY DEF Snapshot
<1>2. \E t \in first : \A p \in players : t <= s.kickoffs[p][1]
  <2>1. \E t \in first : \A k \in first : t <= k
    <3> HIDE DEF first
    <3> QED BY <1>1, LeastNatural, Zenon
  <2> QED BY <2>1
<1>3. /\ FirstKickoff(s, players) \in first
      /\ \A p \in players : FirstKickoff(s, players) <= s.kickoffs[p][1]
  BY <1>2 DEF FirstKickoff
<1> QED BY <1>1, <1>3

LEMMA LineupIsExact ==
  ASSUME NEW s \in Snapshot, NEW a \in Action, a.kind \in LineupKinds, NEW now \in Nat,
         NEW acts, NeedApproval(acts) = {a}
  PROVE  LineupAction(s, a, now).targets = {r \in Reference : MayAsk(s, acts, r, now)}
<1> DEFINE known == a.players # {} /\ \A p \in a.players : Len(s.kickoffs[p]) = 1
           end == LineupExpiry(s, a, now)
<1>1. CASE ~known
  <2>1. LineupAction(s, a, now).targets = {}
    BY <1>1 DEF LineupAction, Refusal, Action
  <2>2. ASSUME NEW r \in Reference, MayAsk(s, acts, r, now) PROVE FALSE
    BY <1>1, <2>2 DEF MayAsk
  <2> QED BY <2>1, <2>2
<1>2. CASE known
  <2>1. /\ end \in Int
        /\ \E p \in a.players : s.kickoffs[p][1] = end + SafetyWindow
        /\ \A p \in a.players : end + SafetyWindow <= s.kickoffs[p][1]
    <3> DEFINE kickoff == FirstKickoff(s, a.players)
    <3>1. a.players \in SUBSET Players
      BY DEF Action
    <3>2. /\ kickoff \in Nat
          /\ \E p \in a.players : s.kickoffs[p][1] = kickoff
          /\ \A p \in a.players : kickoff <= s.kickoffs[p][1]
      BY <1>2, <3>1, FirstKickoffIsFirst, Zenon
    <3>3. end = kickoff - SafetyWindow
      BY Zenon DEF LineupExpiry
    <3> HIDE DEF kickoff
    <3>4. end + SafetyWindow = kickoff /\ end \in Int
      BY <3>2, <3>3, PolicyAssumption
    <3> HIDE DEF end
    <3> QED BY <3>2, <3>4
  <2>2. LineupAction(s, a, now).targets =
          IF end > now THEN {ReferenceTo(a, end)} ELSE {}
    BY <1>2, <2>1 DEF LineupAction, Refusal, Target, Action
  <2>3. ReferenceTo(a, end) \in Reference
    BY <2>1 DEF ReferenceTo, Reference, Action, ApprovalKinds
  <2>4. a.kind \notin TradeKinds
    BY DEF LineupKinds, TradeKinds
  <2>5. ASSUME end > now PROVE MayAsk(s, acts, ReferenceTo(a, end), now)
    BY <1>2, <2>1, <2>4, <2>5 DEF MayAsk, ReferenceTo, InTimeFor
  <2>6. ASSUME NEW r \in Reference, MayAsk(s, acts, r, now)
        PROVE  r = ReferenceTo(a, end) /\ end > now
    <3>1. /\ r.kind = a.kind /\ r.wording = a.wording /\ r.players = a.players
          /\ r.expires > now
          /\ \A p \in a.players : r.expires + SafetyWindow <= s.kickoffs[p][1]
          /\ \E p \in a.players : s.kickoffs[p][1] = r.expires + SafetyWindow
      BY <2>6 DEF MayAsk, InTimeFor
    <3>2. r.expires = end
      BY <2>1, <3>1, PolicyAssumption DEF Reference
    <3> QED BY <3>1, <3>2 DEF Reference, ReferenceTo
  <2> QED BY <2>2, <2>3, <2>5, <2>6
<1> QED BY <1>1, <1>2

LEMMA TradeIsExact ==
  ASSUME NEW s \in Snapshot, NEW a \in Action, a.kind \in TradeKinds, NEW now \in Nat,
         NEW acts, NeedApproval(acts) = {a}
  PROVE  TradeAction(s, a, now).targets = {r \in Reference : MayAsk(s, acts, r, now)}
<1> DEFINE inTime == /\ a.expires # NoExpiry
                     /\ a.expires > now /\ a.expires - now <= MaxTradeWindow
                     /\ \/ s.deadlines = <<>>
                        \/ Len(s.deadlines) = 1 /\ a.expires <= s.deadlines[1]
<1>1. /\ Len(s.deadlines) \in Nat /\ (Len(s.deadlines) = 0 <=> s.deadlines = <<>>)
      /\ Len(s.deadlines) = 1 => s.deadlines[1] \in Nat
  BY DEF Snapshot
<1>2. TradeAction(s, a, now).targets = IF inTime THEN {ReferenceTo(a, a.expires)} ELSE {}
  <2>1. CASE a.expires = NoExpiry
    BY <2>1 DEF TradeAction, Refusal
  <2>2. CASE a.expires \in Nat
    <3>1. inTime <=>
            ~ \/ a.expires = NoExpiry
              \/ ~(a.expires > now /\ a.expires <= now + MaxTradeWindow)
              \/ Len(s.deadlines) > 1
              \/ Len(s.deadlines) = 1 /\ a.expires > s.deadlines[1]
      <4> DEFINE n == Len(s.deadlines)
                 none == s.deadlines = <<>>
                 first == s.deadlines[1]
                 until == a.expires
      <4>1. /\ n \in Nat /\ (n = 0 <=> none) /\ (n = 1 => first \in Nat)
            /\ until \in Nat /\ until # NoExpiry
        BY <1>1, <2>2, PolicyAssumption
      <4> HIDE DEF n, none, first, until
      <4>2. (/\ until # NoExpiry /\ until > now /\ until - now <= MaxTradeWindow
             /\ none \/ (n = 1 /\ until <= first))
            <=> ~(\/ until = NoExpiry
                  \/ ~(until > now /\ until <= now + MaxTradeWindow)
                  \/ n > 1 \/ (n = 1 /\ until > first))
        BY <4>1, PolicyAssumption
      <4> QED BY <4>2 DEF n, none, first, until
    <3> QED BY <3>1, Zenon DEF TradeAction, Refusal, Target
  <2> QED BY <2>1, <2>2 DEF Action
<1>3. a.kind \notin LineupKinds
  BY DEF LineupKinds, TradeKinds
<1>4. ASSUME inTime
      PROVE  /\ ReferenceTo(a, a.expires) \in Reference
             /\ MayAsk(s, acts, ReferenceTo(a, a.expires), now)
  BY <1>3, <1>4 DEF MayAsk, ReferenceTo, Reference, Action, ApprovalKinds
<1>5. ASSUME NEW r \in Reference, MayAsk(s, acts, r, now)
      PROVE  r = ReferenceTo(a, a.expires) /\ inTime
  <2>1. /\ r.kind = a.kind /\ r.wording = a.wording /\ r.players = a.players
        /\ r.expires > now /\ r.expires = a.expires
        /\ r.expires - now <= MaxTradeWindow
        /\ \/ s.deadlines = <<>>
           \/ Len(s.deadlines) = 1 /\ r.expires <= s.deadlines[1]
    BY <1>5 DEF MayAsk
  <2>2. r.expires # NoExpiry
    BY PolicyAssumption DEF Reference
  <2> QED BY <2>1, <2>2 DEF Reference, ReferenceTo
<1> QED BY <1>2, <1>4, <1>5

LEMMA OneIsNeeded ==
  ASSUME NEW S, IsFiniteSet(S), S # {}, ~(Cardinality(S) > 1)
  PROVE  \E a : S = {a}
<1>1. Cardinality(S) \in Nat
  BY FS_CardinalityType, Zenon
<1>2. Cardinality(S) # 0
  BY FS_EmptySet, Zenon
<1>3. Cardinality(S) = 1
  BY <1>1, <1>2
<1> QED BY <1>3, FS_Singleton, Zenon

\* An approval is put up just when it may be, for nothing but the one action
\* that needs it, until just before the first game or for the time asked
\* (DefaultPendingActionPolicy.materialize): the steps of the policy and the
\* declarative statement agree.
THEOREM PolicyIsExact ==
  ASSUME NEW s \in Snapshot, NEW acts \in SUBSET Action, IsFiniteSet(acts), NEW now \in Nat
  PROVE  Materialize(s, acts, now).targets = {r \in Reference : MayAsk(s, acts, r, now)}
<1> DEFINE asked == NeedApproval(acts)
<1>1. CASE asked = {}
  <2>1. Materialize(s, acts, now).targets = {}
    <3>1. Cardinality(asked) = 0
      BY <1>1, FS_EmptySet, Zenon
    <3> QED BY <1>1, <3>1 DEF Materialize, NoTarget
  <2>2. ASSUME NEW r \in Reference, MayAsk(s, acts, r, now) PROVE FALSE
    BY <1>1, <2>2 DEF MayAsk
  <2> QED BY <2>1, <2>2
<1>2. CASE asked # {} /\ Cardinality(asked) > 1
  <2>1. Materialize(s, acts, now).targets = {}
    BY <1>2 DEF Materialize, Refusal
  <2>2. ASSUME NEW r \in Reference, MayAsk(s, acts, r, now) PROVE FALSE
    <3>1. PICK a : asked = {a}
      BY <2>2 DEF MayAsk
    <3>2. Cardinality(asked) = 1
      BY <3>1, FS_Singleton, Zenon
    <3> QED BY <1>2, <3>2
  <2> QED BY <2>1, <2>2
<1>3. CASE asked # {} /\ ~(Cardinality(asked) > 1)
  <2>1. IsFiniteSet(asked)
    BY FS_Subset DEF NeedApproval
  <2>2. PICK a : asked = {a}
    BY <1>3, <2>1, OneIsNeeded
  <2>3. a \in Action /\ a.kind \in ApprovalKinds
    BY <2>2 DEF NeedApproval
  <2>4. Materialize(s, acts, now) =
          IF a.kind \in LineupKinds THEN LineupAction(s, a, now) ELSE TradeAction(s, a, now)
    BY <1>3, <2>2 DEF Materialize
  <2> QED BY <2>2, <2>3, <2>4, LineupIsExact, TradeIsExact DEF ApprovalKinds
<1> QED BY <1>1, <1>2, <1>3

-----------------------------------------------------------------------------
(* The policy asked again and again *)

\* A lineup change has one deadline, that of its games, and a trade the one it
\* asks for: there is at most one approval to ask for, at whatever time.
LEMMA OneReference ==
  ASSUME NEW s \in Snapshot, NEW acts, NEW now, NEW then,
         NEW q \in Reference, MayAsk(s, acts, q, now),
         NEW r \in Reference, MayAsk(s, acts, r, then)
  PROVE  q = r
<1>1. PICK a \in NeedApproval(acts) :
        /\ NeedApproval(acts) = {a}
        /\ q.kind = a.kind /\ q.wording = a.wording /\ q.players = a.players
        /\ a.kind \in LineupKinds =>
             /\ \A p \in a.players : q.expires + SafetyWindow <= s.kickoffs[p][1]
             /\ \E p \in a.players : s.kickoffs[p][1] = q.expires + SafetyWindow
        /\ a.kind \in TradeKinds => q.expires = a.expires
  BY DEF MayAsk, InTimeFor
<1>2. /\ r.kind = a.kind /\ r.wording = a.wording /\ r.players = a.players
      /\ a.kind \in LineupKinds =>
           /\ \A p \in a.players : r.expires + SafetyWindow <= s.kickoffs[p][1]
           /\ \E p \in a.players : s.kickoffs[p][1] = r.expires + SafetyWindow
      /\ a.kind \in TradeKinds => r.expires = a.expires
  BY <1>1 DEF MayAsk, InTimeFor
<1>3. q.expires \in Int /\ r.expires \in Int
  BY DEF Reference
<1>4. CASE a.kind \in LineupKinds
  <2>1. PICK p \in a.players : s.kickoffs[p][1] = q.expires + SafetyWindow
    BY <1>1, <1>4
  <2>2. r.expires + SafetyWindow <= q.expires + SafetyWindow
    BY <1>2, <1>4, <2>1
  <2>3. PICK p2 \in a.players : s.kickoffs[p2][1] = r.expires + SafetyWindow
    BY <1>2, <1>4
  <2>4. q.expires + SafetyWindow <= r.expires + SafetyWindow
    BY <1>1, <1>4, <2>3
  <2>5. q.expires = r.expires
    BY <1>3, <2>2, <2>4, PolicyAssumption
  <2> QED BY <1>1, <1>2, <2>5 DEF Reference
<1>5. CASE a.kind \notin LineupKinds
  <2>1. a.kind \in TradeKinds
    BY <1>5 DEF NeedApproval, ApprovalKinds
  <2> QED BY <1>1, <1>2, <2>1 DEF Reference
<1> QED BY <1>4, <1>5

\* What the policy is asked about stays, and what it answered is what it puts
\* up at the time it was last asked.
RequestInv ==
  /\ listed => snapshot.kickoffs = Kickoffs(listings, Players)
  /\ listings \in Seq(Listing(Players, Times))
  /\ snapshot \in [kickoffs : [Players -> Seq(Times)], deadlines : Seq(Times),
                   complete : BOOLEAN]
  /\ snapshot \in Snapshot
  /\ actions \in SUBSET Recommendation /\ actions \in SUBSET Action
  /\ IsFiniteSet(actions)
  /\ time \in Nat
  /\ IF time = 0 THEN request = NoTarget ELSE request = Materialize(snapshot, actions, time)

LEMMA RequestTypes ==
  ASSUME NEW s \in [kickoffs : [Players -> Seq(Times)], deadlines : Seq(Times),
                    complete : BOOLEAN]
  PROVE  s \in Snapshot
<1>1. ASSUME NEW q \in Seq(Times) PROVE q \in Seq(Nat)
  <2>1. \A i \in 1 .. Len(q) : q[i] \in Times
    OBVIOUS
  <2>2. \A i \in 1 .. Len(q) : q[i] \in Nat
    BY <2>1, RequestsAssumption
  <2> QED BY <2>2
<1> QED BY <1>1 DEF Snapshot

LEMMA AlwaysRequestInv == RequestSpec => []RequestInv
<1>1. RequestInit => RequestInv
  <2> SUFFICES ASSUME RequestInit PROVE RequestInv
    OBVIOUS
  <2>1. snapshot \in Snapshot
    BY RequestTypes DEF RequestInit
  <2>2. Recommendation \subseteq Action
    BY RequestsAssumption DEF Recommendation, Action
  <2> QED BY <2>1, <2>2 DEF RequestInit, RequestInv
<1>2. RequestInv /\ [Evaluate]_requestVars => RequestInv'
  BY DEF RequestInv, Evaluate, requestVars
<1> QED BY <1>1, <1>2, PTL DEF RequestSpec

\* What it put up last are the approvals it may ask for.
LEMMA RequestsAreExact ==
  ASSUME RequestInv, NEW t \in Nat
  PROVE  Materialize(snapshot, actions, t).targets
           = {r \in Reference : MayAsk(snapshot, actions, r, t)}
BY PolicyIsExact DEF RequestInv

\* An approval is put up just when it may be, for nothing but the one action
\* that needs it, until just before the first game or for the time asked, for
\* all players, times and windows (DefaultPendingActionPolicy.materialize).
THEOREM AskedJustWhenSafe == RequestSpec => []AsksJustWhenSafe
<1>1. ASSUME RequestInv PROVE AsksJustWhenSafe
  <2> DEFINE known == {ReferenceTo(a, t - w) : a \in NeedApproval(actions), t \in Times,
                                               w \in {0, SafetyWindow}}
  <2> SUFFICES ASSUME time > 0
               PROVE  request.targets = {r \in known : MayAsk(snapshot, actions, r, time)}
    BY DEF AsksJustWhenSafe
  <2>1. request.targets = {r \in Reference : MayAsk(snapshot, actions, r, time)}
    BY <1>1, RequestsAreExact DEF RequestInv
  <2>2. ASSUME NEW r \in known PROVE r \in Reference
    <3>1. PICK a \in NeedApproval(actions), t \in Times, w \in {0, SafetyWindow} :
            r = ReferenceTo(a, t - w)
      BY <2>2
    <3>2. t - w \in Int
      BY PolicyAssumption, RequestsAssumption
    <3>3. a \in Action /\ a.kind \in ApprovalKinds
      BY <1>1 DEF RequestInv, NeedApproval
    <3> QED BY <3>1, <3>2, <3>3 DEF ReferenceTo, Reference, Action
  <2>3. ASSUME NEW r \in Reference, MayAsk(snapshot, actions, r, time) PROVE r \in known
    <3>1. PICK a \in NeedApproval(actions) :
            /\ r.kind = a.kind /\ r.wording = a.wording /\ r.players = a.players
            /\ a.kind \in LineupKinds =>
                 /\ \A p \in a.players : Len(snapshot.kickoffs[p]) = 1
                 /\ \E p \in a.players : snapshot.kickoffs[p][1] = r.expires + SafetyWindow
            /\ a.kind \in TradeKinds => r.expires = a.expires
      BY <2>3 DEF MayAsk
    <3>2. a \in Recommendation /\ a.kind \in ApprovalKinds
      BY <1>1 DEF RequestInv, NeedApproval
    <3>3. r.expires \in Int /\ r = ReferenceTo(a, r.expires)
      BY <3>1 DEF Reference, ReferenceTo
    <3>4. \E t \in Times, w \in {0, SafetyWindow} : r.expires = t - w
      <4>1. CASE a.kind \in LineupKinds
        <5>1. PICK p \in a.players :
                /\ Len(snapshot.kickoffs[p]) = 1
                /\ snapshot.kickoffs[p][1] = r.expires + SafetyWindow
          BY <3>1, <4>1
        <5>2. p \in Players
          BY <3>2 DEF Recommendation
        <5>3. snapshot.kickoffs[p] \in Seq(Times)
          BY <1>1, <5>2 DEF RequestInv
        <5>4. snapshot.kickoffs[p][1] \in Times
          BY <5>1, <5>3
        <5>5. r.expires = snapshot.kickoffs[p][1] - SafetyWindow
          BY <3>3, <5>1, PolicyAssumption
        <5> QED BY <5>4, <5>5
      <4>2. CASE a.kind \in TradeKinds
        <5>1. r.expires \in Times
          BY <3>1, <3>2, <3>3, <4>2, PolicyAssumption DEF Recommendation
        <5>2. r.expires = r.expires - 0
          BY <3>3
        <5> QED BY <5>1, <5>2
      <4> QED BY <3>2, <4>1, <4>2 DEF ApprovalKinds
    <3> QED BY <3>3, <3>4
  <2> HIDE DEF known
  <2> QED BY <2>1, <2>2, <2>3
<1> QED BY <1>1, AlwaysRequestInv, PTL

\* The same answer about the same games has the same reference at any time,
\* so that a retry finds the approval it asked for before (_pending_action).
THEOREM ReferenceIsStable == RequestSpec => []StableReference
<1>1. ASSUME RequestInv PROVE StableReference
  <2> SUFFICES ASSUME NEW t \in 1 .. time, Materialize(snapshot, actions, t).targets # {},
                      request.targets # {}
               PROVE  request.targets = Materialize(snapshot, actions, t).targets
    BY Zenon DEF StableReference
  <2>1. time \in Nat /\ t \in Nat /\ time # 0
    BY <1>1 DEF RequestInv
  <2>2. /\ request.targets = {r \in Reference : MayAsk(snapshot, actions, r, time)}
        /\ Materialize(snapshot, actions, t).targets
             = {r \in Reference : MayAsk(snapshot, actions, r, t)}
    BY <1>1, <2>1, RequestsAreExact DEF RequestInv
  <2>3. snapshot \in Snapshot
    BY <1>1 DEF RequestInv
  <2>4. \A q \in request.targets, r \in Materialize(snapshot, actions, t).targets : q = r
    BY <2>2, <2>3, OneReference
  <2>5. \A q, r \in request.targets : q = r
    BY <2>2, <2>3, OneReference
  <2> QED BY <2>4, <2>5
<1> QED BY <1>1, AlwaysRequestInv, PTL

\* A known kickoff is what every listing of the week says.
LEMMA KnownIsCertain ==
  ASSUME NEW ls \in Seq(Listing(Players, Times)), NEW p \in Players, Known(ls, p)
  PROVE  \E t \in Times :
           /\ Kickoffs(ls, Players)[p] = <<t>>
           /\ \E i \in DOMAIN ls : ls[i].player = p /\ ls[i].dates # NoWeek
           /\ \A i \in DOMAIN ls : ls[i].player = p /\ ls[i].dates # NoWeek => ls[i].dates = {t}
<1>1. \A i \in DOMAIN ls :
        ls[i].dates # NoWeek => ls[i].dates \in SUBSET (Times \cup {Doubtful})
  <2>1. ASSUME NEW i \in DOMAIN ls PROVE ls[i] \in Listing(Players, Times)
    OBVIOUS
  <2> QED BY <2>1 DEF Listing
<1>2. \A d : d \in ListingsOf(ls, p) <=>
        d # NoWeek /\ \E i \in DOMAIN ls : ls[i].player = p /\ d = ls[i].dates
  BY DEF ListingsOf
<1>3. \A t : t \in DatesOf(ls, p) <=> t # Doubtful /\ \E d \in ListingsOf(ls, p) : t \in d
  BY DEF DatesOf
<1>4. DatesOf(ls, p) \subseteq Times /\ IsFiniteSet(DatesOf(ls, p))
  <2>1. DatesOf(ls, p) \subseteq Times
    BY <1>1, <1>2, <1>3
  <2> QED BY <2>1, RequestsAssumption, FS_Subset
<1>5. PICK t : DatesOf(ls, p) = {t}
  BY <1>4, FS_Singleton DEF Known
<1>6. \A d \in ListingsOf(ls, p) : d # {} /\ Doubtful \notin d
  BY DEF Known, Invalid
<1>7. \A d \in ListingsOf(ls, p) : d \subseteq DatesOf(ls, p)
  BY <1>3, <1>6
<1>8. \A d \in ListingsOf(ls, p) : d = {t}
  BY <1>5, <1>6, <1>7
<1>9. ListingsOf(ls, p) # {}
  BY <1>3, <1>5
<1>10. Kickoffs(ls, Players)[p] = <<t>>
  BY <1>5 DEF Kickoffs
<1> QED BY <1>2, <1>4, <1>5, <1>8, <1>9, <1>10

\* The owner is asked to approve a change only of players whose every roster
\* entry that mentions the week gives one and the same kickoff, and until
\* before all of these, for any listings (_player_kickoffs and _lineup_action).
THEOREM CertainDeadlines == RequestSpec => []DeadlinesAreCertain
<1>1. ASSUME RequestInv PROVE DeadlinesAreCertain
  <2> SUFFICES ASSUME listed, NEW r \in request.targets, r.kind \in LineupKinds,
                      NEW p \in r.players
               PROVE  /\ \E i \in DOMAIN listings :
                           listings[i].player = p /\ listings[i].dates # NoWeek
                      /\ \A i \in DOMAIN listings :
                           listings[i].player = p /\ listings[i].dates # NoWeek =>
                             \E t \in Times : listings[i].dates = {t} /\ InTimeFor(r, t)
    BY DEF DeadlinesAreCertain
  <2>1. time \in Nat /\ request = Materialize(snapshot, actions, time)
    BY <1>1 DEF RequestInv, NoTarget
  <2>2. r \in Reference /\ MayAsk(snapshot, actions, r, time)
    BY <1>1, <2>1, RequestsAreExact
  <2>3. Len(snapshot.kickoffs[p]) = 1 /\ InTimeFor(r, snapshot.kickoffs[p][1])
    BY <2>2 DEF MayAsk
  <2>4. p \in Players /\ snapshot.kickoffs = Kickoffs(listings, Players)
        /\ listings \in Seq(Listing(Players, Times))
    BY <1>1, <2>2 DEF RequestInv, Reference
  <2>5. Known(listings, p)
    <3>1. ~Known(listings, p) => snapshot.kickoffs[p] = <<>>
      BY <2>4 DEF Kickoffs
    <3> QED BY <2>3, <3>1
  <2>6. PICK t \in Times :
          /\ Kickoffs(listings, Players)[p] = <<t>>
          /\ \E i \in DOMAIN listings : listings[i].player = p /\ listings[i].dates # NoWeek
          /\ \A i \in DOMAIN listings :
               listings[i].player = p /\ listings[i].dates # NoWeek => listings[i].dates = {t}
    BY <2>4, <2>5, KnownIsCertain
  <2>7. InTimeFor(r, t)
    <3>1. snapshot.kickoffs[p][1] = t
      BY <2>4, <2>6
    <3> QED BY <2>3, <3>1
  <2> QED BY <2>6, <2>7
<1> QED BY <1>1, AlwaysRequestInv, PTL
=============================================================================
