----------------------- MODULE DecisionHistoryProofs -----------------------
(***************************************************************************)
(* Proofs about the decision history: what a replay of the file computes,  *)
(* what a sweep of expiries does to it, and, from these, that the verdicts *)
(* replies report are single, durable and in time, and that the file       *)
(* implements PendingActionLifecycle.                                      *)
(***************************************************************************)
EXTENDS DecisionHistory, TLAPS, FiniteSetTheorems, WellFoundedInduction

-----------------------------------------------------------------------------
(* The replay of a sequence of events *)

\* What holds at 0 and from each number for the next holds up to n (the least
\* counterexample, as the interval below it, has a smaller one).
LEMMA UpTo ==
  ASSUME NEW n \in Nat, NEW S, 0 \in S, \A i \in 1 .. n : i - 1 \in S => i \in S
  PROVE  0 .. n \subseteq S
<1>. DEFINE Bad == {0 .. i : i \in {j \in 0 .. n : j \notin S}}
<1>1. SUFFICES ASSUME NEW b \in 0 .. n, b \notin S
               PROVE  FALSE
  OBVIOUS
<1>2. 0 .. b \in Bad
  BY <1>1
<1>3. Bad \subseteq FiniteSubsetsOf(0 .. n)
  <2>1. \A i \in 0 .. n : 0 .. i \subseteq 0 .. n /\ IsFiniteSet(0 .. i)
    BY FS_Interval
  <2>. QED
    BY <2>1 DEF FiniteSubsetsOf
<1>4. PICK X \in Bad : \A Y \in Bad : <<Y, X>> \notin StrictSubsetOrdering(0 .. n)
  <2>. HIDE DEF Bad
  <2>. QED
    BY <1>2, <1>3, FS_StrictSubsetOrderingWellFounded, WFMin
<1>5. PICK i \in 0 .. n : X = 0 .. i /\ i \notin S
  OBVIOUS
<1>6. i # 0 /\ i \in 1 .. n /\ i - 1 \notin S /\ i - 1 \in 0 .. n
  BY <1>5
<1>7. 0 .. (i - 1) \in Bad
  BY <1>6
<1>8. 0 .. (i - 1) \subseteq X /\ X \subseteq 0 .. n /\ i \in X /\ i \notin 0 .. (i - 1)
  BY <1>5
<1>9. <<0 .. (i - 1), X>> \in StrictSubsetOrdering(0 .. n)
  BY <1>8 DEF StrictSubsetOrdering
<1>. QED
  BY <1>4, <1>7, <1>9

\* A replay begins with its view and applies one event after the other.
LEMMA ViewsRecur ==
  ASSUME NEW v, NEW es, Len(es) \in Nat
  PROVE  /\ Views(v, es)[0] = v
         /\ \A i \in 1 .. Len(es) : Views(v, es)[i] = Apply(Views(v, es)[i - 1], es[i])
<1>. DEFINE n == Len(es)
            Is(f, m) == f = [i \in 0 .. m |-> IF i = 0 THEN v ELSE Apply(f[i - 1], es[i])]
            Built == {m \in 0 .. n : \E f : Is(f, m)}
<1>1. 0 \in Built
  <2>. DEFINE f == [i \in 0 .. 0 |-> v]
  <2>1. Is(f, 0)
    OBVIOUS
  <2>. QED
    <3>. HIDE DEF f, Is
    <3>. QED
      BY <2>1
<1>2. ASSUME NEW m \in 1 .. n, m - 1 \in Built
      PROVE  m \in Built
  <2>1. PICK f : Is(f, m - 1)
    BY <1>2
  <2>. DEFINE g == [i \in 0 .. m |-> IF i < m THEN f[i] ELSE Apply(f[m - 1], es[m])]
  <2>2. \A i \in 0 .. m - 1 : g[i] = f[i]
    OBVIOUS
  <2>3. \A i \in 0 .. m : g[i] = IF i = 0 THEN v ELSE Apply(g[i - 1], es[i])
    <3>1. ASSUME NEW i \in 0 .. m - 1
          PROVE  g[i] = IF i = 0 THEN v ELSE Apply(g[i - 1], es[i])
      <4>1. f[i] = IF i = 0 THEN v ELSE Apply(f[i - 1], es[i])
        BY <2>1
      <4>2. i # 0 => g[i - 1] = f[i - 1]
        BY <2>2
      <4>. QED
        BY <2>2, <4>1, <4>2
    <3>2. g[m] = Apply(g[m - 1], es[m])
      BY <2>2
    <3>. QED
      BY <3>1, <3>2
  <2>4. Is(g, m)
    BY <2>3
  <2>. QED
    <3>. HIDE DEF g, Is
    <3>. QED
      BY <2>4
<1>3. \E f : Is(f, n)
  <2>. HIDE DEF Built
  <2>1. 0 .. n \subseteq Built
    BY <1>1, <1>2, UpTo
  <2>. QED
    BY <2>1 DEF Built
<1>4. Is(Views(v, es), n)
  BY <1>3 DEF Views
<1>5. \A i \in 0 .. n : Views(v, es)[i] = IF i = 0 THEN v ELSE Apply(Views(v, es)[i - 1], es[i])
  BY <1>4
<1>. QED
  <2>. HIDE DEF Is
  <2>. QED
    BY <1>5

\* The views after a common beginning are the same.
LEMMA ViewsOfPrefix ==
  ASSUME NEW v, NEW es, NEW fs, Len(es) \in Nat, Len(fs) \in Nat,
         NEW n \in Nat, n <= Len(es), n <= Len(fs), \A i \in 1 .. n : es[i] = fs[i]
  PROVE  \A i \in 0 .. n : Views(v, es)[i] = Views(v, fs)[i]
<1>. DEFINE S == {i \in 0 .. n : Views(v, es)[i] = Views(v, fs)[i]}
<1>1. 0 \in S
  BY ViewsRecur
<1>2. ASSUME NEW i \in 1 .. n, i - 1 \in S
      PROVE  i \in S
  <2>1. i \in 1 .. Len(es) /\ i \in 1 .. Len(fs)
    OBVIOUS
  <2>. QED
    BY <1>2, <2>1, ViewsRecur
<1>. QED
  BY <1>1, <1>2, UpTo

\* A replay may be interrupted and taken up again.
LEMMA ViewsResume ==
  ASSUME NEW v, NEW f \in Seq(Event), NEW es \in Seq(Event)
  PROVE  /\ \A i \in 0 .. Len(f) : Views(v, f \o es)[i] = Views(v, f)[i]
         /\ \A i \in 0 .. Len(es) :
              Views(v, f \o es)[Len(f) + i] = Views(ViewAfter(v, f), es)[i]
         /\ ViewAfter(v, f \o es) = ViewAfter(ViewAfter(v, f), es)
<1>. DEFINE g == f \o es
            m == Len(f)
            n == Len(es)
            S == {i \in 0 .. n : Views(v, g)[m + i] = Views(ViewAfter(v, f), es)[i]}
<1>1. /\ m \in Nat /\ n \in Nat /\ Len(g) = m + n
      /\ \A i \in 1 .. m : g[i] = f[i]
      /\ \A i \in 1 .. n : g[m + i] = es[i]
  OBVIOUS
<1>. HIDE DEF g
<1>2. \A i \in 0 .. m : Views(v, g)[i] = Views(v, f)[i]
  <2>1. /\ Len(g) \in Nat /\ Len(f) \in Nat /\ m \in Nat
        /\ m <= Len(g) /\ m <= Len(f)
    BY <1>1
  <2>2. \A i \in 1 .. m : g[i] = f[i]
    BY <1>1
  <2>. HIDE DEF m
  <2>. QED
    BY <2>1, <2>2, ViewsOfPrefix
<1>3. 0 \in S
  BY <1>1, <1>2, ViewsRecur DEF ViewAfter
<1>4. ASSUME NEW i \in 1 .. n, i - 1 \in S
      PROVE  i \in S
  <2>1. /\ m + i \in 1 .. Len(g) /\ (m + i) - 1 = m + (i - 1) /\ Len(g) \in Nat
        /\ g[m + i] = es[i]
    BY <1>1
  <2>2. Views(v, g)[m + i] = Apply(Views(v, g)[(m + i) - 1], g[m + i])
    BY <2>1, ViewsRecur
  <2>3. Views(ViewAfter(v, f), es)[i] = Apply(Views(ViewAfter(v, f), es)[i - 1], es[i])
    BY <1>1, ViewsRecur
  <2>. QED
    BY <1>4, <2>1, <2>2, <2>3
<1>5. 0 .. n \subseteq S
  <2>. HIDE DEF S
  <2>. QED
    BY <1>1, <1>3, <1>4, UpTo
<1>6. ViewAfter(v, g) = ViewAfter(ViewAfter(v, f), es)
  <2>1. n \in S
    <3>. HIDE DEF n, S
    <3>. QED
      BY <1>1, <1>5
  <2>2. Views(v, g)[m + n] = Views(ViewAfter(v, f), es)[n]
    BY <2>1
  <2>3. ViewAfter(v, g) = Views(v, g)[Len(g)]
        /\ ViewAfter(ViewAfter(v, f), es) = Views(ViewAfter(v, f), es)[Len(es)]
    BY DEF ViewAfter
  <2>. QED
    BY <1>1, <2>2, <2>3
<1>. QED
  BY <1>2, <1>5, <1>6 DEF g

-----------------------------------------------------------------------------
(* Events that a view accepts *)

\* None of the events is torn, and each is accepted by the view before it.
AcceptsAll(v, es) ==
  \A i \in 1 .. Len(es) : es[i] # TornLine /\ Accepts(Views(v, es)[i - 1], es[i])

\* The first view is that of an empty file.
LEMMA NoViewTyped == NoView \in View /\ Known(NoView) = {} /\ IsFiniteSet(Known(NoView))
<1>1. NoView \in View /\ Known(NoView) = {}
  BY DEF NoView, View, Known
<1>. QED
  BY <1>1, FS_EmptySet

\* An accepted cycle puts up at most one action, that was unknown (_apply, and
\* the guards of record_cycle before it).
LEMMA CycleMoves ==
  ASSUME NEW v \in View, NEW e \in Event, Accepts(v, e), e.kind = "cycle_recorded"
  PROVE  /\ Apply(v, e) \in View
         /\ \E b : \A a \in Actions :
              \/ Apply(v, e).records[a].status = v.records[a].status
              \/ /\ a = b /\ v.records[a].status = "absent"
                 /\ Apply(v, e).records[a].status \in {"none", "pending"}
<1>1. e.subject \in Decisions /\ CanRecord(v, e.subject)
  BY DEF Event, TornLine, Accepts
<1>2. CASE ActionOf[e.subject] = NoAction
  <2>1. Apply(v, e) = [v EXCEPT !.ids = @ \cup {e.subject}]
    BY <1>2 DEF Apply
  <2>2. NoAction \notin Actions
    BY HistoryAssumption
  <2>3. Apply(v, e) \in View /\ \A a \in Actions : Apply(v, e).records[a].status = v.records[a].status
    BY <1>1, <2>1 DEF View
  <2>. QED
    BY <2>2, <2>3
<1>3. CASE ActionOf[e.subject] # NoAction
  <2>. DEFINE b == ActionOf[e.subject]
              new == IF e.subject \in Asks THEN "pending" ELSE "none"
  <2>1. b \in Actions /\ v.records[b].status = "absent" /\ new \in {"none", "pending"}
    BY <1>1, <1>3, HistoryAssumption DEF CanRecord
  <2>2. Apply(v, e) = [v EXCEPT !.ids = @ \cup {e.subject}, !.records[b].status = new]
    BY <1>3 DEF Apply
  <2>. HIDE DEF b, new
  <2>3. /\ Apply(v, e).ids = v.ids \cup {e.subject}
        /\ Apply(v, e).records = [v.records EXCEPT ![b].status = new]
        /\ Apply(v, e) = [ids |-> Apply(v, e).ids, records |-> Apply(v, e).records]
    BY <2>2 DEF View
  <2>4. v.ids \in SUBSET Decisions
        /\ v.records \in [Actions -> [status : {"absent", "none", "pending"} \cup Verdicts,
                                      outcome : BOOLEAN]]
    BY DEF View
  <2>5. Apply(v, e) \in View
    BY <1>1, <2>1, <2>3, <2>4 DEF View
  <2>6. \A a \in Actions :
          Apply(v, e).records[a].status = IF a = b THEN new ELSE v.records[a].status
    BY <2>1, <2>3, <2>4
  <2>. QED
    BY <2>1, <2>5, <2>6
<1>. QED
  BY <1>2, <1>3

\* An accepted resolution decides a pending action, an outcome decides nothing
\* (_apply, and the guards before it).
LEMMA EventMoves ==
  ASSUME NEW v \in View, NEW e \in Event, e # TornLine, Accepts(v, e)
  PROVE  /\ Apply(v, e) \in View
         /\ e.kind = "pending_resolved" =>
              /\ e.subject \in Actions /\ e.status \in Verdicts
              /\ v.records[e.subject].status = "pending"
              /\ Apply(v, e) = [v EXCEPT !.records[e.subject].status = e.status]
         /\ e.kind = "outcome_recorded" =>
              \A a \in Actions : Apply(v, e).records[a].status = v.records[a].status
         /\ e.kind \in {"pending_resolved", "outcome_recorded", "cycle_recorded"}
<1>1. CASE e.kind = "pending_resolved"
  <2>1. e.subject \in Actions /\ e.status \in Verdicts
    BY <1>1 DEF Event, TornLine
  <2>2. v.records[e.subject].status = "pending"
    BY <1>1 DEF Accepts, CanResolve
  <2>3. Apply(v, e) = [v EXCEPT !.records[e.subject].status = e.status]
    BY <1>1 DEF Apply
  <2>4. Apply(v, e) \in View
    BY <2>1, <2>3 DEF View
  <2>. QED
    BY <1>1, <2>1, <2>2, <2>3, <2>4
<1>2. CASE e.kind = "outcome_recorded"
  <2>1. e.subject \in Actions
    BY <1>2 DEF Event, TornLine
  <2>2. Apply(v, e) = [v EXCEPT !.records[e.subject].outcome = TRUE]
    BY <1>2 DEF Apply
  <2>3. Apply(v, e) \in View
    <3>1. v.ids \in SUBSET Decisions
          /\ v.records \in [Actions -> [status : {"absent", "none", "pending"} \cup Verdicts,
                                        outcome : BOOLEAN]]
      BY DEF View
    <3>2. /\ Apply(v, e).ids = v.ids
          /\ Apply(v, e).records = [v.records EXCEPT ![e.subject].outcome = TRUE]
          /\ Apply(v, e) = [ids |-> Apply(v, e).ids, records |-> Apply(v, e).records]
      BY <2>2 DEF View
    <3>3. [v.records EXCEPT ![e.subject].outcome = TRUE]
            \in [Actions -> [status : {"absent", "none", "pending"} \cup Verdicts,
                            outcome : BOOLEAN]]
      BY <2>1, <3>1
    <3>. QED
      BY <3>1, <3>2, <3>3 DEF View
  <2>4. \A a \in Actions : Apply(v, e).records[a].status = v.records[a].status
    BY <2>1, <2>2 DEF View
  <2>. QED
    BY <1>2, <2>3, <2>4
<1>3. CASE e.kind = "cycle_recorded"
  BY <1>3, CycleMoves
<1>4. e.kind \in {"pending_resolved", "outcome_recorded", "cycle_recorded"}
  BY DEF Event
<1>. QED
  BY <1>1, <1>2, <1>3, <1>4

LEMMA LengthTyped == \A T : \A es \in Seq(T) : Len(es) \in Nat
  OBVIOUS

LEMMA KnownStaysFinite ==
  ASSUME NEW v \in View, NEW e \in Event, e # TornLine, Accepts(v, e),
         IsFiniteSet(Known(v))
  PROVE  IsFiniteSet(Known(Apply(v, e)))
<1>1. \E b : Known(Apply(v, e)) \subseteq Known(v) \cup {b}
  <2>1. CASE e.kind = "cycle_recorded"
    <3>1. PICK b : \A a \in Actions :
            \/ Apply(v, e).records[a].status = v.records[a].status
            \/ /\ a = b /\ v.records[a].status = "absent"
               /\ Apply(v, e).records[a].status \in {"none", "pending"}
      BY <2>1, CycleMoves
    <3>. QED
      BY <3>1 DEF Known
  <2>2. CASE e.kind = "outcome_recorded"
    <3>1. \A a \in Actions : Apply(v, e).records[a].status = v.records[a].status
      BY <2>2, EventMoves
    <3>. QED
      BY <3>1 DEF Known
  <2>3. CASE e.kind = "pending_resolved"
    <3>1. /\ v.records[e.subject].status = "pending"
          /\ Apply(v, e) = [v EXCEPT !.records[e.subject].status = e.status]
      BY <2>3, EventMoves
    <3>. QED
      BY <3>1 DEF Known, View
  <2>. QED
    BY <2>1, <2>2, <2>3, EventMoves
<1>. QED
  BY <1>1, FS_AddElement, FS_Subset

\* An accepted event leaves a decided action as it is, and decides a pending one
\* only as it says.
LEMMA EventKeepsVerdicts ==
  ASSUME NEW v \in View, NEW e \in Event, e # TornLine, Accepts(v, e), NEW a \in Actions
  PROVE  /\ v.records[a].status \in Verdicts =>
              Apply(v, e).records[a].status = v.records[a].status
         /\ Apply(v, e).records[a].status \in Verdicts =>
              \/ v.records[a].status = Apply(v, e).records[a].status
              \/ /\ e.kind = "pending_resolved" /\ e.subject = a
                 /\ e.status = Apply(v, e).records[a].status
                 /\ v.records[a].status = "pending"
         /\ e.kind = "pending_resolved" /\ e.subject = a =>
              Apply(v, e).records[a].status = e.status
         /\ e.kind = "pending_resolved" /\ e.subject # a =>
              Apply(v, e).records[a].status = v.records[a].status
<1>1. CASE e.kind = "cycle_recorded"
  <2>1. \/ Apply(v, e).records[a].status = v.records[a].status
        \/ /\ v.records[a].status = "absent"
           /\ Apply(v, e).records[a].status \in {"none", "pending"}
    BY <1>1, CycleMoves
  <2>. QED
    BY <1>1, <2>1 DEF Verdicts
<1>2. CASE e.kind = "outcome_recorded"
  BY <1>2, EventMoves
<1>3. CASE e.kind = "pending_resolved"
  <2>1. /\ e.subject \in Actions /\ v.records[e.subject].status = "pending"
        /\ Apply(v, e) = [v EXCEPT !.records[e.subject].status = e.status]
    BY <1>3, EventMoves
  <2>2. /\ Apply(v, e).records[e.subject].status = e.status
        /\ a # e.subject => Apply(v, e).records[a] = v.records[a]
    BY <2>1 DEF View
  <2>. QED
    BY <1>3, <2>1, <2>2 DEF Verdicts
<1>. QED
  BY <1>1, <1>2, <1>3, EventMoves

\* The replay of accepted events yields views, with finitely many actions.
LEMMA ViewsTyped ==
  ASSUME NEW v \in View, NEW es \in Seq(Event), AcceptsAll(v, es)
  PROVE  \A i \in 0 .. Len(es) :
           /\ Views(v, es)[i] \in View
           /\ IsFiniteSet(Known(v)) => IsFiniteSet(Known(Views(v, es)[i]))
<1>. DEFINE S == {i \in 0 .. Len(es) :
                    /\ Views(v, es)[i] \in View
                    /\ IsFiniteSet(Known(v)) => IsFiniteSet(Known(Views(v, es)[i]))}
<1>1. 0 \in S
  BY ViewsRecur
<1>2. ASSUME NEW i \in 1 .. Len(es), i - 1 \in S
      PROVE  i \in S
  <2>1. /\ Views(v, es)[i] = Apply(Views(v, es)[i - 1], es[i])
        /\ es[i] \in Event /\ es[i] # TornLine /\ Accepts(Views(v, es)[i - 1], es[i])
    BY ViewsRecur DEF AcceptsAll
  <2>. DEFINE x == Views(v, es)[i - 1]
              e == es[i]
  <2>2. x \in View /\ (IsFiniteSet(Known(v)) => IsFiniteSet(Known(x)))
    BY <1>2
  <2>3. e \in Event /\ e # TornLine /\ Accepts(x, e) /\ Views(v, es)[i] = Apply(x, e)
    BY <2>1
  <2>. HIDE DEF x, e
  <2>4. Apply(x, e) \in View
    BY <2>2, <2>3, EventMoves
  <2>5. IsFiniteSet(Known(x)) => IsFiniteSet(Known(Apply(x, e)))
    BY <2>2, <2>3, KnownStaysFinite
  <2>. QED
    BY <2>2, <2>3, <2>4, <2>5
<1>3. 0 .. Len(es) \subseteq S
  <2>. HIDE DEF S
  <2>. QED
    BY <1>1, <1>2, LengthTyped, UpTo
<1>. QED
  BY <1>3

\* What each of the accepted events meets.
LEMMA ViewsStep ==
  ASSUME NEW v \in View, NEW es \in Seq(Event), AcceptsAll(v, es),
         NEW i \in 1 .. Len(es)
  PROVE  /\ Views(v, es)[i - 1] \in View
         /\ Views(v, es)[i] = Apply(Views(v, es)[i - 1], es[i])
         /\ es[i] \in Event /\ es[i] # TornLine
         /\ Accepts(Views(v, es)[i - 1], es[i])
  BY ViewsTyped, ViewsRecur DEF AcceptsAll

\* A decided action stays decided.
LEMMA VerdictsStay ==
  ASSUME NEW v \in View, NEW es \in Seq(Event), AcceptsAll(v, es),
         NEW a \in Actions, v.records[a].status \in Verdicts
  PROVE  \A i \in 0 .. Len(es) : Views(v, es)[i].records[a].status = v.records[a].status
<1>. DEFINE S == {i \in 0 .. Len(es) :
                    Views(v, es)[i].records[a].status = v.records[a].status}
<1>1. 0 \in S
  BY ViewsRecur
<1>2. ASSUME NEW i \in 1 .. Len(es), i - 1 \in S
      PROVE  i \in S
  BY <1>2, ViewsStep, EventKeepsVerdicts
<1>3. 0 .. Len(es) \subseteq S
  <2>. HIDE DEF S
  <2>. QED
    BY <1>1, <1>2, LengthTyped, UpTo
<1>. QED
  BY <1>3

\* A verdict that was not there before has its line.
LEMMA VerdictsHaveLines ==
  ASSUME NEW v \in View, NEW es \in Seq(Event), AcceptsAll(v, es), NEW a \in Actions
  PROVE  \A i \in 0 .. Len(es) :
           Views(v, es)[i].records[a].status \in Verdicts =>
             \/ v.records[a].status = Views(v, es)[i].records[a].status
             \/ Resolved(es, a, Views(v, es)[i].records[a].status)
<1>. DEFINE Status(i) == Views(v, es)[i].records[a].status
            S == {i \in 0 .. Len(es) :
                    Status(i) \in Verdicts =>
                      v.records[a].status = Status(i) \/ Resolved(es, a, Status(i))}
<1>1. 0 \in S
  BY ViewsRecur
<1>2. ASSUME NEW i \in 1 .. Len(es), i - 1 \in S
      PROVE  i \in S
  <2>1. Status(i) \in Verdicts =>
          \/ Status(i - 1) = Status(i)
          \/ es[i].kind = "pending_resolved" /\ es[i].subject = a /\ es[i].status = Status(i)
    BY ViewsStep, EventKeepsVerdicts
  <2>. QED
    BY <1>2, <2>1 DEF Resolved
<1>3. 0 .. Len(es) \subseteq S
  <2>. HIDE DEF S
  <2>. QED
    BY <1>1, <1>2, LengthTyped, UpTo
<1>. QED
  BY <1>3

\* Two views that accept the same events go on to agree.
LEMMA ViewsAgree ==
  ASSUME NEW v \in View, NEW w \in View, NEW es \in Seq(Event),
         AcceptsAll(v, es), AcceptsAll(w, es), AgreesWith(w, v)
  PROVE  \A i \in 0 .. Len(es) : AgreesWith(Views(w, es)[i], Views(v, es)[i])
<1>. DEFINE S == {i \in 0 .. Len(es) : AgreesWith(Views(w, es)[i], Views(v, es)[i])}
<1>1. 0 \in S
  BY ViewsRecur
<1>2. ASSUME NEW i \in 1 .. Len(es), i - 1 \in S
      PROVE  i \in S
  <2>. DEFINE x == Views(v, es)[i - 1]
              y == Views(w, es)[i - 1]
              e == es[i]
  <2>1. /\ x \in View /\ y \in View /\ e \in Event /\ e # TornLine
        /\ Accepts(x, e) /\ Accepts(y, e) /\ AgreesWith(y, x)
    BY <1>2, ViewsStep
  <2>2. Views(v, es)[i] = Apply(x, e) /\ Views(w, es)[i] = Apply(y, e)
    BY ViewsStep
  <2>. HIDE DEF x, y, e
  <2>3. AgreesWith(Apply(y, e), Apply(x, e))
    BY <2>1, EventKeepsVerdicts DEF AgreesWith
  <2>. QED
    BY <2>2, <2>3
<1>3. 0 .. Len(es) \subseteq S
  <2>. HIDE DEF S
  <2>. QED
    BY <1>1, <1>2, LengthTyped, UpTo
<1>. QED
  BY <1>3

-----------------------------------------------------------------------------
(* Files that can be loaded *)

\* _load accepts a file whose events are accepted and numbered.
LEMMA ReadableMeans ==
  ASSUME NEW f
  PROVE  Readable(f) <=> AcceptsAll(NoView, f) /\ \A i \in 1 .. Len(f) : f[i].seq = i
  BY DEF Readable, Untorn, AcceptsAll

\* Events are accepted one sequence after the other.
LEMMA AcceptsBoth ==
  ASSUME NEW v, NEW f \in Seq(Event), NEW es \in Seq(Event)
  PROVE  AcceptsAll(v, f \o es) <=> AcceptsAll(v, f) /\ AcceptsAll(ViewAfter(v, f), es)
<1>. DEFINE g == f \o es
            m == Len(f)
            n == Len(es)
<1>1. /\ m \in Nat /\ n \in Nat /\ Len(g) = m + n
      /\ \A i \in 1 .. m : g[i] = f[i]
      /\ \A i \in 1 .. n : g[m + i] = es[i]
  OBVIOUS
<1>2. /\ \A i \in 0 .. m : Views(v, g)[i] = Views(v, f)[i]
      /\ \A i \in 0 .. n : Views(v, g)[m + i] = Views(ViewAfter(v, f), es)[i]
  BY ViewsResume
<1>. HIDE DEF g, m, n
<1>3. ASSUME AcceptsAll(v, g)
      PROVE  AcceptsAll(v, f) /\ AcceptsAll(ViewAfter(v, f), es)
  <2>1. ASSUME NEW i \in 1 .. m
        PROVE  f[i] # TornLine /\ Accepts(Views(v, f)[i - 1], f[i])
    <3>1. i \in 1 .. Len(g) /\ i - 1 \in 0 .. m
      BY <1>1
    <3>. QED
      BY <1>1, <1>2, <1>3, <3>1 DEF AcceptsAll
  <2>2. ASSUME NEW i \in 1 .. n
        PROVE  es[i] # TornLine /\ Accepts(Views(ViewAfter(v, f), es)[i - 1], es[i])
    <3>1. m + i \in 1 .. Len(g) /\ i - 1 \in 0 .. n /\ (m + i) - 1 = m + (i - 1)
      BY <1>1
    <3>2. g[m + i] # TornLine /\ Accepts(Views(v, g)[(m + i) - 1], g[m + i])
      BY <1>3, <3>1 DEF AcceptsAll
    <3>. QED
      BY <1>1, <1>2, <3>1, <3>2
  <2>. QED
    BY <2>1, <2>2 DEF AcceptsAll, m, n
<1>4. ASSUME AcceptsAll(v, f), AcceptsAll(ViewAfter(v, f), es), NEW i \in 1 .. Len(g)
      PROVE  g[i] # TornLine /\ Accepts(Views(v, g)[i - 1], g[i])
  <2>1. CASE i <= m
    <3>1. i \in 1 .. m /\ i - 1 \in 0 .. m
      BY <1>1, <2>1
    <3>2. f[i] # TornLine /\ Accepts(Views(v, f)[i - 1], f[i])
      BY <1>4, <3>1 DEF AcceptsAll, m
    <3>. QED
      BY <1>1, <1>2, <3>1, <3>2
  <2>2. CASE i > m
    <3>1. PICK j \in 1 .. n : i = m + j
      BY <1>1, <2>2
    <3>2. j - 1 \in 0 .. n /\ i - 1 = m + (j - 1)
      BY <1>1, <3>1
    <3>3. es[j] # TornLine /\ Accepts(Views(ViewAfter(v, f), es)[j - 1], es[j])
      BY <1>4 DEF AcceptsAll, n
    <3>. QED
      BY <1>1, <1>2, <3>1, <3>2, <3>3
  <2>. QED
    BY <1>1, <2>1, <2>2
<1>. QED
  BY <1>3, <1>4 DEF AcceptsAll, g

\* A readable file goes on to be one if it is continued with accepted events and
\* the next numbers, and only then (_append_event, _load).
LEMMA ReadableGoesOn ==
  ASSUME NEW f \in Seq(Event), NEW es \in Seq(Event)
  PROVE  Readable(f \o es) <=>
           /\ Readable(f) /\ AcceptsAll(ViewAfter(NoView, f), es)
           /\ \A i \in 1 .. Len(es) : es[i].seq = Len(f) + i
<1>. DEFINE g == f \o es
            m == Len(f)
            n == Len(es)
<1>1. /\ m \in Nat /\ n \in Nat /\ Len(g) = m + n
      /\ \A i \in 1 .. m : g[i] = f[i]
      /\ \A i \in 1 .. n : g[m + i] = es[i]
  OBVIOUS
<1>2. AcceptsAll(NoView, g) <=>
        AcceptsAll(NoView, f) /\ AcceptsAll(ViewAfter(NoView, f), es)
  BY AcceptsBoth
<1>. HIDE DEF g, m, n
<1>3. (\A i \in 1 .. Len(g) : g[i].seq = i) <=>
        (\A i \in 1 .. m : f[i].seq = i) /\ (\A i \in 1 .. n : es[i].seq = m + i)
  <2>1. ASSUME \A i \in 1 .. Len(g) : g[i].seq = i
        PROVE  (\A i \in 1 .. m : f[i].seq = i) /\ (\A i \in 1 .. n : es[i].seq = m + i)
    <3>1. \A i \in 1 .. m : i \in 1 .. Len(g)
      BY <1>1
    <3>2. \A i \in 1 .. n : m + i \in 1 .. Len(g)
      BY <1>1
    <3>3. \A i \in 1 .. n : g[m + i].seq = m + i
      BY <2>1, <3>2
    <3>. QED
      BY <1>1, <2>1, <3>1, <3>3
  <2>2. ASSUME \A i \in 1 .. m : f[i].seq = i, \A i \in 1 .. n : es[i].seq = m + i,
               NEW i \in 1 .. Len(g)
        PROVE  g[i].seq = i
    <3>1. CASE i <= m
      BY <1>1, <2>2, <3>1
    <3>2. CASE i > m
      <4>1. PICK j \in 1 .. n : i = m + j
        BY <1>1, <3>2
      <4>. QED
        BY <1>1, <2>2, <4>1
    <3>. QED
      BY <1>1, <3>1, <3>2
  <2>. QED
    BY <2>1, <2>2
<1>. QED
  BY <1>2, <1>3, ReadableMeans DEF g, m, n

-----------------------------------------------------------------------------
(* What a call writes *)

\* The status of an action, in the view after the first of the events.
StatusAfter(es, i, a) == Views(view, es)[i].records[a].status

\* The events one call is about to write: numbered on, accepted one after the
\* other, in time, and, also if only the first of them are written, at most one
\* move of each action.
Planned(es) ==
  /\ es \in Seq(Event) /\ AcceptsAll(view, es)
  /\ \A i \in 1 .. Len(es) : es[i].seq = count + i /\ InTime(es[i])
  /\ \A i \in 0 .. Len(es) : \A a \in Actions :
       Lifecycle!Move(view.records[a].status, StatusAfter(es, i, a))

\* The first events of a sequence lead to the view after them.
LEMMA PrefixOf ==
  ASSUME NEW v, NEW es \in Seq(Event), NEW n \in 0 .. Len(es)
  PROVE  /\ SubSeq(es, 1, n) \in Seq(Event) /\ Len(SubSeq(es, 1, n)) = n
         /\ \A i \in 1 .. n : SubSeq(es, 1, n)[i] = es[i]
         /\ \A i \in 0 .. n : Views(v, SubSeq(es, 1, n))[i] = Views(v, es)[i]
         /\ ViewAfter(v, SubSeq(es, 1, n)) = Views(v, es)[n]
<1>. DEFINE g == SubSeq(es, 1, n)
<1>1. /\ g \in Seq(Event) /\ Len(g) = n /\ \A i \in 1 .. n : g[i] = es[i]
      /\ n \in Nat /\ Len(es) \in Nat /\ n <= Len(es)
  OBVIOUS
<1>. HIDE DEF g
<1>2. \A i \in 0 .. n : Views(v, g)[i] = Views(v, es)[i]
  <2>1. Len(g) \in Nat /\ n <= Len(g)
    BY <1>1
  <2>. QED
    BY <1>1, <2>1, ViewsOfPrefix
<1>. QED
  BY <1>1, <1>2 DEF ViewAfter, g

\* A call that fails, or a process that dies, has written a planned beginning.
LEMMA PlannedPrefix ==
  ASSUME NEW es, Planned(es), NEW n \in 0 .. Len(es)
  PROVE  Planned(SubSeq(es, 1, n)) /\ ViewAfter(view, SubSeq(es, 1, n)) = Views(view, es)[n]
<1>. DEFINE g == SubSeq(es, 1, n)
<1>1. /\ g \in Seq(Event) /\ Len(g) = n /\ \A i \in 1 .. n : g[i] = es[i]
      /\ \A i \in 0 .. n : Views(view, g)[i] = Views(view, es)[i]
      /\ ViewAfter(view, g) = Views(view, es)[n]
  <2>1. es \in Seq(Event)
    BY DEF Planned
  <2>. QED
    BY <2>1, PrefixOf
<1>. HIDE DEF g
<1>2. \A i \in 1 .. n : i \in 1 .. Len(es) /\ i - 1 \in 0 .. n /\ i \in 0 .. n
  BY DEF Planned
<1>3. AcceptsAll(view, g)
  BY <1>1, <1>2 DEF Planned, AcceptsAll
<1>4. \A i \in 0 .. n : i \in 0 .. Len(es)
  BY DEF Planned
<1>. QED
  BY <1>1, <1>2, <1>3, <1>4 DEF Planned, StatusAfter, g

\* One event is planned if it is accepted, has the next number and is in time.
LEMMA PlannedOne ==
  ASSUME view \in View, NEW e \in Event, e # TornLine, Accepts(view, e),
         e.seq = count + 1, InTime(e)
  PROVE  Planned(<<e>>) /\ ViewAfter(view, <<e>>) = Apply(view, e)
<1>. DEFINE es == <<e>>
<1>1. es \in Seq(Event) /\ Len(es) = 1 /\ es[1] = e
  OBVIOUS
<1>. HIDE DEF es
<1>2. Views(view, es)[0] = view /\ Views(view, es)[1] = Apply(view, e)
  BY <1>1, ViewsRecur
<1>3. AcceptsAll(view, es)
  BY <1>1, <1>2 DEF AcceptsAll
<1>4. ASSUME NEW a \in Actions
      PROVE  Lifecycle!Move(view.records[a].status, Apply(view, e).records[a].status)
  <2>1. CASE e.kind = "cycle_recorded"
    <3>1. \/ Apply(view, e).records[a].status = view.records[a].status
          \/ /\ view.records[a].status = "absent"
             /\ Apply(view, e).records[a].status \in {"none", "pending"}
      BY <2>1, CycleMoves
    <3>. QED
      BY <3>1 DEF Lifecycle!Move
  <2>2. CASE e.kind = "outcome_recorded"
    BY <2>2, EventMoves DEF Lifecycle!Move
  <2>3. CASE e.kind = "pending_resolved"
    <3>1. /\ e.subject \in Actions /\ e.status \in Verdicts
          /\ view.records[e.subject].status = "pending"
      BY <2>3, EventMoves
    <3>2. /\ a = e.subject => Apply(view, e).records[a].status = e.status
          /\ a # e.subject => Apply(view, e).records[a].status = view.records[a].status
      BY <2>3, EventKeepsVerdicts
    <3>. QED
      BY <3>1, <3>2 DEF Lifecycle!Move, Lifecycle!Verdicts, Verdicts
  <2>. QED
    BY <2>1, <2>2, <2>3, EventMoves
<1>5. \A i \in 0 .. Len(es) : \A a \in Actions :
        Lifecycle!Move(view.records[a].status, StatusAfter(es, i, a))
  <2>1. \A i \in 0 .. Len(es) : i = 0 \/ i = 1
    BY <1>1
  <2>2. \A a \in Actions : Lifecycle!Move(view.records[a].status, view.records[a].status)
    BY DEF Lifecycle!Move
  <2>. QED
    BY <1>2, <1>4, <2>1, <2>2 DEF StatusAfter
<1>6. \A i \in 1 .. Len(es) : es[i].seq = count + i /\ InTime(es[i])
  BY <1>1
<1>. QED
  BY <1>1, <1>2, <1>3, <1>5, <1>6 DEF Planned, ViewAfter, es

\* record_cycle and record_outcome.
LEMMA RecordsPlanned ==
  ASSUME HistoryTyped
  PROVE  /\ \A d \in Decisions : CanRecord(view, d) => Planned(<<Cycle(count + 1, d)>>)
         /\ \A a \in Actions : CanMeasure(view, a) => Planned(<<Outcome(count + 1, a)>>)
<1>1. view \in View /\ count + 1 \in Nat
  BY DEF HistoryTyped
<1>2. ASSUME NEW d \in Decisions, CanRecord(view, d)
      PROVE  Planned(<<Cycle(count + 1, d)>>)
  <2>. DEFINE e == Cycle(count + 1, d)
  <2>1. e \in Event /\ e # TornLine /\ Accepts(view, e) /\ e.seq = count + 1 /\ InTime(e)
    BY <1>1, <1>2 DEF Cycle, Event, TornLine, Accepts, InTime
  <2>. QED
    BY <1>1, <2>1, PlannedOne
<1>3. ASSUME NEW a \in Actions, CanMeasure(view, a)
      PROVE  Planned(<<Outcome(count + 1, a)>>)
  <2>. DEFINE e == Outcome(count + 1, a)
  <2>1. e \in Event /\ e # TornLine /\ Accepts(view, e) /\ e.seq = count + 1 /\ InTime(e)
    BY <1>1, <1>3 DEF Outcome, Event, TornLine, Accepts, InTime
  <2>. QED
    BY <1>1, <2>1, PlannedOne
<1>. QED
  BY <1>2, <1>3

LEMMA ResolutionTyped ==
  ASSUME NEW n \in Nat, NEW a \in Actions, NEW v \in Verdicts, NEW t \in Nat
  PROVE  Resolution(n, a, v, t) \in Event /\ Resolution(n, a, v, t) # TornLine
<1>1. Resolution(n, a, v, t).kind = "pending_resolved" /\ TornLine.kind = "torn"
  BY DEF Resolution, TornLine
<1>2. Resolution(n, a, v, t) \in [seq : Nat, kind : {"pending_resolved"}, subject : Actions,
                                 status : Verdicts, at : Nat]
  BY DEF Resolution
<1>. QED
  BY <1>1, <1>2 DEF Event

\* What is due is finite.
LEMMA DueFinite ==
  ASSUME HistoryTyped, NEW now
  PROVE  IsFiniteSet(Due(now)) /\ Cardinality(Due(now)) \in Nat
<1>1. Due(now) \subseteq Known(view) /\ IsFiniteSet(Known(view))
  BY DEF Due, Known, HistoryTyped
<1>. QED
  BY <1>1, FS_Subset, FS_CardinalityType

\* A sequence of as many different elements as a finite set has takes in all.
LEMMA OrdersCover ==
  ASSUME NEW D, IsFiniteSet(D), NEW n \in Nat, n = Cardinality(D), NEW o \in [1 .. n -> D],
         \A i, j \in 1 .. n : o[i] = o[j] => i = j, NEW a \in D
  PROVE  \E j \in 1 .. n : o[j] = a
<1>1. SUFFICES ASSUME \A j \in 1 .. n : o[j] # a
               PROVE  FALSE
  OBVIOUS
<1>2. IsFiniteSet(D \ {a}) /\ Cardinality(D \ {a}) = n - 1
  BY FS_RemoveElement
<1>3. IsFiniteSet(1 .. n) /\ Cardinality(1 .. n) = n
  BY FS_Interval
<1>4. o \in [1 .. n -> D \ {a}]
  BY <1>1
<1>. QED
  BY <1>2, <1>3, <1>4, FS_PigeonHole

\* expire_pending decides what is due, one action after the other, and nothing
\* else.
LEMMA SweepOf ==
  ASSUME HistoryTyped, NEW now \in Nat, NEW es \in Expiries(now)
  PROVE  /\ es \in Seq(Event) /\ AcceptsAll(view, es)
         /\ \A i \in 1 .. Len(es) :
              /\ es[i].seq = count + i /\ es[i].kind = "pending_resolved"
              /\ es[i].status = "expired" /\ InTime(es[i])
         /\ \A i \in 0 .. Len(es) : \A a \in Actions :
              \/ StatusAfter(es, i, a) = view.records[a].status
              \/ view.records[a].status = "pending" /\ StatusAfter(es, i, a) = "expired"
         /\ \A a \in Due(now) : ViewAfter(view, es).records[a].status = "expired"
<1>. DEFINE D == Due(now)
            n == Cardinality(D)
<1>1. IsFiniteSet(D) /\ n \in Nat /\ count \in Nat /\ view \in View
  BY DueFinite DEF HistoryTyped
<1>2. PICK o \in [1 .. n -> D] :
        /\ \A i, j \in 1 .. n : o[i] = o[j] => i = j
        /\ es = [i \in 1 .. n |-> Resolution(count + i, o[i], "expired", now)]
  BY DEF Expiries
<1>. HIDE DEF n
<1>3. /\ \A i \in 1 .. n : es[i] = Resolution(count + i, o[i], "expired", now)
      /\ \A i \in 1 .. n : es[i] \in Event /\ es[i] # TornLine
      /\ es \in Seq(Event) /\ Len(es) = n
  <2>1. \A i \in 1 .. n : o[i] \in Actions
    BY DEF Due
  <2>2. \A i \in 1 .. n : es[i] = Resolution(count + i, o[i], "expired", now)
    BY <1>2
  <2>3. \A i \in 1 .. n : es[i] \in Event /\ es[i] # TornLine
    BY <1>1, <2>1, <2>2, ResolutionTyped DEF Verdicts
  <2>. QED
    BY <1>1, <1>2, <2>2, <2>3
<1>4. \A i \in 1 .. n : InTime(es[i]) /\ es[i].seq = count + i
        /\ es[i].kind = "pending_resolved" /\ es[i].status = "expired" /\ es[i].subject = o[i]
  BY <1>3 DEF InTime, Due, Resolution
<1>. DEFINE Swept(i) ==
       /\ Views(view, es)[i] \in View
       /\ \A a \in Actions : StatusAfter(es, i, a) =
            IF \E j \in 1 .. i : o[j] = a THEN "expired" ELSE view.records[a].status
       S == {i \in 0 .. n : Swept(i)}
<1>5. Swept(0)
  BY <1>1, <1>3, ViewsRecur DEF StatusAfter
<1>6. ASSUME NEW i \in 1 .. n, Swept(i - 1)
      PROVE  Swept(i) /\ Accepts(Views(view, es)[i - 1], es[i])
  <2>. DEFINE v == Views(view, es)[i - 1]
              e == es[i]
  <2>1. v \in View /\ e \in Event /\ e # TornLine
    BY <1>3, <1>6
  <2>2. v.records[o[i]].status = "pending" /\ o[i] \in Actions
    <3>1. \A j \in 1 .. i - 1 : j \in 1 .. n /\ o[j] # o[i]
      BY <1>1, <1>2
    <3>2. o[i] \in Actions /\ view.records[o[i]].status = "pending"
      BY DEF Due
    <3>. QED
      BY <1>6, <3>1, <3>2 DEF StatusAfter
  <2>3. Accepts(v, e)
    BY <1>4, <2>2 DEF Accepts, CanResolve
  <2>4. Views(view, es)[i] = Apply(v, e)
    <3>1. Len(es) \in Nat /\ i \in 1 .. Len(es)
      BY <1>1, <1>3
    <3>. QED
      BY <3>1, ViewsRecur
  <2>5. /\ Apply(v, e) \in View
        /\ \A a \in Actions :
             /\ o[i] = a => Apply(v, e).records[a].status = "expired"
             /\ o[i] # a => Apply(v, e).records[a].status = v.records[a].status
    <3>. HIDE DEF v, e
    <3>1. Apply(v, e) \in View
      BY <2>1, <2>3, EventMoves
    <3>2. e.kind = "pending_resolved" /\ e.subject = o[i] /\ e.status = "expired"
      BY <1>4 DEF e
    <3>. QED
      BY <2>1, <2>3, <3>1, <3>2, EventKeepsVerdicts
  <2>6. \A a : (\E j \in 1 .. i : o[j] = a) <=> o[i] = a \/ \E j \in 1 .. i - 1 : o[j] = a
    BY <1>1
  <2>7. \A a \in Actions : v.records[a].status =
          IF \E j \in 1 .. i - 1 : o[j] = a THEN "expired" ELSE view.records[a].status
    BY <1>6 DEF StatusAfter
  <2>8. \A a \in Actions : StatusAfter(es, i, a) = Apply(v, e).records[a].status
    BY <2>4 DEF StatusAfter
  <2>. QED
    <3>. HIDE DEF v, e
    <3>. QED
      BY <2>3, <2>4, <2>5, <2>6, <2>7, <2>8 DEF v, e
<1>7. \A i \in 0 .. n : Swept(i)
  <2>1. 0 \in S
    BY <1>1, <1>5
  <2>2. ASSUME NEW i \in 1 .. n, i - 1 \in S
        PROVE  i \in S
    BY <1>6, <2>2
  <2>3. 0 .. n \subseteq S
    <3>. HIDE DEF S
    <3>. QED
      BY <1>1, <2>1, <2>2, UpTo
  <2>. QED
    BY <2>3
<1>8. AcceptsAll(view, es)
  <2>1. \A i \in 1 .. n : i - 1 \in 0 .. n
    BY <1>1
  <2>. HIDE DEF Swept
  <2>. QED
    BY <1>3, <1>6, <1>7, <2>1 DEF AcceptsAll
<1>9. \A a \in D : ViewAfter(view, es).records[a].status = "expired"
  <2>1. \A a \in D : \E j \in 1 .. n : o[j] = a
    <3>1. n = Cardinality(D)
      BY DEF n
    <3>2. /\ IsFiniteSet(D) /\ n \in Nat /\ o \in [1 .. n -> D]
          /\ \A i, j \in 1 .. n : o[i] = o[j] => i = j
      BY <1>1, <1>2
    <3>. HIDE DEF D
    <3>. QED
      BY <3>1, <3>2, OrdersCover, SMT
  <2>2. n \in 0 .. n /\ D \subseteq Actions
    BY <1>1 DEF Due
  <2>. QED
    BY <1>3, <1>7, <2>1, <2>2 DEF StatusAfter, ViewAfter
<1>10. \A i \in 0 .. n : \A a \in Actions :
         \/ StatusAfter(es, i, a) = view.records[a].status
         \/ view.records[a].status = "pending" /\ StatusAfter(es, i, a) = "expired"
  <2>1. \A i \in 0 .. n : \A j \in 1 .. i : j \in 1 .. n /\ view.records[o[j]].status = "pending"
    BY <1>1 DEF Due
  <2>. QED
    BY <1>7, <2>1
<1>. QED
  BY <1>3, <1>4, <1>8, <1>9, <1>10

LEMMA SweepPlanned ==
  ASSUME HistoryTyped, NEW now \in Nat, NEW es \in Expiries(now)
  PROVE  Planned(es)
<1>1. ASSUME NEW i \in 0 .. Len(es), NEW a \in Actions
      PROVE  Lifecycle!Move(view.records[a].status, StatusAfter(es, i, a))
  BY SweepOf DEF Lifecycle!Move, Lifecycle!Verdicts
<1>. QED
  BY <1>1, SweepOf DEF Planned

\* A resolution may follow planned events if its action is pending before and
\* after them.
LEMMA PlannedAppend ==
  ASSUME view \in View, count \in Nat, NEW xs, Planned(xs), NEW r \in Event, r # TornLine,
         r.kind = "pending_resolved", view.records[r.subject].status = "pending",
         Accepts(ViewAfter(view, xs), r), r.seq = count + Len(xs) + 1, InTime(r)
  PROVE  /\ Planned(Append(xs, r))
         /\ ViewAfter(view, Append(xs, r)).records[r.subject].status = r.status
<1>. DEFINE es == xs \o <<r>>
            n == Len(xs)
            V == ViewAfter(view, xs)
<1>1. xs \in Seq(Event) /\ AcceptsAll(view, xs) /\ <<r>> \in Seq(Event)
  BY DEF Planned
<1>2. /\ es = Append(xs, r) /\ es \in Seq(Event) /\ n \in Nat /\ Len(es) = n + 1
      /\ \A i \in 1 .. n : es[i] = xs[i]
      /\ es[n + 1] = r /\ Len(<<r>>) = 1 /\ <<r>>[1] = r
  BY <1>1
<1>3. V \in View
  <2>1. n \in 0 .. n
    BY <1>2
  <2>. QED
    BY <1>1, <2>1, ViewsTyped DEF ViewAfter
<1>4. AcceptsAll(V, <<r>>) /\ ViewAfter(V, <<r>>) = Apply(V, r)
  <2>. DEFINE one == <<r>>
  <2>1. Len(one) = 1 /\ one[1] = r
    BY <1>2
  <2>. HIDE DEF one
  <2>2. Views(V, one)[0] = V /\ Views(V, one)[1] = Apply(V, r)
    BY <2>1, ViewsRecur
  <2>3. AcceptsAll(V, one) /\ ViewAfter(V, one) = Apply(V, r)
    BY <2>1, <2>2 DEF AcceptsAll, ViewAfter
  <2>. QED
    BY <2>3 DEF one
<1>5. AcceptsAll(view, es)
  BY <1>1, <1>4, AcceptsBoth
<1>6. /\ \A i \in 0 .. n : Views(view, es)[i] = Views(view, xs)[i]
      /\ ViewAfter(view, es) = Apply(V, r)
  <2>1. /\ \A i \in 0 .. Len(xs) : Views(view, xs \o <<r>>)[i] = Views(view, xs)[i]
        /\ ViewAfter(view, xs \o <<r>>) = ViewAfter(V, <<r>>)
    <3>. DEFINE one == <<r>>
    <3>1. one \in Seq(Event)
      BY <1>1
    <3>. HIDE DEF one
    <3>2. /\ \A i \in 0 .. Len(xs) : Views(view, xs \o one)[i] = Views(view, xs)[i]
          /\ ViewAfter(view, xs \o one) = ViewAfter(ViewAfter(view, xs), one)
      BY <1>1, <3>1, ViewsResume
    <3>. QED
      BY <3>2 DEF one
  <2>. QED
    BY <1>4, <2>1
<1>. HIDE DEF es
<1>7. /\ r.subject \in Actions /\ r.status \in Verdicts
      /\ Apply(V, r).records[r.subject].status = r.status
      /\ \A a \in Actions : a # r.subject => Apply(V, r).records[a].status = V.records[a].status
  <2>1. r.subject \in Actions /\ r.status \in Verdicts
    BY <1>3, EventMoves
  <2>. QED
    BY <1>3, <2>1, EventKeepsVerdicts
<1>8. ASSUME NEW i \in 0 .. Len(es), NEW a \in Actions
      PROVE  Lifecycle!Move(view.records[a].status, StatusAfter(es, i, a))
  <2>1. CASE i <= n
    <3>1. i \in 0 .. n
      BY <1>2, <2>1
    <3>2. Lifecycle!Move(view.records[a].status, StatusAfter(xs, i, a))
      BY <3>1 DEF Planned
    <3>. QED
      BY <1>6, <3>1, <3>2 DEF StatusAfter
  <2>2. CASE i > n
    <3>1. i = Len(es)
      BY <1>2, <2>2
    <3>2. StatusAfter(es, i, a) = Apply(V, r).records[a].status
      BY <1>6, <3>1 DEF StatusAfter, ViewAfter
    <3>3. CASE a = r.subject
      BY <1>7, <3>2, <3>3 DEF Lifecycle!Move, Lifecycle!Verdicts, Verdicts
    <3>4. CASE a # r.subject
      <4>1. n \in 0 .. n
        BY <1>2
      <4>2. Lifecycle!Move(view.records[a].status, StatusAfter(xs, n, a))
        BY <4>1 DEF Planned
      <4>. QED
        BY <1>7, <3>2, <3>4, <4>2 DEF StatusAfter, ViewAfter
    <3>. QED
      BY <3>3, <3>4
  <2>. QED
    BY <1>2, <2>1, <2>2
<1>9. ASSUME NEW i \in 1 .. Len(es)
      PROVE  es[i].seq = count + i /\ InTime(es[i])
  <2>1. CASE i \in 1 .. n
    BY <1>2, <2>1 DEF Planned
  <2>2. CASE i \notin 1 .. n
    <3>1. i = n + 1
      BY <1>2, <2>2
    <3>2. count + n + 1 = count + i
      BY <1>2, <3>1
    <3>. QED
      BY <1>2, <3>1, <3>2
  <2>. QED
    BY <2>1, <2>2
<1>. QED
  BY <1>2, <1>5, <1>6, <1>7, <1>8, <1>9 DEF Planned

\* resolve_pending expires what is due before it gives the owner's verdict, which
\* is therefore in time, and the last thing it writes.
LEMMA ResolutionsPlanned ==
  ASSUME HistoryTyped, NEW w \in Workflows, flow[w].pc # "idle", NEW es \in ResolutionsOf(w)
  PROVE  /\ Planned(es)
         /\ Resolves(w, es) =>
              ViewAfter(view, es).records[flow[w].action].status = flow[w].verdict
<1>. DEFINE a == flow[w].action
            now == flow[w].now
<1>1. /\ a \in Actions /\ now \in Nat /\ flow[w].verdict \in {"approved", "vetoed"}
      /\ view \in View /\ count \in Nat
  BY DEF HistoryTyped, Flow
<1>2. PICK xs \in Expiries(now) :
        es = IF CanResolve(ViewAfter(view, xs), a)
             THEN Append(xs, Resolution(count + Len(xs) + 1, a, flow[w].verdict, now))
             ELSE xs
  BY DEF ResolutionsOf
<1>. HIDE DEF a, now
<1>3. Planned(xs)
  BY <1>1, SweepPlanned
<1>4. CASE es = xs
  <2>1. ~Resolves(w, es)
    <3>1. es # <<>> => Len(es) \in 1 .. Len(es)
      BY <1>3, <1>4 DEF Planned
    <3>2. \A i \in 1 .. Len(es) : es[i].status = "expired"
      BY <1>1, <1>4, SweepOf
    <3>. QED
      BY <1>1, <3>1, <3>2 DEF Resolves
  <2>. QED
    BY <1>3, <1>4, <2>1
<1>5. CASE CanResolve(ViewAfter(view, xs), a)
  <2>. DEFINE r == Resolution(count + Len(xs) + 1, a, flow[w].verdict, now)
  <2>1. Len(xs) \in Nat /\ Len(xs) \in 0 .. Len(xs)
    BY <1>3 DEF Planned
  <2>2. /\ r \in Event /\ r # TornLine /\ r.kind = "pending_resolved" /\ r.subject = a
        /\ r.seq = count + Len(xs) + 1 /\ r.at = now /\ r.status = flow[w].verdict
    <3>1. count + Len(xs) + 1 \in Nat /\ flow[w].verdict \in Verdicts
      BY <1>1, <2>1 DEF Verdicts
    <3>. QED
      BY <1>1, <3>1, ResolutionTyped DEF Resolution
  <2>3. view.records[a].status = "pending" /\ a \notin Due(now)
    <3>1. ViewAfter(view, xs).records[a].status = "pending"
      BY <1>5 DEF CanResolve
    <3>2. a \notin Due(now)
      BY <1>1, <3>1, SweepOf
    <3>3. \/ StatusAfter(xs, Len(xs), a) = view.records[a].status
          \/ StatusAfter(xs, Len(xs), a) = "expired"
      BY <1>1, <2>1, SweepOf
    <3>. QED
      BY <3>1, <3>2, <3>3 DEF StatusAfter, ViewAfter
  <2>4. InTime(r)
    <3>1. ~(ExpiresAt[a] <= now)
      BY <1>1, <2>3 DEF Due
    <3>. QED
      BY <1>1, <2>2, <3>1 DEF InTime
  <2>5. Accepts(ViewAfter(view, xs), r)
    BY <1>5, <2>2 DEF Accepts
  <2>6. es = Append(xs, r)
    BY <1>2, <1>5
  <2>. HIDE DEF r
  <2>7. Planned(Append(xs, r)) /\ ViewAfter(view, Append(xs, r)).records[r.subject].status = r.status
    BY <1>1, <1>3, <2>2, <2>3, <2>4, <2>5, PlannedAppend
  <2>. QED
    BY <2>2, <2>6, <2>7 DEF a
<1>. QED
  BY <1>2, <1>4, <1>5

-----------------------------------------------------------------------------
(* The shapes of a step *)

\* At most one reply reports, of one action, the verdict in a view.
Reported(v) ==
  \/ told' = told
  \/ \E a \in Actions :
       told' = [told EXCEPT ![a] = @ \cup ({v.records[a].status} \cap Verdicts)]

\* Nothing is written.
Quiet ==
  UNCHANGED <<up, historyVars, faults>> /\ (told' = told \/ (up /\ Reported(view)))

\* All that was planned is written.
Succeeds(g) ==
  /\ up /\ up' = up /\ Planned(g)
  /\ Commit(g) /\ UNCHANGED faults /\ Reported(view')

\* One more line than the view knows may be written, whole or torn.
FailsAfter(g) ==
  /\ up /\ up' = up /\ Planned(g) /\ faults < MaxFaults /\ faults' = faults + 1
  /\ \E e \in Event : InTime(e) /\ file' \in {file \o g, Append(file \o g, e)}
  /\ count' \in Nat /\ view' = ViewAfter(view, g) /\ UNCHANGED told

\* The process has gone, and may have written the first of its lines.
Dies ==
  /\ up /\ up' = FALSE /\ count' = 0 /\ view' = NoView /\ UNCHANGED told
  /\ \/ UNCHANGED <<file, faults>>
     \/ (\E g : Planned(g) /\ file' = file \o g) /\ UNCHANGED faults
     \/ faults < MaxFaults /\ faults' = faults + 1 /\ file' = Append(file, TornLine)

LEMMA FailureShape ==
  ASSUME HistoryTyped, NEW es, Planned(es), CommitFails(es), up, up' = up, told' = told
  PROVE  \E g : FailsAfter(g)
<1>1. PICK i \in 1 .. Len(es) :
        /\ file' \in {file \o SubSeq(es, 1, i - 1), file \o SubSeq(es, 1, i),
                      file \o Append(SubSeq(es, 1, i - 1), TornLine)}
        /\ count' = count + i - 1
        /\ view' = ViewAfter(view, SubSeq(es, 1, i - 1))
  BY DEF CommitFails
<1>2. /\ es \in Seq(Event) /\ file \in Seq(Event) /\ count \in Nat
      /\ i - 1 \in 0 .. Len(es) /\ i \in 0 .. Len(es) /\ i \in Nat \ {0}
  BY DEF Planned, HistoryTyped
<1>. DEFINE g == SubSeq(es, 1, i - 1)
<1>3. Planned(g) /\ g \in Seq(Event)
  BY <1>2, PlannedPrefix, PrefixOf
<1>4. TornLine \in Event /\ InTime(TornLine)
  BY DEF Event, TornLine, InTime
<1>5. es[i] \in Event /\ InTime(es[i])
  BY <1>2 DEF Planned
<1>6. SubSeq(es, 1, i) = Append(g, es[i])
  BY <1>2
<1>7. \A e \in Event : file \o Append(g, e) = Append(file \o g, e)
  BY <1>2, <1>3
<1>8. faults < MaxFaults /\ faults' = faults + 1 /\ count' \in Nat
  BY <1>1, <1>2 DEF CommitFails
<1>. HIDE DEF g
<1>9. \E e \in Event : InTime(e) /\ file' \in {file \o g, Append(file \o g, e)}
  BY <1>1, <1>4, <1>5, <1>6, <1>7 DEF g
<1>. QED
  BY <1>1, <1>3, <1>8, <1>9 DEF FailsAfter, g

LEMMA WriteShape ==
  ASSUME HistoryTyped, NEW es, Planned(es), Write(es), up, up' = up, told' = told
  PROVE  \E g : Succeeds(g) \/ FailsAfter(g)
<1>1. CASE Commit(es) /\ UNCHANGED faults
  BY <1>1 DEF Succeeds, Reported
<1>2. CASE CommitFails(es)
  BY <1>2, FailureShape
<1>. QED
  BY <1>1, <1>2 DEF Write

\* Every step has one of the shapes.
LEMMA StepShape ==
  ASSUME HistoryTyped, Next
  PROVE  \/ Quiet \/ Dies \/ Restart
         \/ \E g : Succeeds(g) \/ FailsAfter(g)
<1>1. CASE \E d \in Decisions : RecordCycle(d)
  <2>1. PICK d \in Decisions : RecordCycle(d)
    BY <1>1
  <2>2. Planned(<<Cycle(count + 1, d)>>)
    BY <2>1, RecordsPlanned DEF RecordCycle
  <2>. QED
    BY <2>1, <2>2, WriteShape DEF RecordCycle
<1>2. CASE \E a \in Measured : RecordOutcome(a)
  <2>1. PICK a \in Measured : RecordOutcome(a)
    BY <1>2
  <2>2. Planned(<<Outcome(count + 1, a)>>)
    BY <2>1, RecordsPlanned, HistoryAssumption DEF RecordOutcome
  <2>. QED
    BY <2>1, <2>2, WriteShape DEF RecordOutcome
<1>3. CASE ListPending
  <2>1. PICK es \in Expiries(clock) : Write(es)
    BY <1>3 DEF ListPending
  <2>2. Planned(es)
    BY SweepPlanned DEF HistoryTyped
  <2>. QED
    BY <1>3, <2>1, <2>2, WriteShape DEF ListPending
<1>4. CASE \E w \in Workflows, a \in Actions, v \in {"approved", "vetoed"} : Command(w, a, v)
  BY <1>4 DEF Command, Quiet, historyVars, budgetVars
<1>5. ASSUME NEW w \in Workflows, Step(w)
      PROVE  Quiet \/ (\E g : Succeeds(g) \/ FailsAfter(g))
  <2>1. up /\ flow[w].action \in Actions /\ flow[w].now \in Nat /\ flow[w].pc # "idle"
    <3>1. flow[w].pc # "idle"
      BY <1>5 DEF Step, ExpireFirst, Lookup, ResolvePending, Reread
    <3>. QED
      BY <3>1 DEF HistoryTyped, Flow
  <2>2. CASE ExpireFirst(w)
    <3>1. PICK es \in Expiries(flow[w].now) :
            (Commit(es) /\ UNCHANGED faults) \/ CommitFails(es)
      BY <2>2 DEF ExpireFirst
    <3>2. Planned(es) /\ up' = up /\ told' = told
      BY <2>1, <2>2, SweepPlanned DEF ExpireFirst
    <3>. QED
      BY <2>1, <3>1, <3>2, WriteShape DEF Write
  <2>3. CASE Lookup(w)
    BY <2>1, <2>3 DEF Lookup, Reply, StatusOf, Quiet, Reported, historyVars, budgetVars
  <2>4. CASE ResolvePending(w)
    <3>1. PICK es \in ResolutionsOf(w) :
            \/ /\ Commit(es) /\ UNCHANGED faults
               /\ (Resolves(w, es) /\ Reply(w, flow[w].verdict)) \/ told' = told
            \/ CommitFails(es) /\ told' = told
      BY <2>4 DEF ResolvePending
    <3>2. up' = up
      BY <2>4 DEF ResolvePending
    <3>3. /\ Planned(es)
          /\ Resolves(w, es) =>
               ViewAfter(view, es).records[flow[w].action].status = flow[w].verdict
      BY <2>1, ResolutionsPlanned
    <3>4. CASE Commit(es) /\ UNCHANGED faults /\ told' = told
      BY <2>1, <3>2, <3>3, <3>4 DEF Succeeds, Reported
    <3>5. CASE Commit(es) /\ UNCHANGED faults /\ Resolves(w, es) /\ Reply(w, flow[w].verdict)
      <4>1. view'.records[flow[w].action].status = flow[w].verdict
        BY <3>3, <3>5 DEF Commit
      <4>2. Reported(view')
        BY <2>1, <3>5, <4>1 DEF Reply, Reported
      <4>. QED
        BY <2>1, <3>2, <3>3, <3>5, <4>2 DEF Succeeds
    <3>6. CASE CommitFails(es) /\ told' = told
      BY <2>1, <3>2, <3>3, <3>6, FailureShape
    <3>. QED
      BY <3>1, <3>4, <3>5, <3>6
  <2>5. CASE Reread(w)
    BY <2>1, <2>5 DEF Reread, Reply, StatusOf, Quiet, Reported, historyVars, budgetVars
  <2>. QED
    BY <1>5, <2>2, <2>3, <2>4, <2>5 DEF Step
<1>6. CASE Crash
  <2>1. ASSUME NEW w \in Workflows, flow[w].pc \in {"expire", "resolve"},
               NEW es \in IF flow[w].pc = "expire" THEN Expiries(flow[w].now)
                          ELSE ResolutionsOf(w),
               NEW i \in 1 .. Len(es), file' = file \o SubSeq(es, 1, i)
        PROVE  \E g : Planned(g) /\ file' = file \o g
    <3>1. flow[w].pc # "idle" /\ flow[w].now \in Nat
      BY <2>1 DEF HistoryTyped, Flow
    <3>2. Planned(es)
      BY <2>1, <3>1, SweepPlanned, ResolutionsPlanned
    <3>3. i \in 0 .. Len(es)
      OBVIOUS
    <3>. QED
      BY <2>1, <3>2, <3>3, PlannedPrefix
  <2>. QED
    BY <1>6, <2>1 DEF Crash, Dies
<1>7. CASE Tick
  BY <1>7 DEF Tick, Quiet, historyVars, budgetVars
<1>. QED
  BY <1>1, <1>2, <1>3, <1>4, <1>5, <1>6, <1>7 DEF Next

-----------------------------------------------------------------------------
(* Types *)

LEMMA PlannedTyped ==
  ASSUME HistoryTyped, NEW g, Planned(g)
  PROVE  /\ g \in Seq(Event) /\ Len(g) \in Nat
         /\ ViewAfter(view, g) \in View /\ IsFiniteSet(Known(ViewAfter(view, g)))
<1>1. g \in Seq(Event) /\ AcceptsAll(view, g) /\ view \in View /\ IsFiniteSet(Known(view))
  BY DEF Planned, HistoryTyped
<1>2. Len(g) \in Nat /\ Len(g) \in 0 .. Len(g)
  BY <1>1
<1>. QED
  BY <1>1, <1>2, ViewsTyped DEF ViewAfter

LEMMA ReadableTyped ==
  ASSUME NEW f \in Seq(Event), Readable(f)
  PROVE  /\ AcceptsAll(NoView, f) /\ Len(f) \in Nat
         /\ ViewAfter(NoView, f) \in View /\ IsFiniteSet(Known(ViewAfter(NoView, f)))
<1>1. Len(f) \in Nat /\ Len(f) \in 0 .. Len(f)
  OBVIOUS
<1>2. AcceptsAll(NoView, f)
  BY ReadableMeans
<1>. QED
  BY <1>1, <1>2, NoViewTyped, ViewsTyped DEF ViewAfter

\* The history and what was told.
LEMMA ShapesTyped ==
  ASSUME HistoryTyped, Next
  PROVE  /\ up' \in BOOLEAN /\ file' \in Seq(Event) /\ count' \in Nat
         /\ view' \in View /\ IsFiniteSet(Known(view'))
         /\ told' \in [Actions -> SUBSET Verdicts]
<1>. DEFINE Goal == /\ up' \in BOOLEAN /\ file' \in Seq(Event) /\ count' \in Nat
                    /\ view' \in View /\ IsFiniteSet(Known(view'))
                    /\ told' \in [Actions -> SUBSET Verdicts]
<1>1. /\ up \in BOOLEAN /\ file \in Seq(Event) /\ count \in Nat
      /\ view \in View /\ IsFiniteSet(Known(view)) /\ told \in [Actions -> SUBSET Verdicts]
  BY DEF HistoryTyped
<1>2. \A v : Reported(v) => told' \in [Actions -> SUBSET Verdicts]
  BY <1>1 DEF Reported
<1>3. CASE Quiet
  BY <1>1, <1>2, <1>3 DEF Quiet, historyVars
<1>4. ASSUME NEW g, Succeeds(g)
      PROVE  Goal
  <2>1. /\ g \in Seq(Event) /\ Len(g) \in Nat
        /\ view' \in View /\ IsFiniteSet(Known(view'))
    BY <1>4, PlannedTyped DEF Succeeds, Commit
  <2>2. file' \in Seq(Event) /\ count' \in Nat
    BY <1>1, <1>4, <2>1 DEF Succeeds, Commit
  <2>. QED
    BY <1>1, <1>2, <1>4, <2>1, <2>2 DEF Succeeds
<1>5. ASSUME NEW g, FailsAfter(g)
      PROVE  Goal
  <2>1. /\ g \in Seq(Event) /\ Len(g) \in Nat
        /\ view' \in View /\ IsFiniteSet(Known(view'))
    BY <1>5, PlannedTyped DEF FailsAfter
  <2>2. file' \in Seq(Event) /\ count' \in Nat
    <3>1. file \o g \in Seq(Event)
      BY <1>1, <2>1
    <3>2. \A e \in Event : Append(file \o g, e) \in Seq(Event)
      BY <3>1
    <3>. QED
      BY <1>5, <3>1, <3>2 DEF FailsAfter
  <2>. QED
    BY <1>1, <1>5, <2>1, <2>2 DEF FailsAfter
<1>6. CASE Dies
  <2>1. TornLine \in Event
    BY DEF Event
  <2>2. \A g : Planned(g) => g \in Seq(Event)
    BY PlannedTyped
  <2>3. file' \in Seq(Event)
    <3>1. \A g : Planned(g) => file \o g \in Seq(Event)
      BY <1>1, <2>2
    <3>2. Append(file, TornLine) \in Seq(Event)
      BY <1>1, <2>1
    <3>. QED
      BY <1>1, <1>6, <3>1, <3>2 DEF Dies
  <2>. QED
    BY <1>1, <1>6, <2>3, NoViewTyped DEF Dies
<1>7. CASE Restart
  BY <1>1, <1>7, ReadableTyped DEF Restart
<1>. QED
  <2>. HIDE DEF Goal
  <2>. QED
    BY <1>3, <1>4, <1>5, <1>6, <1>7, StepShape DEF Goal

\* The commands in progress.
LEMMA FlowTyped ==
  ASSUME HistoryTyped, Next
  PROVE  /\ flow' \in [Workflows -> Flow]
         /\ \A w \in Workflows : flow'[w].pc # "idle" => up' /\ flow'[w].action \in Actions
<1>. DEFINE Goal == /\ flow' \in [Workflows -> Flow]
                    /\ \A w \in Workflows :
                         flow'[w].pc # "idle" => up' /\ flow'[w].action \in Actions
            Labels == {"idle", "expire", "lookup", "resolve", "reread"}
<1>1. /\ flow \in [Workflows -> Flow] /\ clock \in Nat
      /\ \A w \in Workflows : flow[w].pc # "idle" => up /\ flow[w].action \in Actions
  BY DEF HistoryTyped
<1>2. IdleFlow \in Flow /\ IdleFlow.pc = "idle"
  BY DEF IdleFlow, Flow
<1>3. ASSUME UNCHANGED <<up, flow>> \/ (~up /\ UNCHANGED flow)
      PROVE  Goal
  BY <1>1, <1>3
<1>4. ASSUME NEW w \in Workflows, NEW label \in Labels, Goto(w, label), up' = up,
             flow[w].pc # "idle"
      PROVE  Goal
  <2>1. flow[w] \in Flow /\ up /\ flow[w].action \in Actions
    BY <1>1, <1>4
  <2>2. flow' = [flow EXCEPT ![w] = [flow[w] EXCEPT !.pc = label]]
    BY <1>4 DEF Goto
  <2>3. [flow[w] EXCEPT !.pc = label] \in Flow
        /\ [flow[w] EXCEPT !.pc = label].action = flow[w].action
    BY <2>1 DEF Flow
  <2>. QED
    BY <1>1, <1>4, <2>1, <2>2, <2>3
<1>5. ASSUME NEW w \in Workflows, Finish(w), up' = up
      PROVE  Goal
  BY <1>1, <1>2, <1>5 DEF Finish
<1>6. ASSUME NEW w \in Workflows, NEW a \in Actions, NEW v \in {"approved", "vetoed"},
             Command(w, a, v)
      PROVE  Goal
  <2>. DEFINE c == [pc |-> "expire", action |-> a, verdict |-> v, now |-> clock]
  <2>1. c \in Flow /\ c.action \in Actions
    BY <1>1 DEF Flow
  <2>2. flow' = [flow EXCEPT ![w] = c] /\ up /\ up' = up
    BY <1>6 DEF Command
  <2>. HIDE DEF c
  <2>. QED
    BY <1>1, <2>1, <2>2
<1>7. ASSUME NEW w \in Workflows, Step(w)
      PROVE  Goal
  <2>1. flow[w].pc # "idle" /\ up' = up
    BY <1>7 DEF Step, ExpireFirst, Lookup, ResolvePending, Reread
  <2>2. Finish(w) \/ \E label \in Labels : Goto(w, label)
    BY <1>7 DEF Step, ExpireFirst, Lookup, ResolvePending, Reread, Reply
  <2>. HIDE DEF Goal, Labels
  <2>. QED
    BY <1>4, <1>5, <2>1, <2>2
<1>8. CASE Crash
  BY <1>2, <1>8 DEF Crash
<1>9. CASE Restart
  BY <1>3, <1>9 DEF Restart
<1>10. ASSUME UNCHANGED <<up, flow>>
       PROVE  Goal
  BY <1>3, <1>10
<1>11. (\E d \in Decisions : RecordCycle(d)) \/ (\E a \in Measured : RecordOutcome(a))
       \/ ListPending \/ Tick => UNCHANGED <<up, flow>>
  BY DEF RecordCycle, RecordOutcome, ListPending, Tick
<1>. QED
  <2>. HIDE DEF Goal
  <2>. QED
    BY <1>6, <1>7, <1>8, <1>9, <1>10, <1>11 DEF Next, Goal

LEMMA CountersTyped ==
  ASSUME HistoryTyped, Next
  PROVE  clock' \in Nat /\ faults' \in Nat /\ crashes' \in Nat
<1>1. clock \in Nat /\ faults \in Nat /\ crashes \in Nat
  BY DEF HistoryTyped
<1>2. /\ \A es : CommitFails(es) => faults' \in Nat
      /\ \A es : Write(es) => faults' \in Nat
  BY <1>1 DEF CommitFails, Write
<1>3. (\E w \in Workflows : Step(w)) => faults' \in Nat /\ UNCHANGED <<clock, crashes>>
  BY <1>1, <1>2 DEF Step, ExpireFirst, Lookup, ResolvePending, Reread, budgetVars
<1>4. (\E d \in Decisions : RecordCycle(d)) \/ (\E a \in Measured : RecordOutcome(a))
      \/ ListPending => faults' \in Nat /\ UNCHANGED <<clock, crashes>>
  BY <1>2 DEF RecordCycle, RecordOutcome, ListPending
<1>5. (\E w \in Workflows, a \in Actions, v \in {"approved", "vetoed"} : Command(w, a, v))
        => UNCHANGED <<clock, faults, crashes>>
  BY DEF Command, budgetVars
<1>6. Crash \/ Restart \/ Tick => clock' \in Nat /\ faults' \in Nat /\ crashes' \in Nat
  BY <1>1 DEF Crash, Restart, Tick, budgetVars
<1>. QED
  BY <1>1, <1>3, <1>4, <1>5, <1>6 DEF Next

\* Every variable of the history keeps its type, only a running process has
\* commands in progress, and the history stays finite.
THEOREM HistoryTypeCorrect == Spec => []HistoryTyped
<1>1. ASSUME Init
      PROVE  HistoryTyped
  <2>1. flow \in [Workflows -> Flow] /\ \A w \in Workflows : flow[w].pc = "idle"
    BY <1>1 DEF Init, IdleFlow, Flow
  <2>2. file \in Seq(Event) /\ told \in [Actions -> SUBSET Verdicts]
    BY <1>1 DEF Init
  <2>. QED
    BY <1>1, <2>1, <2>2, NoViewTyped DEF Init, HistoryTyped
<1>2. ASSUME HistoryTyped, [Next]_vars
      PROVE  HistoryTyped'
  <2>1. CASE Next
    <3>1. Known(view)' = Known(view')
      BY DEF Known
    <3>. QED
      BY <1>2, <2>1, <3>1, ShapesTyped, FlowTyped, CountersTyped DEF HistoryTyped
  <2>2. CASE UNCHANGED vars
    BY <1>2, <2>2 DEF HistoryTyped, vars, historyVars, budgetVars, Known
  <2>. QED
    BY <1>2, <2>1, <2>2
<1>. QED
  BY <1>1, <1>2, PTL DEF Spec

-----------------------------------------------------------------------------
(* Verdicts are in time *)

LEMMA JoinedLines ==
  ASSUME NEW f \in Seq(Event), NEW g \in Seq(Event), NEW i \in 1 .. Len(f \o g)
  PROVE  \/ \E j \in 1 .. Len(f) : (f \o g)[i] = f[j]
         \/ \E j \in 1 .. Len(g) : (f \o g)[i] = g[j]
<1>1. CASE i <= Len(f)
  BY <1>1
<1>2. CASE i > Len(f)
  BY <1>2
<1>. QED
  BY <1>1, <1>2

\* Whatever is written, also in part or torn, is in time.
LEMMA LinesInTime ==
  ASSUME HistoryTyped, VerdictsInTime, Next
  PROVE  VerdictsInTime'
<1>. DEFINE Good(f) == f \in Seq(Event) /\ \A i \in 1 .. Len(f) : InTime(f[i])
<1>1. Good(file)
  BY DEF HistoryTyped, VerdictsInTime
<1>2. ASSUME NEW g, Planned(g)
      PROVE  Good(file \o g)
  <2>1. g \in Seq(Event) /\ \A i \in 1 .. Len(g) : InTime(g[i])
    BY <1>2 DEF Planned
  <2>2. \A i \in 1 .. Len(file \o g) : InTime((file \o g)[i])
    BY <1>1, <2>1, JoinedLines
  <2>. QED
    BY <1>1, <2>1, <2>2
<1>3. ASSUME NEW f, Good(f), NEW e \in Event, InTime(e)
      PROVE  Good(Append(f, e))
  <2>1. ASSUME NEW i \in 1 .. Len(Append(f, e))
        PROVE  Append(f, e)[i] = e \/ (i \in 1 .. Len(f) /\ Append(f, e)[i] = f[i])
    BY <1>3
  <2>. QED
    BY <1>3, <2>1
<1>4. TornLine \in Event /\ InTime(TornLine)
  BY DEF Event, TornLine, InTime
<1>5. Good(file')
  <2>. HIDE DEF Good
  <2>1. Quiet \/ Restart => file' = file
    BY DEF Quiet, Restart, historyVars
  <2>2. \A g : Succeeds(g) => Planned(g) /\ file' = file \o g
    BY DEF Succeeds, Commit
  <2>3. ASSUME NEW g, FailsAfter(g)
        PROVE  Good(file')
    <3>1. PICK e \in Event : InTime(e) /\ file' \in {file \o g, Append(file \o g, e)}
      BY <2>3 DEF FailsAfter
    <3>. QED
      BY <1>2, <1>3, <2>3, <3>1 DEF FailsAfter
  <2>4. Dies => \/ file' = file \/ file' = Append(file, TornLine)
               \/ \E g : Planned(g) /\ file' = file \o g
    BY DEF Dies
  <2>. QED
    BY <1>1, <1>2, <1>3, <1>4, <2>1, <2>2, <2>3, <2>4, StepShape
<1>6. \A e : InTime(e)' <=> InTime(e)
  BY DEF InTime
<1>. QED
  BY <1>5, <1>6 DEF VerdictsInTime

\* The owner's verdicts are given before the deadline and the deadline's not
\* before it, whatever is commanded, fails or is restarted (expire_pending,
\* before every resolution).
THEOREM InTimeAlways == Spec => []VerdictsInTime
<1>1. Init => VerdictsInTime
  BY DEF Init, VerdictsInTime
<1>2. ASSUME HistoryTyped, VerdictsInTime, [Next]_vars
      PROVE  VerdictsInTime'
  <2>1. CASE Next
    BY <1>2, <2>1, LinesInTime
  <2>2. CASE UNCHANGED vars
    BY <1>2, <2>2 DEF VerdictsInTime, InTime, vars, historyVars
  <2>. QED
    BY <1>2, <2>1, <2>2
<1>. QED
  BY <1>1, <1>2, HistoryTypeCorrect, PTL DEF Spec

-----------------------------------------------------------------------------
(* Verdicts are single and durable *)

\* VerdictInv of a file, the view of a process that runs or not, and replies.
Consistent(running, f, v, t) ==
  /\ \A a \in Actions : \A x \in t[a] : Resolved(f, a, x)
  /\ \A a \in Actions : \A x, y \in t[a] : x = y
  /\ running => \A a \in Actions :
       /\ v.records[a].status \in Verdicts => Resolved(f, a, v.records[a].status)
       /\ \A x \in t[a] : v.records[a].status = x
  /\ Readable(f) =>
       /\ running => AgreesWith(ViewAfter(NoView, f), v)
       /\ \A a \in Actions : \A x \in t[a] : ViewAfter(NoView, f).records[a].status = x

LEMMA VerdictInvMeans == VerdictInv <=> Consistent(up, file, view, told)
  BY DEF VerdictInv, Consistent, AnnouncedIsDurable, DurableStatus

LEMMA ResolvedStays ==
  ASSUME NEW f \in Seq(Event), NEW g \in Seq(Event), NEW a, NEW x,
         Resolved(f, a, x) \/ Resolved(g, a, x)
  PROVE  Resolved(f \o g, a, x)
<1>1. \A i \in 1 .. Len(f) : i \in 1 .. Len(f \o g) /\ (f \o g)[i] = f[i]
  OBVIOUS
<1>2. \A i \in 1 .. Len(g) : Len(f) + i \in 1 .. Len(f \o g) /\ (f \o g)[Len(f) + i] = g[i]
  OBVIOUS
<1>3. CASE Resolved(f, a, x)
  <2>1. PICK i \in 1 .. Len(f) : f[i].kind = "pending_resolved" /\ f[i].subject = a /\ f[i].status = x
    BY <1>3 DEF Resolved
  <2>. QED
    BY <1>1, <2>1 DEF Resolved
<1>4. CASE Resolved(g, a, x)
  <2>1. PICK i \in 1 .. Len(g) : g[i].kind = "pending_resolved" /\ g[i].subject = a /\ g[i].status = x
    BY <1>4 DEF Resolved
  <2>. QED
    BY <1>2, <2>1 DEF Resolved
<1>. QED
  BY <1>3, <1>4

\* A reply tells what the view says.
LEMMA ReplyKeeps ==
  ASSUME NEW f, NEW v, NEW t \in [Actions -> SUBSET Verdicts], Consistent(TRUE, f, v, t),
         NEW b \in Actions
  PROVE  Consistent(TRUE, f, v,
                    [t EXCEPT ![b] = @ \cup ({v.records[b].status} \cap Verdicts)])
<1>. DEFINE s == [t EXCEPT ![b] = @ \cup ({v.records[b].status} \cap Verdicts)]
<1>1. \A a \in Actions : \A x \in s[a] :
        x \in t[a] \/ (a = b /\ x = v.records[a].status /\ x \in Verdicts)
  OBVIOUS
<1>. HIDE DEF s
<1>2. \A a \in Actions : \A x \in s[a] : v.records[a].status = x /\ Resolved(f, a, x)
  BY <1>1 DEF Consistent
<1>3. Readable(f) => \A a \in Actions : \A x \in s[a] : ViewAfter(NoView, f).records[a].status = x
  BY <1>1 DEF Consistent, AgreesWith
<1>. QED
  BY <1>2, <1>3 DEF Consistent, s

\* The file is continued with what the view has accepted.
LEMMA WritingKeeps ==
  ASSUME NEW f \in Seq(Event), NEW v \in View, NEW t \in [Actions -> SUBSET Verdicts],
         Consistent(TRUE, f, v, t), NEW g \in Seq(Event), AcceptsAll(v, g)
  PROVE  Consistent(TRUE, f \o g, ViewAfter(v, g), t)
<1>. DEFINE w == ViewAfter(v, g)
            D == ViewAfter(NoView, f)
<1>1. Len(g) \in Nat /\ Len(g) \in 0 .. Len(g) /\ w = Views(v, g)[Len(g)]
  BY DEF ViewAfter
<1>2. ASSUME NEW a \in Actions, NEW x \in t[a]
      PROVE  w.records[a].status = x /\ Resolved(f \o g, a, x)
  <2>1. v.records[a].status = x /\ x \in Verdicts /\ Resolved(f, a, x)
    BY DEF Consistent
  <2>. QED
    BY <1>1, <2>1, VerdictsStay, ResolvedStays
<1>3. ASSUME NEW a \in Actions, w.records[a].status \in Verdicts
      PROVE  Resolved(f \o g, a, w.records[a].status)
  <2>1. v.records[a].status = w.records[a].status \/ Resolved(g, a, w.records[a].status)
    BY <1>1, <1>3, VerdictsHaveLines
  <2>2. v.records[a].status = w.records[a].status => Resolved(f, a, w.records[a].status)
    BY <1>3 DEF Consistent
  <2>. QED
    BY <2>1, <2>2, ResolvedStays
<1>4. ASSUME Readable(f \o g)
      PROVE  /\ AgreesWith(ViewAfter(NoView, f \o g), w)
             /\ \A a \in Actions : \A x \in t[a] :
                  ViewAfter(NoView, f \o g).records[a].status = x
  <2>1. Readable(f) /\ AcceptsAll(D, g)
    BY <1>4, ReadableGoesOn
  <2>2. D \in View
    BY <2>1, ReadableTyped
  <2>3. ViewAfter(NoView, f \o g) = Views(D, g)[Len(g)]
    BY ViewsResume DEF ViewAfter
  <2>4. AgreesWith(D, v) /\ \A a \in Actions : \A x \in t[a] : D.records[a].status = x
    BY <2>1 DEF Consistent
  <2>. HIDE DEF D, w
  <2>5. AgreesWith(Views(D, g)[Len(g)], w)
    BY <1>1, <2>1, <2>2, <2>4, ViewsAgree
  <2>6. ASSUME NEW a \in Actions, NEW x \in t[a]
        PROVE  Views(D, g)[Len(g)].records[a].status = x
    <3>1. D.records[a].status = x /\ x \in Verdicts
      BY <2>4
    <3>. QED
      BY <1>1, <2>1, <2>2, <3>1, VerdictsStay
  <2>. QED
    BY <2>3, <2>5, <2>6
<1>5. \A a \in Actions : \A x, y \in t[a] : x = y
  BY DEF Consistent
<1>. QED
  <2>. HIDE DEF w
  <2>. QED
    BY <1>2, <1>3, <1>4, <1>5 DEF Consistent, w

\* One more line may be in the file, whole or torn.
LEMMA LineKeeps ==
  ASSUME NEW f \in Seq(Event), NEW v, NEW t \in [Actions -> SUBSET Verdicts],
         Consistent(TRUE, f, v, t), NEW e \in Event
  PROVE  Consistent(TRUE, Append(f, e), v, t)
<1>. DEFINE g == <<e>>
            D == ViewAfter(NoView, f)
<1>1. g \in Seq(Event) /\ Append(f, e) = f \o g /\ Len(g) \in 0 .. Len(g)
  OBVIOUS
<1>. HIDE DEF g
<1>2. \A a \in Actions : \A x : Resolved(f, a, x) => Resolved(f \o g, a, x)
  BY <1>1, ResolvedStays
<1>3. ASSUME Readable(f \o g), NEW a \in Actions, NEW x \in Verdicts, D.records[a].status = x
      PROVE  Readable(f) /\ ViewAfter(NoView, f \o g).records[a].status = x
  <2>1. Readable(f) /\ AcceptsAll(D, g)
    BY <1>1, <1>3, ReadableGoesOn
  <2>2. D \in View
    BY <2>1, ReadableTyped
  <2>3. ViewAfter(NoView, f \o g) = Views(D, g)[Len(g)]
    BY <1>1, ViewsResume DEF ViewAfter
  <2>. HIDE DEF D
  <2>. QED
    BY <1>1, <1>3, <2>1, <2>2, <2>3, VerdictsStay
<1>4. ASSUME Readable(f \o g)
      PROVE  /\ AgreesWith(ViewAfter(NoView, f \o g), v)
             /\ \A a \in Actions : \A x \in t[a] :
                  ViewAfter(NoView, f \o g).records[a].status = x
  <2>1. Readable(f)
    BY <1>1, <1>4, ReadableGoesOn
  <2>2. AgreesWith(D, v) /\ \A a \in Actions : \A x \in t[a] : D.records[a].status = x
    BY <2>1 DEF Consistent
  <2>. QED
    BY <1>3, <1>4, <2>2 DEF AgreesWith
<1>. QED
  BY <1>1, <1>2, <1>4 DEF Consistent

\* A process that has loaded the file knows what was told.
LEMMA LoadingKeeps ==
  ASSUME NEW f \in Seq(Event), NEW w, NEW t \in [Actions -> SUBSET Verdicts],
         Consistent(FALSE, f, w, t), Readable(f)
  PROVE  Consistent(TRUE, f, ViewAfter(NoView, f), t)
<1>1. AcceptsAll(NoView, f) /\ Len(f) \in 0 .. Len(f)
  BY ReadableTyped
<1>2. \A a \in Actions : NoView.records[a].status \notin Verdicts
  BY DEF NoView, Verdicts
<1>3. ASSUME NEW a \in Actions, ViewAfter(NoView, f).records[a].status \in Verdicts
      PROVE  Resolved(f, a, ViewAfter(NoView, f).records[a].status)
  BY <1>1, <1>2, <1>3, NoViewTyped, VerdictsHaveLines DEF ViewAfter
<1>. QED
  BY <1>3 DEF Consistent, AgreesWith

\* Every step keeps the replies, the view and the file consistent.
LEMMA VerdictInvKept ==
  ASSUME HistoryTyped, VerdictInv, Next
  PROVE  VerdictInv'
<1>1. /\ file \in Seq(Event) /\ view \in View /\ told \in [Actions -> SUBSET Verdicts]
      /\ up \in BOOLEAN /\ Consistent(up, file, view, told)
  BY VerdictInvMeans DEF HistoryTyped
<1>2. ASSUME NEW f, NEW v, Consistent(TRUE, f, v, told), Reported(v)
      PROVE  Consistent(TRUE, f, v, told')
  <2>1. ASSUME NEW b \in Actions,
               told' = [told EXCEPT ![b] = @ \cup ({v.records[b].status} \cap Verdicts)]
        PROVE  Consistent(TRUE, f, v, told')
    <3>1. Consistent(TRUE, f, v, [told EXCEPT ![b] = @ \cup ({v.records[b].status} \cap Verdicts)])
      BY <1>1, <1>2, ReplyKeeps
    <3>. QED
      BY <2>1, <3>1
  <2>. QED
    BY <1>2, <2>1 DEF Reported
<1>3. \A g : Planned(g) => g \in Seq(Event) /\ AcceptsAll(view, g) /\ file \o g \in Seq(Event)
  BY <1>1 DEF Planned
<1>4. ASSUME NEW f, NEW v, NEW w, NEW t, Consistent(TRUE, f, v, t)
      PROVE  Consistent(FALSE, f, w, t)
  BY <1>4 DEF Consistent
<1>5. Consistent(up', file', view', told')
  <2>1. CASE Quiet
    <3>1. UNCHANGED <<up, file, view>> /\ (told' = told \/ (up = TRUE /\ Reported(view)))
      BY <1>1, <2>1 DEF Quiet, historyVars
    <3>. QED
      BY <1>1, <1>2, <3>1
  <2>2. ASSUME NEW g, Succeeds(g)
        PROVE  Consistent(up', file', view', told')
    <3>1. /\ up = TRUE /\ up' = TRUE /\ Planned(g) /\ file' = file \o g
          /\ view' = ViewAfter(view, g) /\ Reported(view')
      BY <1>1, <2>2 DEF Succeeds, Commit
    <3>2. Consistent(TRUE, file \o g, ViewAfter(view, g), told)
      BY <1>1, <1>3, <3>1, WritingKeeps
    <3>. QED
      BY <1>2, <3>1, <3>2
  <2>3. ASSUME NEW g, FailsAfter(g)
        PROVE  Consistent(up', file', view', told')
    <3>1. /\ up = TRUE /\ up' = TRUE /\ Planned(g) /\ view' = ViewAfter(view, g)
          /\ told' = told
      BY <1>1, <2>3 DEF FailsAfter
    <3>2. PICK e \in Event : file' \in {file \o g, Append(file \o g, e)}
      BY <2>3 DEF FailsAfter
    <3>3. Consistent(TRUE, file \o g, ViewAfter(view, g), told)
      BY <1>1, <1>3, <3>1, WritingKeeps
    <3>4. Consistent(TRUE, Append(file \o g, e), ViewAfter(view, g), told)
      BY <1>1, <1>3, <3>1, <3>3, LineKeeps
    <3>. QED
      BY <3>1, <3>2, <3>3, <3>4
  <2>4. CASE Dies
    <3>1. up = TRUE /\ up' = FALSE /\ told' = told
      BY <1>1, <2>4 DEF Dies
    <3>2. CASE file' = file
      BY <1>1, <1>4, <3>1, <3>2
    <3>3. ASSUME NEW g, Planned(g), file' = file \o g
          PROVE  Consistent(FALSE, file', view', told)
      BY <1>1, <1>3, <1>4, <3>1, <3>3, WritingKeeps
    <3>4. CASE file' = Append(file, TornLine)
      <4>1. TornLine \in Event
        BY DEF Event
      <4>. QED
        BY <1>1, <1>4, <3>1, <3>4, <4>1, LineKeeps
    <3>. QED
      BY <2>4, <3>1, <3>2, <3>3, <3>4 DEF Dies
  <2>5. CASE Restart
    BY <1>1, <2>5, LoadingKeeps DEF Restart
  <2>. QED
    BY <2>1, <2>2, <2>3, <2>4, <2>5, StepShape
<1>6. /\ Readable(file)' <=> Readable(file')
      /\ ViewAfter(NoView, file)' = ViewAfter(NoView, file')
      /\ \A a, x : Resolved(file, a, x)' <=> Resolved(file', a, x)
  BY DEF Readable, ViewAfter, Views, Resolved, Untorn
<1>. QED
  BY <1>5, <1>6 DEF Consistent, VerdictInv, AnnouncedIsDurable, DurableStatus, AgreesWith

\* Memory, the file and what was told agree on every verdict, as far as the file
\* can still be loaded.
THEOREM VerdictInvariant == Spec => []VerdictInv
<1>1. ASSUME Init
      PROVE  VerdictInv
  <2>1. /\ \A a \in Actions : told[a] = {} /\ view.records[a].status \notin Verdicts
        /\ file = <<>> /\ view = NoView
    BY <1>1 DEF Init, NoView, Verdicts
  <2>2. ViewAfter(NoView, file) = view
    <3>1. Len(file) = 0
      BY <2>1
    <3>. QED
      BY <2>1, <3>1, ViewsRecur DEF ViewAfter
  <2>. QED
    BY <2>1, <2>2 DEF VerdictInv, AnnouncedIsDurable, AgreesWith
<1>2. ASSUME HistoryTyped, VerdictInv, [Next]_vars
      PROVE  VerdictInv'
  <2>1. CASE Next
    BY <1>2, <2>1, VerdictInvKept
  <2>2. CASE UNCHANGED vars
    <3>1. UNCHANGED <<up, file, view, told>>
      BY <2>2 DEF vars, historyVars
    <3>2. Consistent(up', file', view', told')
      BY <1>2, <3>1, VerdictInvMeans
    <3>3. /\ Readable(file)' <=> Readable(file')
          /\ ViewAfter(NoView, file)' = ViewAfter(NoView, file')
          /\ \A a, x : Resolved(file, a, x)' <=> Resolved(file', a, x)
      BY DEF Readable, ViewAfter, Views, Resolved, Untorn
    <3>. QED
      BY <3>2, <3>3
         DEF Consistent, VerdictInv, AnnouncedIsDurable, DurableStatus, AgreesWith
  <2>. QED
    BY <1>2, <2>1, <2>2
<1>. QED
  BY <1>1, <1>2, HistoryTypeCorrect, PTL DEF Spec

\* The replies about one action never contradict each other, through any failed
\* writes, crashes and restarts, however many workflows share the history.
THEOREM VerdictIsOne == Spec => []OneVerdict
<1>1. ASSUME VerdictInv, NEW a \in Actions
      PROVE  Cardinality(told[a]) <= 1
  <2>1. CASE told[a] = {}
    BY <2>1, FS_EmptySet
  <2>2. CASE told[a] # {}
    <3>1. PICK x : told[a] = {x}
      BY <1>1, <2>2 DEF VerdictInv
    <3>2. Cardinality({x}) = 1
      BY FS_Singleton
    <3>. QED
      BY <3>1, <3>2
  <2>. QED
    BY <2>1, <2>2
<1>2. VerdictInv => OneVerdict
  BY <1>1 DEF OneVerdict
<1>. QED
  BY <1>2, VerdictInvariant, PTL

\* What a reply reported is in the file, through the same.
THEOREM AnnouncedStays == Spec => []AnnouncedIsDurable
<1>1. VerdictInv => AnnouncedIsDurable
  BY DEF VerdictInv
<1>. QED
  BY <1>1, VerdictInvariant, PTL

-----------------------------------------------------------------------------
(* Until a write fails the file is the history *)

LEMMA LengthOfJoin ==
  ASSUME NEW f \in Seq(Event), NEW g \in Seq(Event)
  PROVE  Len(f \o g) = Len(f) + Len(g)
  OBVIOUS

\* A step without a failed write came after no failed write.
LEMMA FaultsStay ==
  ASSUME HistoryTyped, [Next]_vars
  PROVE  /\ faults' = 0 => faults = 0
         /\ MaxFaults = 0 /\ faults = 0 => faults' = 0
<1>1. faults \in Nat
  BY DEF HistoryTyped
<1>2. CASE UNCHANGED vars
  BY <1>2 DEF vars, budgetVars
<1>3. CASE Next
  <2>1. \/ faults' = faults
        \/ faults' = faults + 1 /\ faults < MaxFaults
    BY <1>3, StepShape DEF Quiet, Dies, Restart, budgetVars, Succeeds, FailsAfter
  <2>. QED
    BY <1>1, <2>1
<1>. QED
  BY <1>2, <1>3

LEMMA NoFaults ==
  ASSUME MaxFaults = 0
  PROVE  Spec => [](faults = 0)
<1>1. Init => faults = 0
  BY DEF Init
<1>2. HistoryTyped /\ faults = 0 /\ [Next]_vars => (faults = 0)'
  BY FaultsStay
<1>. QED
  BY <1>1, <1>2, HistoryTypeCorrect, PTL DEF Spec

LEMMA ReplaysKept ==
  ASSUME HistoryTyped, HistoryReplays, Next, faults' = 0
  PROVE  HistoryReplays'
<1>1. /\ file \in Seq(Event) /\ Readable(file) /\ up \in BOOLEAN /\ faults' # faults + 1
      /\ up => view = ViewAfter(NoView, file) /\ count = Len(file)
  BY DEF HistoryTyped, HistoryReplays
<1>2. ASSUME up, NEW g, Planned(g)
      PROVE  /\ Readable(file \o g) /\ Len(file \o g) = count + Len(g)
             /\ ViewAfter(NoView, file \o g) = ViewAfter(view, g)
  <2>1. /\ g \in Seq(Event) /\ AcceptsAll(ViewAfter(NoView, file), g)
        /\ \A i \in 1 .. Len(g) : g[i].seq = Len(file) + i
    BY <1>1, <1>2 DEF Planned
  <2>2. Readable(file \o g)
    BY <1>1, <2>1, ReadableGoesOn
  <2>3. ViewAfter(NoView, file \o g) = ViewAfter(view, g)
    BY <1>1, <1>2, <2>1, ViewsResume
  <2>. QED
    BY <1>1, <1>2, <2>1, <2>2, <2>3, LengthOfJoin
<1>3. Readable(file') /\ (up' => view' = ViewAfter(NoView, file') /\ count' = Len(file'))
  <2>1. CASE Quiet
    BY <1>1, <2>1 DEF Quiet, historyVars
  <2>2. ASSUME NEW g, Succeeds(g)
        PROVE  Readable(file') /\ view' = ViewAfter(NoView, file') /\ count' = Len(file')
    BY <1>2, <2>2 DEF Succeeds, Commit
  <2>3. \A g : ~FailsAfter(g)
    BY <1>1 DEF FailsAfter
  <2>4. CASE Dies
    BY <1>1, <1>2, <2>4 DEF Dies
  <2>5. CASE Restart
    BY <1>1, <2>5 DEF Restart
  <2>. QED
    BY <2>1, <2>2, <2>3, <2>4, <2>5, StepShape
<1>4. /\ Readable(file)' <=> Readable(file')
      /\ ViewAfter(NoView, file)' = ViewAfter(NoView, file')
  BY DEF Readable, ViewAfter, Views, Untorn
<1>. QED
  BY <1>3, <1>4 DEF HistoryReplays

\* Until a write fails, the file can be replayed at any time, also within a
\* sweep, and gives what the process has in memory.
THEOREM ReplayedUntilAFailure == Spec => [](faults = 0 => HistoryReplays)
<1>1. ASSUME Init
      PROVE  HistoryReplays
  <2>1. file = <<>> /\ view = NoView /\ count = 0 /\ Len(file) = 0
    BY <1>1 DEF Init
  <2>2. Readable(file)
    BY <2>1 DEF Readable, Untorn
  <2>3. ViewAfter(NoView, file) = NoView
    BY <2>1, ViewsRecur DEF ViewAfter
  <2>. QED
    BY <2>1, <2>2, <2>3 DEF HistoryReplays
<1>2. ASSUME HistoryTyped, faults = 0 => HistoryReplays, [Next]_vars
      PROVE  (faults = 0 => HistoryReplays)'
  <2>. SUFFICES ASSUME faults' = 0
                PROVE  HistoryReplays'
    OBVIOUS
  <2>0. HistoryReplays
    BY <1>2, FaultsStay
  <2>1. CASE Next
    BY <1>2, <2>0, <2>1, ReplaysKept
  <2>2. CASE UNCHANGED vars
    <3>1. UNCHANGED <<up, file, view, count>>
      BY <2>2 DEF vars, historyVars
    <3>2. /\ Readable(file)' <=> Readable(file')
          /\ ViewAfter(NoView, file)' = ViewAfter(NoView, file')
      BY DEF Readable, ViewAfter, Views, Untorn
    <3>. QED
      BY <2>0, <3>1, <3>2 DEF HistoryReplays
  <2>. QED
    BY <1>2, <2>1, <2>2
<1>. QED
  BY <1>1, <1>2, HistoryTypeCorrect, PTL DEF Spec

\* If no write ever fails, that is so for good.
THEOREM HistoryIsReplayed ==
  ASSUME MaxFaults = 0
  PROVE  Spec => []HistoryReplays
  BY NoFaults, ReplayedUntilAFailure, PTL

-----------------------------------------------------------------------------
(* The history implements PendingActionLifecycle *)

\* The views the file adds up to before and after a step.
LEMMA DurableMoves ==
  ASSUME HistoryTyped, HistoryReplays, Next, faults' = 0
  PROVE  /\ ViewAfter(NoView, file) \in View /\ ViewAfter(NoView, file') \in View
         /\ \A a \in Actions :
              Lifecycle!Move(ViewAfter(NoView, file).records[a].status,
                             ViewAfter(NoView, file').records[a].status)
         /\ told' = told \/ Reported(ViewAfter(NoView, file'))
<1>. DEFINE D == ViewAfter(NoView, file)
            E == ViewAfter(NoView, file')
            Moves == \A a \in Actions : Lifecycle!Move(D.records[a].status, E.records[a].status)
            Tells == told' = told \/ Reported(E)
<1>1. /\ file \in Seq(Event) /\ Readable(file) /\ (up => view = D)
      /\ file' \in Seq(Event) /\ faults' # faults + 1
  BY ShapesTyped DEF HistoryTyped, HistoryReplays
<1>2. /\ Readable(file)' <=> Readable(file')
      /\ ViewAfter(NoView, file)' = ViewAfter(NoView, file')
  BY DEF Readable, ViewAfter, Views, Untorn
<1>3. Readable(file') /\ (up' => view' = E)
  BY <1>2, ReplaysKept DEF HistoryReplays
<1>4. D \in View /\ E \in View
  BY <1>1, <1>3, ReadableTyped
<1>5. ASSUME file' = file
      PROVE  Moves
  BY <1>5 DEF Lifecycle!Move
<1>6. ASSUME up, NEW g, Planned(g), file' = file \o g
      PROVE  Moves
  <2>1. g \in Seq(Event) /\ Len(g) \in 0 .. Len(g)
    BY <1>6 DEF Planned
  <2>2. E = Views(view, g)[Len(g)] /\ view = D
    BY <1>1, <1>6, <2>1, ViewsResume DEF ViewAfter
  <2>. HIDE DEF D, E
  <2>. QED
    BY <1>6, <2>1, <2>2 DEF Planned, StatusAfter
<1>7. Moves /\ Tells
  <2>. HIDE DEF Moves
  <2>1. CASE Quiet
    BY <1>1, <1>5, <2>1 DEF Quiet, historyVars
  <2>2. ASSUME NEW g, Succeeds(g)
        PROVE  Moves /\ Tells
    BY <1>3, <1>6, <2>2 DEF Succeeds, Commit
  <2>3. \A g : ~FailsAfter(g)
    BY <1>1 DEF FailsAfter
  <2>4. CASE Dies
    BY <1>1, <1>5, <1>6, <2>4 DEF Dies
  <2>5. CASE Restart
    BY <1>5, <2>5 DEF Restart
  <2>. QED
    <3>. HIDE DEF Tells
    <3>. QED
      BY <2>1, <2>2, <2>3, <2>4, <2>5, StepShape
<1>. QED
  BY <1>4, <1>7

LEMMA LifecycleStep ==
  ASSUME HistoryTyped, HistoryReplays, Next, faults' = 0
  PROVE  Lifecycle!Next
<1>. DEFINE D == ViewAfter(NoView, file)
            E == ViewAfter(NoView, file')
<1>1. /\ D \in View /\ E \in View /\ told \in [Actions -> SUBSET Verdicts]
      /\ \A a \in Actions : Lifecycle!Move(D.records[a].status, E.records[a].status)
      /\ told' = told \/ Reported(E)
  BY DurableMoves DEF HistoryTyped
<1>2. ViewAfter(NoView, file)' = E
  BY DEF ViewAfter, Views
<1>. HIDE DEF D, E
<1>3. /\ [a \in Actions |-> DurableStatus(a)] = [a \in Actions |-> D.records[a].status]
      /\ [a \in Actions |-> DurableStatus(a)]' = [a \in Actions |-> E.records[a].status]
  BY <1>2 DEF DurableStatus, D
<1>4. [a \in Actions |-> E.records[a].status]
        \in [Actions -> {"absent", "none", "pending"} \cup Verdicts]
  BY <1>1 DEF View
<1>5. Lifecycle!Decide
  BY <1>1, <1>3, <1>4 DEF Lifecycle!Decide, Lifecycle!Verdicts, Verdicts
<1>6. told' = told \/ \E a \in Actions : Lifecycle!Tell(a)
  <2>1. ASSUME NEW a \in Actions,
               told' = [told EXCEPT ![a] = @ \cup ({E.records[a].status} \cap Verdicts)]
        PROVE  told' = told \/ Lifecycle!Tell(a)
    <3>1. CASE E.records[a].status \in Verdicts
      <4>1. told' = [told EXCEPT ![a] = @ \cup {E.records[a].status}]
        BY <1>1, <2>1, <3>1
      <4>. QED
        BY <1>3, <3>1, <4>1 DEF Lifecycle!Tell, Lifecycle!Verdicts, Verdicts
    <3>2. CASE E.records[a].status \notin Verdicts
      BY <1>1, <2>1, <3>2
    <3>. QED
      BY <3>1, <3>2
  <2>. QED
    BY <1>1, <2>1 DEF Reported
<1>. QED
  BY <1>5, <1>6 DEF Lifecycle!Next

\* Until a write fails, an action is put up once and decided once, in the file,
\* and what the replies report is that one decision, through any crashes and
\* restarts.
THEOREM LifecycleUntilAFailure ==
  Spec => Lifecycle!Init /\ [][faults' = 0 => Lifecycle!Next]_(Lifecycle!vars)
<1>1. ASSUME Init
      PROVE  Lifecycle!Init
  <2>1. file = <<>> /\ Len(file) = 0 /\ told = [a \in Actions |-> {}]
    BY <1>1 DEF Init
  <2>2. ViewAfter(NoView, file) = NoView
    BY <2>1, ViewsRecur DEF ViewAfter
  <2>3. [a \in Actions |-> DurableStatus(a)] = [a \in Actions |-> "absent"]
    BY <2>2 DEF DurableStatus, NoView
  <2>. QED
    BY <2>1, <2>3 DEF Lifecycle!Init
<1>2. ASSUME HistoryTyped, faults = 0 => HistoryReplays, [Next]_vars
      PROVE  [faults' = 0 => Lifecycle!Next]_(Lifecycle!vars)
  <2>1. CASE Next
    BY <1>2, <2>1, FaultsStay, LifecycleStep
  <2>2. CASE UNCHANGED vars
    BY <2>2 DEF vars, historyVars, Lifecycle!vars, DurableStatus, ViewAfter, Views
  <2>. QED
    BY <1>2, <2>1, <2>2
<1>. QED
  BY <1>1, <1>2, HistoryTypeCorrect, ReplayedUntilAFailure, PTL DEF Spec

\* If no write ever fails, the history implements PendingActionLifecycle.
THEOREM HistoryIsLifecycle ==
  ASSUME MaxFaults = 0
  PROVE  Spec => LifecycleSpec
<1>1. ASSUME (faults = 0)', [faults' = 0 => Lifecycle!Next]_(Lifecycle!vars)
      PROVE  [Lifecycle!Next]_(Lifecycle!vars)
  BY <1>1
<1>. QED
  BY <1>1, NoFaults, LifecycleUntilAFailure, PTL DEF LifecycleSpec, Lifecycle!Spec

=============================================================================
