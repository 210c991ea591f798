------------------------ MODULE ActionExecutorProofs ------------------------
(***************************************************************************)
(* Theorems about ActionExecutor, for any callers, controls, crashes and   *)
(* failed writes: its types; what always holds of every dispatch (a line   *)
(* of the ledger, the gate, no denial before it); and, for callers that    *)
(* do not share idempotency keys, that no key is dispatched twice, that    *)
(* the answers are the truth, and that a key has one answer for good.      *)
(***************************************************************************)
EXTENDS ActionExecutor, FiniteSetTheorems, WellFoundedInduction, TLAPS

-----------------------------------------------------------------------------
(* The ledger file: what an append, a failed write and a reload do to the *)
(* lines of a key *)

\* A line added to the file keeps it a file and keeps every key's lines, and
\* an entry of a key is then among the lines of that key (_persist).
LEMMA AppendKeepsLines ==
  ASSUME NEW f \in Seq(Line), NEW line \in Line
  PROVE  /\ Append(f, line) \in Seq(Line)
         /\ \A k \in Keys : LinesOf(f, k) \subseteq LinesOf(Append(f, line), k)
         /\ line.key \in Keys => LinesOf(Append(f, line), line.key) # {}
<1>1. Append(f, line) \in Seq(Line)
  OBVIOUS
<1>2. ASSUME NEW k \in Keys, NEW i \in LinesOf(f, k)
      PROVE  i \in LinesOf(Append(f, line), k)
  BY <1>2 DEF LinesOf
<1>3. Len(f) + 1 \in LinesOf(Append(f, line), line.key)
  BY DEF LinesOf
<1>. QED
  BY <1>1, <1>2, <1>3

LEMMA TornLineInLine == TornLine \in Line
  BY DEF Line

\* A failed write leaves a file with at least the lines it had (_persist).
LEMMA FailedWriteKeepsLines ==
  ASSUME NEW f \in Seq(Line), NEW line \in Line,
         NEW g \in AfterFailedWrite(f, line)
  PROVE  /\ g \in Seq(Line)
         /\ \A k \in Keys : LinesOf(f, k) \subseteq LinesOf(g, k)
<1>1. CASE g = f
  BY <1>1
<1>2. CASE g = Append(f, line)
  BY <1>2, AppendKeepsLines
<1>3. CASE g = Append(f, TornLine)
  BY <1>3, AppendKeepsLines, TornLineInLine
<1>. QED
  BY <1>1, <1>2, <1>3 DEF AfterFailedWrite

\* A non-empty set of line numbers has a last one (the least counterexample
\* under inclusion would have a smaller one).
LEMMA LastIndexExists ==
  ASSUME NEW n \in Nat, NEW S \in SUBSET (1 .. n), S # {}
  PROVE  \E i \in S : \A j \in S : j <= i
<1>. DEFINE HasLast(X) == \E i \in X : \A j \in X : j <= i
            Bad == {X \in SUBSET (1 .. n) : X # {} /\ ~HasLast(X)}
<1>1. SUFFICES ASSUME Bad # {}
               PROVE  FALSE
  OBVIOUS
<1>2. Bad \subseteq FiniteSubsetsOf(1 .. n)
  <2>1. IsFiniteSet(1 .. n)
    BY FS_Interval
  <2>. QED
    BY <2>1, FS_Subset DEF FiniteSubsetsOf
<1>3. PICK X \in Bad : \A Y \in Bad : <<Y, X>> \notin StrictSubsetOrdering(1 .. n)
  <2>. HIDE DEF Bad
  <2>. QED
    BY <1>1, <1>2, FS_StrictSubsetOrderingWellFounded, WFMin
<1>4. PICK x \in X : TRUE
  OBVIOUS
<1>5. CASE X \ {x} = {}
  BY <1>4, <1>5
<1>6. CASE X \ {x} # {}
  <2>1. X \ {x} \in SUBSET (1 .. n) /\ X \ {x} \subseteq X /\ X \ {x} # X
    BY <1>4
  <2>2. X \ {x} \notin Bad
    BY <1>3, <2>1 DEF StrictSubsetOrdering
  <2>3. PICK y \in X \ {x} : \A j \in X \ {x} : j <= y
    BY <1>6, <2>1, <2>2
  <2>4. x \in Nat /\ y \in Nat /\ \A j \in X : j \in Nat
    BY <1>4, <2>1
  <2>5. CASE x <= y
    BY <2>3, <2>4, <2>5
  <2>6. CASE y <= x
    BY <1>4, <2>3, <2>4, <2>6
  <2>. QED
    BY <2>4, <2>5, <2>6
<1>. QED
  BY <1>5, <1>6

\* Reloading a readable file finds exactly the keys that have a line in it,
\* each with one of its own entries (_load).
LEMMA LastLineIsEntry ==
  ASSUME NEW f \in Seq(Line), Readable(f), NEW k \in Keys
  PROVE  /\ LinesOf(f, k) = {} => LastLine(f, k) = NoEntry
         /\ LinesOf(f, k) # {} => LastLine(f, k) \in Entry
         /\ LastLine(f, k) # NoEntry <=> LinesOf(f, k) # {}
<1>1. LinesOf(f, k) = {} => LastLine(f, k) = NoEntry
  BY DEF LastLine
<1>2. ASSUME LinesOf(f, k) # {}
      PROVE  LastLine(f, k) \in Entry
  <2>1. LinesOf(f, k) \in SUBSET (1 .. Len(f)) /\ Len(f) \in Nat
    BY DEF LinesOf
  <2>2. \E i \in LinesOf(f, k) : \A j \in LinesOf(f, k) : j <= i
    BY <1>2, <2>1, LastIndexExists
  <2>3. PICK i \in LinesOf(f, k) : LastLine(f, k) = f[i]
    BY <1>2, <2>2 DEF LastLine
  <2>4. i \in 1 .. Len(f)
    BY <2>1
  <2>5. f[i] \in Line /\ f[i] # TornLine
    BY <2>4 DEF Readable
  <2>. QED
    BY <2>3, <2>5 DEF Line
<1>3. NoEntry \notin Entry
  BY SentinelsAssumption
<1>. QED
  BY <1>1, <1>2, <1>3

\* An appended line is a line of its own key, after all the others ...
LEMMA AppendedOwnLine ==
  ASSUME NEW f \in Seq(Line), NEW line \in Line
  PROVE  /\ LinesOf(Append(f, line), line.key) = LinesOf(f, line.key) \cup {Len(f) + 1}
         /\ Append(f, line)[Len(f) + 1] = line
<1>. DEFINE g == Append(f, line)
<1>1. /\ Len(f) \in Nat /\ Len(g) = Len(f) + 1 /\ g[Len(f) + 1] = line
      /\ \A i \in 1 .. Len(f) : g[i] = f[i]
  OBVIOUS
<1>. HIDE DEF g
<1>2. \A i : i \in 1 .. Len(f) + 1 <=> i \in 1 .. Len(f) \/ i = Len(f) + 1
  BY <1>1
<1>3. LinesOf(g, line.key) = LinesOf(f, line.key) \cup {Len(f) + 1}
  BY <1>1, <1>2 DEF LinesOf
<1>. QED
  BY <1>1, <1>3 DEF g

\* ... and leaves those of every other key alone.
LEMMA AppendedOtherLine ==
  ASSUME NEW f \in Seq(Line), NEW line \in Line, NEW k \in Keys, line.key # k
  PROVE  LinesOf(Append(f, line), k) = LinesOf(f, k)
<1>. DEFINE g == Append(f, line)
<1>1. /\ Len(f) \in Nat /\ Len(g) = Len(f) + 1 /\ g[Len(f) + 1] = line
      /\ \A i \in 1 .. Len(f) : g[i] = f[i]
  OBVIOUS
<1>. HIDE DEF g
<1>2. \A i : i \in 1 .. Len(f) + 1 <=> i \in 1 .. Len(f) \/ i = Len(f) + 1
  BY <1>1
<1>3. LinesOf(g, k) = LinesOf(f, k)
  BY <1>1, <1>2 DEF LinesOf
<1>. QED
  BY <1>3 DEF g

LEMMA AppendedKeepsLines ==
  ASSUME NEW f \in Seq(Line), NEW line \in Line, NEW k, NEW i \in LinesOf(f, k)
  PROVE  i \in LinesOf(Append(f, line), k) /\ Append(f, line)[i] = f[i]
  BY DEF LinesOf

\* The last line of a key is one of its lines.
LEMMA LastLineIsLine ==
  ASSUME NEW f \in Seq(Line), NEW k \in Keys, LinesOf(f, k) # {}
  PROVE  \E i \in LinesOf(f, k) :
           LastLine(f, k) = f[i] /\ \A j \in LinesOf(f, k) : j <= i
<1>1. LinesOf(f, k) \in SUBSET (1 .. Len(f)) /\ Len(f) \in Nat
  BY DEF LinesOf
<1>2. \E i \in LinesOf(f, k) : \A j \in LinesOf(f, k) : j <= i
  BY <1>1, LastIndexExists
<1>. QED
  BY <1>2 DEF LastLine

\* An appended line is the last one of its key, and of no other (_latest).
LEMMA AppendedLast ==
  ASSUME NEW f \in Seq(Line), NEW line \in Line, line.key \in Keys
  PROVE  LastLine(Append(f, line), line.key) = line
<1>. DEFINE g == Append(f, line)
            k == line.key
<1>1. /\ g \in Seq(Line) /\ k \in Keys
      /\ LinesOf(g, k) = LinesOf(f, k) \cup {Len(f) + 1} /\ g[Len(f) + 1] = line
  BY AppendedOwnLine
<1>. HIDE DEF g, k
<1>2. PICK i \in LinesOf(g, k) :
        LastLine(g, k) = g[i] /\ \A j \in LinesOf(g, k) : j <= i
  BY <1>1, LastLineIsLine
<1>3. i \notin LinesOf(f, k)
  <2>1. Len(f) + 1 <= i /\ Len(f) \in Nat
    BY <1>1, <1>2
  <2>. QED
    BY <2>1 DEF LinesOf
<1>4. LastLine(g, k) = line
  BY <1>1, <1>2, <1>3
<1>. QED
  BY <1>4 DEF g, k

LEMMA AppendedOtherLast ==
  ASSUME NEW f \in Seq(Line), NEW line \in Line, NEW k \in Keys, line.key # k
  PROVE  LastLine(Append(f, line), k) = LastLine(f, k)
<1>. DEFINE g == Append(f, line)
            last == CHOOSE i \in LinesOf(f, k) : \A j \in LinesOf(f, k) : j <= i
<1>1. LinesOf(g, k) = LinesOf(f, k) /\ \A i \in LinesOf(f, k) : g[i] = f[i]
  BY AppendedOtherLine, AppendedKeepsLines
<1>. HIDE DEF g
<1>2. CASE LinesOf(f, k) = {}
  BY <1>1, <1>2 DEF LastLine, g
<1>3. CASE LinesOf(f, k) # {}
  <2>1. \E i \in LinesOf(f, k) : \A j \in LinesOf(f, k) : j <= i
    BY <1>3, LastLineIsLine
  <2>2. last \in LinesOf(f, k)
    BY <2>1
  <2>3. LastLine(f, k) = f[last] /\ LastLine(g, k) = g[last]
    BY <1>1, <1>3 DEF LastLine
  <2>4. LastLine(g, k) = LastLine(f, k)
    BY <1>1, <2>2, <2>3
  <2>. QED
    BY <2>4 DEF g
<1>. QED
  BY <1>2, <1>3

\* A write of a line of one key, failed or not, takes no line from any key and
\* adds none to another (_persist).
LEMMA WriteKeepsLines ==
  ASSUME NEW f \in Seq(Line), NEW line \in Line,
         NEW g \in AfterFailedWrite(f, line), NEW k, NEW i \in LinesOf(f, k)
  PROVE  i \in LinesOf(g, k) /\ g[i] = f[i]
<1>1. g \in {f, Append(f, line), Append(f, TornLine)} /\ TornLine \in Line
  BY TornLineInLine DEF AfterFailedWrite
<1>2. CASE g = f
  BY <1>2
<1>3. CASE g = Append(f, line)
  BY <1>3, AppendedKeepsLines
<1>4. CASE g = Append(f, TornLine)
  BY <1>1, <1>4, AppendedKeepsLines
<1>. QED
  BY <1>1, <1>2, <1>3, <1>4

LEMMA WriteKeepsOthers ==
  ASSUME NEW f \in Seq(Line), NEW line \in Line,
         NEW g \in AfterFailedWrite(f, line), NEW k \in Keys, line.key # k
  PROVE  LinesOf(g, k) = LinesOf(f, k) /\ LastLine(g, k) = LastLine(f, k)
<1>1. g \in {f, Append(f, line), Append(f, TornLine)}
      /\ TornLine \in Line /\ TornLine.key # k
  BY TornLineInLine, SentinelsAssumption DEF TornLine, AfterFailedWrite
<1>2. CASE g = f
  BY <1>2
<1>3. CASE g = Append(f, line)
  BY <1>3, AppendedOtherLine, AppendedOtherLast
<1>4. CASE g = Append(f, TornLine)
  BY <1>1, <1>4, AppendedOtherLine, AppendedOtherLast
<1>. QED
  BY <1>1, <1>2, <1>3, <1>4

\* A failed write of a line adds nothing to its key but that line.
LEMMA FailedWriteLines ==
  ASSUME NEW f \in Seq(Line), NEW line \in Line, line.key \in Keys,
         NEW g \in AfterFailedWrite(f, line), NEW i \in LinesOf(g, line.key)
  PROVE  g[i] = line \/ (i \in LinesOf(f, line.key) /\ g[i] = f[i])
<1>1. TornLine \in Line /\ TornLine.key # line.key
  BY TornLineInLine, SentinelsAssumption DEF TornLine
<1>2. CASE g = f
  BY <1>2
<1>3. CASE g = Append(f, line)
  <2>1. i \in LinesOf(f, line.key) \cup {Len(f) + 1} /\ g[Len(f) + 1] = line
    BY <1>3, AppendedOwnLine
  <2>2. i \in LinesOf(f, line.key) => g[i] = f[i]
    BY <1>3, AppendedKeepsLines
  <2>. QED
    BY <2>1, <2>2
<1>4. CASE g = Append(f, TornLine)
  <2>1. i \in LinesOf(f, line.key)
    BY <1>1, <1>4, AppendedOtherLine
  <2>. QED
    BY <1>1, <1>4, <2>1, AppendedKeepsLines
<1>. QED
  BY <1>2, <1>3, <1>4 DEF AfterFailedWrite

\* Hence what the file says of a key, it keeps saying.
LEMMA LoggedStays ==
  ASSUME NEW f \in Seq(Line), NEW line \in Line,
         NEW g \in AfterFailedWrite(f, line), NEW k \in Keys,
         NEW event, NEW state, Logged(f, k, event, state)
  PROVE  Logged(g, k, event, state)
  BY WriteKeepsLines DEF Logged

-----------------------------------------------------------------------------
(* The types *)

LEMMA IdleCallTyped == IdleCall \in Call
  BY DEF IdleCall, Call, Labels, Snapshots, Events, States, Phases

\* Every step of a caller replaces its own locals by well-formed ones.
LEMMA StepMovesCaller ==
  ASSUME TypeOK, CallersWellFormed, NEW c \in Callers, Step(c)
  PROVE  \E r \in Call : call' = [call EXCEPT ![c] = r] /\ WellFormed(c, r)
<1>. DEFINE Moves(r) == call' = [call EXCEPT ![c] = r] /\ WellFormed(c, r)
<1>1. call[c] \in Call /\ call \in [Callers -> Call]
  BY DEF TypeOK
<1>2. call[c].pc # "idle" /\ call[c].key \in KeysOf[c]
  BY DEF Step, ReadPrecondition, Reserve, ReserveFails, Authorize, Stamp,
         AppendEntry, AppendFails, OpenBrowser, Dispatch, Refresh, Verify,
         CannotVerify, Unknown, ReviewSinkFails, Replay, CallersWellFormed,
         WellFormed
<1>3. IdleCall \in Call /\ WellFormed(c, IdleCall)
  BY IdleCallTyped DEF WellFormed, IdleCall
<1>4. ASSUME NEW label \in Labels
      PROVE  At(c, label) \in Call
  BY <1>1, <1>3, <1>4 DEF At, Call
<1>5. ASSUME NEW label \in Labels \ {"stamp", "append"}, Goto(c, label)
      PROVE  At(c, label) \in Call /\ Moves(At(c, label))
  BY <1>2, <1>4, <1>5 DEF At, Goto, WellFormed, IdleCall
<1>6. ASSUME NEW event \in Events \ {"reserved"}, NEW state \in States,
             event = "result" => state \in TerminalStates,
             event \in Phases => state = "in_flight", Emit(c, event, state)
      PROVE  \E r \in Call : Moves(r)
  <2>. DEFINE r == [At(c, "stamp") EXCEPT !.event = event, !.state = state]
  <2>1. At(c, "stamp") \in Call /\ At(c, "stamp").key = call[c].key
    BY <1>4 DEF Labels, At, IdleCall
  <2>2. r \in Call /\ r.key = call[c].key /\ r.event = event /\ r.state = state
    BY <2>1 DEF Call
  <2>3. Moves(r)
    BY <1>2, <1>6, <2>2 DEF Emit, WellFormed
  <2>. QED
    BY <2>2, <2>3
<1>7. Raise(c) => Moves(IdleCall)
  BY <1>3 DEF Raise
<1>8. \A state : Return(c, state) => Moves(IdleCall)
  BY <1>3 DEF Return
<1>9. CASE ReadPrecondition(c)
  <2>1. PICK s \in Snapshots :
          call' = [call EXCEPT ![c] = [call[c] EXCEPT !.pc = "reserve", !.snap = s]]
    BY <1>1, <1>9 DEF ReadPrecondition
  <2>. DEFINE r == [call[c] EXCEPT !.pc = "reserve", !.snap = s]
  <2>2. r \in Call /\ WellFormed(c, r)
    BY <1>1, <1>2 DEF Call, Labels, WellFormed
  <2>. QED
    BY <2>1, <2>2
<1>10. CASE Reserve(c)
  <2>1. ASSUME NEW label \in {"authorize", "replay"},
               call' = [call EXCEPT ![c].pc = label]
        PROVE  \E r \in Call : Moves(r)
    <3>. DEFINE r == [call[c] EXCEPT !.pc = label]
    <3>1. r \in Call /\ WellFormed(c, r)
      BY <1>1, <1>2, <2>1 DEF Call, Labels, WellFormed
    <3>2. call' = [call EXCEPT ![c] = r]
      BY <1>1, <2>1
    <3>. QED
      BY <3>1, <3>2
  <2>2. CASE Unclaimed(call[c].key)
    BY <1>10, <2>1, <2>2 DEF Reserve
  <2>3. CASE ~Unclaimed(call[c].key) /\ HasResult(latest[call[c].key])
    BY <1>3, <1>8, <1>10, <2>3 DEF Reserve
  <2>4. CASE ~Unclaimed(call[c].key) /\ ~HasResult(latest[call[c].key])
    BY <1>10, <2>1, <2>4 DEF Reserve
  <2>. QED
    BY <2>2, <2>3, <2>4
<1>11. CASE ReserveFails(c)
  BY <1>3, <1>7, <1>11 DEF ReserveFails
<1>12. CASE Authorize(c)
  BY <1>6, <1>12 DEF Authorize, Events, Phases, States, TerminalStates
<1>13. CASE Stamp(c)
  <2>. DEFINE r == [call[c] EXCEPT !.pc = "append", !.seq = NextSeq(call[c].key)]
  <2>1. call[c].key \in Keys
    BY <1>2, ExecutorAssumption
  <2>2. NextSeq(call[c].key) \in Nat
    BY <2>1 DEF TypeOK, NextSeq, Entry
  <2>3. r \in Call /\ r.pc = "append" /\ r.key = call[c].key
        /\ r.event = call[c].event /\ r.state = call[c].state
    BY <1>1, <2>2 DEF Call, Labels
  <2>4. WellFormed(c, r)
    BY <1>2, <1>13, <2>3 DEF WellFormed, Stamp, CallersWellFormed
  <2>5. call' = [call EXCEPT ![c] = r]
    BY <1>1, <1>13 DEF Stamp
  <2>. QED
    BY <2>3, <2>4, <2>5
<1>14. CASE AppendEntry(c)
  <2>1. CASE OnRaise(c)
    BY <1>3, <1>5, <1>7, <2>1 DEF OnRaise, Labels
  <2>2. CASE Continue(c)
    <3>1. call[c].event \in Events \ {"reserved"}
          /\ (call[c].event = "result" => call[c].state \in TerminalStates)
      BY <1>1, <1>14 DEF AppendEntry, CallersWellFormed, WellFormed, Call
    <3>2. CASE call[c].event = "authorization"
      BY <1>6, <2>2, <3>2 DEF Continue, Events, States, TerminalStates, Phases
    <3>3. CASE call[c].event \in Phases \ {"phase:refreshed"}
      BY <1>5, <2>2, <3>3 DEF Continue, Phases, Labels
    <3>4. CASE call[c].event = "phase:refreshed"
      <4>. DEFINE r == [call[c] EXCEPT !.pc = "verify"]
      <4>1. r \in Call /\ WellFormed(c, r)
        BY <1>1, <1>2 DEF Call, Labels, WellFormed
      <4>2. call' = [call EXCEPT ![c] = r]
        BY <1>1, <2>2, <3>4 DEF Continue
      <4>. QED
        BY <4>1, <4>2
    <3>5. CASE call[c].event = "result"
      BY <1>3, <1>8, <2>2, <3>5 DEF Continue
    <3>. QED
      BY <3>1, <3>2, <3>3, <3>4, <3>5 DEF Events
  <2>. QED
    BY <1>14, <2>1, <2>2 DEF AppendEntry
<1>15. CASE AppendFails(c)
  BY <1>3, <1>5, <1>7, <1>15 DEF AppendFails, OnRaise, Labels
<1>16. CASE OpenBrowser(c)
  BY <1>5, <1>6, <1>16 DEF OpenBrowser, Events, Phases, States, TerminalStates, Labels
<1>17. CASE Dispatch(c)
  BY <1>5, <1>6, <1>17 DEF Dispatch, Events, Phases, States, TerminalStates, Labels
<1>18. CASE Refresh(c)
  <2>. DEFINE r == [At(c, "stamp") EXCEPT !.event = "phase:refreshed",
                                        !.seen = applied[call[c].key] > 0]
  <2>1. At(c, "stamp") \in Call /\ At(c, "stamp").key = call[c].key
        /\ At(c, "stamp").pc = "stamp"
    BY <1>4 DEF Labels, At, IdleCall
  <2>2. (applied[call[c].key] > 0) \in BOOLEAN
    OBVIOUS
  <2>. HIDE DEF r
  <2>3. r \in Call /\ r.key = call[c].key /\ r.event = "phase:refreshed"
        /\ r.state = "in_flight"
    <3>1. At(c, "stamp").state = "in_flight"
      BY DEF At, IdleCall
    <3>. QED
      BY <2>1, <2>2, <3>1 DEF r, Call, Events, Phases
  <2>4. Moves(r)
    BY <1>2, <1>18, <2>3 DEF r, Refresh, WellFormed
  <2>. QED
    BY <2>3, <2>4
<1>19. CASE Verify(c)
  BY <1>5, <1>6, <1>19 DEF Verify, Events, Phases, States, TerminalStates, Labels
<1>20. CASE CannotVerify(c)
  BY <1>5, <1>20 DEF CannotVerify, Labels
<1>21. CASE Unknown(c)
  BY <1>6, <1>21 DEF Unknown, Events, Phases, States, TerminalStates
<1>22. CASE ReviewSinkFails(c)
  BY <1>3, <1>7, <1>22 DEF ReviewSinkFails
<1>23. CASE Replay(c)
  BY <1>6, <1>23 DEF Replay, Events, Phases, States, TerminalStates
<1>. QED
  BY <1>9, <1>10, <1>11, <1>12, <1>13, <1>14, <1>15, <1>16, <1>17, <1>18, <1>19,
     <1>20, <1>21, <1>22, <1>23 DEF Step

\* Hence the shape of the callers is kept: the other callers do not move.
LEMMA StepKeepsCallers ==
  ASSUME TypeOK, CallersWellFormed, NEW c \in Callers, Step(c)
  PROVE  call' \in [Callers -> Call] /\ CallersWellFormed' /\ up /\ up'
<1>1. PICK r \in Call : call' = [call EXCEPT ![c] = r] /\ WellFormed(c, r)
  BY StepMovesCaller
<1>2. up /\ up' = up
  BY DEF Step, ReadPrecondition, Reserve, ReserveFails, Authorize, Stamp,
         AppendEntry, AppendFails, OpenBrowser, Dispatch, Refresh, Verify,
         CannotVerify, Unknown, ReviewSinkFails, Replay, CallersWellFormed
<1>3. call' \in [Callers -> Call]
  BY <1>1 DEF TypeOK
<1>4. ASSUME NEW d \in Callers
      PROVE  WellFormed(d, call'[d])
  BY <1>1 DEF TypeOK, CallersWellFormed
<1>. QED
  BY <1>2, <1>3, <1>4 DEF CallersWellFormed, WellFormed

LEMMA ReservationTyped ==
  ASSUME TypeOK, NEW k \in Keys
  PROVE  Reservation(k) \in Entry
  BY DEF TypeOK, Reservation, Entry, Events, States

LEMMA PendingEntryTyped ==
  ASSUME TypeOK, CallersWellFormed, NEW c \in Callers, call[c].pc # "idle"
  PROVE  /\ call[c].key \in Keys
         /\ PendingEntry(c) \in Entry
         /\ PendingEntry(c).key = call[c].key
  BY ExecutorAssumption
     DEF TypeOK, CallersWellFormed, WellFormed, Call, PendingEntry, Entry

\* What a step of a caller does to the ledger: the file only grows, and an
\* index entry that changes is one of the caller's key, which then has a line.
LEMMA StepKeepsLedger ==
  ASSUME TypeOK, CallersWellFormed, NEW c \in Callers, Step(c)
  PROVE  /\ file' \in Seq(Line) /\ count' \in Nat
         /\ latest' \in [Keys -> Entry \cup {NoEntry}]
         /\ \A k \in Keys : LinesOf(file, k) \subseteq LinesOf(file, k)'
         /\ \A k \in Keys : latest[k] # NoEntry => latest'[k] # NoEntry
         /\ \A k \in Keys :
              latest'[k] # latest[k] => k = call[c].key /\ LinesOf(file, k)' # {}
<1>1. file \in Seq(Line) /\ count \in Nat /\ latest \in [Keys -> Entry \cup {NoEntry}]
  BY DEF TypeOK
<1>2. NoEntry \notin Entry
  BY SentinelsAssumption
<1>3. CASE UNCHANGED ledgerVars
  BY <1>1, <1>3 DEF ledgerVars, LinesOf
<1>4. ASSUME call[c].pc # "idle", NEW line \in Entry, line.key = call[c].key,
             file' = Append(file, line), count' = count + 1,
             latest' = [latest EXCEPT ![call[c].key] = line]
      PROVE  /\ file' \in Seq(Line) /\ count' \in Nat
             /\ latest' \in [Keys -> Entry \cup {NoEntry}]
             /\ \A k \in Keys : LinesOf(file, k) \subseteq LinesOf(file, k)'
             /\ \A k \in Keys : latest[k] # NoEntry => latest'[k] # NoEntry
             /\ \A k \in Keys :
                  latest'[k] # latest[k] => k = call[c].key /\ LinesOf(file, k)' # {}
  <2>1. call[c].key \in Keys
    BY <1>4, PendingEntryTyped
  <2>2. line \in Line
    BY <1>4 DEF Line
  <2>3. /\ file' \in Seq(Line)
        /\ \A k \in Keys : LinesOf(file, k) \subseteq LinesOf(file', k)
        /\ LinesOf(file', call[c].key) # {}
    BY <1>1, <1>4, <2>1, <2>2, AppendKeepsLines
  <2>4. \A k \in Keys : LinesOf(file, k)' = LinesOf(file', k)
    BY DEF LinesOf
  <2>. QED
    BY <1>1, <1>2, <1>4, <2>1, <2>3, <2>4
<1>5. ASSUME NEW line \in Line, UNCHANGED <<count, latest>>,
             file' \in AfterFailedWrite(file, line)
      PROVE  /\ file' \in Seq(Line) /\ count' \in Nat
             /\ latest' \in [Keys -> Entry \cup {NoEntry}]
             /\ \A k \in Keys : LinesOf(file, k) \subseteq LinesOf(file, k)'
             /\ \A k \in Keys : latest[k] # NoEntry => latest'[k] # NoEntry
             /\ \A k \in Keys :
                  latest'[k] # latest[k] => k = call[c].key /\ LinesOf(file, k)' # {}
  <2>1. /\ file' \in Seq(Line)
        /\ \A k \in Keys : LinesOf(file, k) \subseteq LinesOf(file', k)
    BY <1>1, <1>5, FailedWriteKeepsLines
  <2>2. \A k \in Keys : LinesOf(file, k)' = LinesOf(file', k)
    BY DEF LinesOf
  <2>. QED
    BY <1>1, <1>5, <2>1, <2>2
<1>6. CASE Reserve(c)
  <2>1. call[c].key \in Keys /\ call[c].pc # "idle"
    BY <1>6, PendingEntryTyped DEF Reserve
  <2>2. Reservation(call[c].key) \in Entry
        /\ Reservation(call[c].key).key = call[c].key
    BY <2>1, ReservationTyped DEF Reservation
  <2>. QED
    BY <1>3, <1>4, <1>6, <2>1, <2>2 DEF Reserve
<1>7. CASE AppendEntry(c)
  <2>1. call[c].pc # "idle" /\ PendingEntry(c) \in Entry
        /\ PendingEntry(c).key = call[c].key
    BY <1>7, PendingEntryTyped DEF AppendEntry
  <2>2. PendingEntry(c) \in Line
        /\ Append(file, PendingEntry(c)) \in AfterFailedWrite(file, PendingEntry(c))
    BY <2>1 DEF Line, AfterFailedWrite
  <2>3. CASE call[c].seq = count + 1
    BY <1>4, <1>7, <2>1, <2>3 DEF AppendEntry
  <2>4. CASE call[c].seq # count + 1
    BY <1>5, <1>7, <2>2, <2>4 DEF AppendEntry
  <2>. QED
    BY <2>3, <2>4
<1>8. CASE ReserveFails(c)
  <2>1. call[c].key \in Keys
    BY <1>8, PendingEntryTyped DEF ReserveFails
  <2>2. Reservation(call[c].key) \in Line
    BY <2>1, ReservationTyped DEF Line
  <2>. QED
    BY <1>5, <1>8, <2>2 DEF ReserveFails
<1>9. CASE AppendFails(c)
  <2>1. PendingEntry(c) \in Line
    BY <1>9, PendingEntryTyped DEF AppendFails, Line
  <2>. QED
    BY <1>5, <1>9, <2>1 DEF AppendFails
<1>. QED
  BY <1>3, <1>6, <1>7, <1>8, <1>9
     DEF Step, ReadPrecondition, Authorize, Stamp, OpenBrowser, Dispatch,
         Refresh, Verify, CannotVerify, Unknown, ReviewSinkFails, Replay

\* The remaining variables keep their types in a step of a caller.
LEMMA StepTyped ==
  ASSUME TypeOK, CallersWellFormed, NEW c \in Callers, Step(c)
  PROVE  TypeOK'
<1>1. call[c].pc # "idle" /\ call[c].key \in Keys /\ call[c] \in Call
  <2>1. call[c].pc # "idle"
    BY DEF Step, ReadPrecondition, Reserve, ReserveFails, Authorize, Stamp,
           AppendEntry, AppendFails, OpenBrowser, Dispatch, Refresh, Verify,
           CannotVerify, Unknown, ReviewSinkFails, Replay
  <2>. QED
    BY <2>1, PendingEntryTyped DEF TypeOK
<1>2. call' \in [Callers -> Call] /\ up' \in BOOLEAN
  BY StepKeepsCallers
<1>3. file' \in Seq(Line) /\ count' \in Nat
      /\ latest' \in [Keys -> Entry \cup {NoEntry}]
  BY StepKeepsLedger
<1>4. /\ enabled' \in BOOLEAN /\ paused' \in BOOLEAN
      /\ pausedActions' \subseteq Actions /\ freshRequired' \subseteq Actions
  <2>1. ActionOf[call[c].key] \in Actions
    BY <1>1, ExecutorAssumption
  <2>2. CASE UNCHANGED controlVars
    BY <2>2 DEF controlVars, TypeOK
  <2>3. CASE PauseForReview(ActionOf[call[c].key])
    BY <2>1, <2>3 DEF PauseForReview, TypeOK
  <2>. QED
    BY <2>2, <2>3
       DEF Step, ReadPrecondition, Reserve, ReserveFails, Authorize, Stamp,
           AppendEntry, AppendFails, OpenBrowser, Dispatch, Refresh, Verify,
           CannotVerify, Unknown, ReviewSinkFails, Replay
<1>5. attempts' \in [Keys -> Nat] /\ applied' \in [Keys -> Nat]
  <2>1. CASE UNCHANGED espnVars
    BY <2>1 DEF espnVars, TypeOK
  <2>2. CASE Dispatch(c)
    <3>1. attempts' \in [Keys -> Nat]
      BY <1>1, <2>2 DEF Dispatch, TypeOK
    <3>2. CASE UNCHANGED applied
      BY <3>1, <3>2 DEF TypeOK
    <3>3. ASSUME NEW e \in {0, 1}, applied' = [applied EXCEPT ![call[c].key] = @ + e]
          PROVE  applied' \in [Keys -> Nat]
      BY <1>1, <3>3 DEF TypeOK
    <3>. QED
      BY <2>2, <3>1, <3>2, <3>3 DEF Dispatch
  <2>. QED
    BY <2>1, <2>2
       DEF Step, ReadPrecondition, Reserve, ReserveFails, Authorize, Stamp,
           AppendEntry, AppendFails, OpenBrowser, Refresh, Verify,
           CannotVerify, Unknown, ReviewSinkFails, Replay
<1>6. answers' \in [Keys -> SUBSET TerminalStates]
  <2>1. CASE UNCHANGED answers
    BY <2>1 DEF TypeOK
  <2>2. ASSUME NEW state \in TerminalStates, Return(c, state)
        PROVE  answers' \in [Keys -> SUBSET TerminalStates]
    BY <1>1, <2>2 DEF Return, TypeOK
  <2>3. CASE Reserve(c)
    BY <1>1, <2>1, <2>2, <2>3 DEF Reserve, HasResult
  <2>4. CASE AppendEntry(c)
    <3>1. CASE OnRaise(c)
      BY <2>1, <3>1 DEF OnRaise, Raise
    <3>2. CASE Continue(c)
      <4>1. call[c].event \in Events \ {"reserved"}
            /\ (call[c].event = "result" => call[c].state \in TerminalStates)
        BY <1>1, <2>4 DEF AppendEntry, CallersWellFormed, WellFormed, Call
      <4>2. CASE call[c].event = "result"
        BY <2>2, <3>2, <4>1, <4>2 DEF Continue
      <4>3. CASE call[c].event # "result"
        BY <2>1, <3>2, <4>1, <4>3 DEF Continue, Events, Phases
      <4>. QED
        BY <4>2, <4>3
    <3>. QED
      BY <2>4, <3>1, <3>2 DEF AppendEntry
  <2>. QED
    BY <2>1, <2>3, <2>4
       DEF Step, ReadPrecondition, ReserveFails, Raise, Authorize, Stamp,
           AppendFails, OnRaise, OpenBrowser, Dispatch, Refresh, Verify,
           CannotVerify, Unknown, ReviewSinkFails, Replay
<1>7. clock' \in Nat /\ faults' \in Nat /\ crashes' \in Nat
  BY DEF TypeOK, budgetVars, Step, ReadPrecondition, Reserve, ReserveFails,
         Authorize, Stamp, AppendEntry, AppendFails, OpenBrowser, Dispatch,
         Refresh, Verify, CannotVerify, Unknown, ReviewSinkFails, Replay
<1>. QED
  BY <1>2, <1>3, <1>4, <1>5, <1>6, <1>7 DEF TypeOK

\* The actions that are not steps of a call under way.
LEMMA OtherActionsTyped ==
  ASSUME TypeOK, CallersWellFormed
  PROVE  /\ \A c \in Callers : \A k \in KeysOf[c] :
              Begin(c, k) => TypeOK' /\ CallersWellFormed'
         /\ Operate => TypeOK' /\ CallersWellFormed'
         /\ \A a \in Actions : ResolveReview(a) => TypeOK' /\ CallersWellFormed'
         /\ Crash => TypeOK' /\ CallersWellFormed'
         /\ Restart => TypeOK' /\ CallersWellFormed'
         /\ Tick => TypeOK' /\ CallersWellFormed'
         /\ UNCHANGED vars => TypeOK' /\ CallersWellFormed'
<1>. USE DEF controlVars, ledgerVars, espnVars, budgetVars
<1>1. UNCHANGED <<up, call>> => CallersWellFormed'
  BY DEF CallersWellFormed, WellFormed
<1>2. ASSUME NEW c \in Callers, NEW k \in KeysOf[c], Begin(c, k)
      PROVE  TypeOK' /\ CallersWellFormed'
  <2>1. k \in Keys
    BY ExecutorAssumption
  <2>2. CASE UNCHANGED call
    <3>1. \/ UNCHANGED answers
          \/ /\ HasResult(latest[k])
             /\ answers' = [answers EXCEPT ![k] = @ \cup {latest[k].state}]
      BY <1>2 DEF Begin
    <3>2. answers' \in [Keys -> SUBSET TerminalStates]
      <4>1. answers \in [Keys -> SUBSET TerminalStates]
        BY DEF TypeOK
      <4>2. HasResult(latest[k]) => latest[k].state \in TerminalStates
        BY DEF HasResult
      <4> QED BY <2>1, <3>1, <4>1, <4>2
    <3>3. TypeOK'
      BY <1>2, <2>2, <3>2 DEF Begin, TypeOK
    <3>. QED
      BY <1>1, <1>2, <2>2, <3>3 DEF Begin
  <2>3. ASSUME NEW label \in {"read", "replay"}, UNCHANGED answers,
               call' = [call EXCEPT ![c] =
                 [IdleCall EXCEPT !.key = k, !.now = clock, !.pc = label]]
        PROVE  TypeOK' /\ CallersWellFormed'
    <3>. DEFINE r == [IdleCall EXCEPT !.key = k, !.now = clock, !.pc = label]
    <3>1. r \in Call /\ r.pc = label /\ r.key = k
      BY <2>1, <2>3, IdleCallTyped DEF Call, Labels, TypeOK
    <3>. HIDE DEF r
    <3>2. call' \in [Callers -> Call] /\ call' = [call EXCEPT ![c] = r]
      BY <2>3, <3>1 DEF TypeOK, r
    <3>3. TypeOK'
      BY <1>2, <2>3, <3>2 DEF Begin, TypeOK
    <3>4. WellFormed(c, r)
      BY <2>3, <3>1 DEF WellFormed
    <3>5. CallersWellFormed'
      BY <1>2, <3>1, <3>2, <3>4 DEF Begin, CallersWellFormed, WellFormed, TypeOK
    <3>. QED
      BY <3>3, <3>5
  <2>4. CASE ~Unclaimed(k) /\ HasResult(latest[k])
    BY <1>2, <2>2, <2>4 DEF Begin
  <2>5. CASE Unclaimed(k)
    BY <1>2, <2>3, <2>4, <2>5 DEF Begin
  <2>6. CASE ~Unclaimed(k) /\ ~HasResult(latest[k])
    BY <1>2, <2>3, <2>6 DEF Begin
  <2>. QED
    BY <2>4, <2>5, <2>6
<1>3. Operate => TypeOK' /\ CallersWellFormed'
  BY <1>1 DEF Operate, TypeOK
<1>4. \A a \in Actions : ResolveReview(a) => TypeOK' /\ CallersWellFormed'
  BY <1>1 DEF ResolveReview, TypeOK
<1>5. ASSUME Crash
      PROVE  TypeOK' /\ CallersWellFormed'
  <2>1. file' \in Seq(Line)
    BY <1>5, TornLineInLine, AppendKeepsLines DEF Crash, TypeOK
  <2>2. call' = [c \in Callers |-> IdleCall] /\ call' \in [Callers -> Call]
    BY <1>5, IdleCallTyped DEF Crash
  <2>3. latest' \in [Keys -> Entry \cup {NoEntry}]
    BY <1>5 DEF Crash
  <2>4. faults' \in Nat /\ crashes' \in Nat
    BY <1>5 DEF Crash, TypeOK
  <2>5. /\ up' \in BOOLEAN /\ count' \in Nat
        /\ enabled' \in BOOLEAN /\ paused' \in BOOLEAN
        /\ pausedActions' \subseteq Actions /\ freshRequired' \subseteq Actions
        /\ UNCHANGED <<clock, attempts, applied, answers>>
    BY <1>5 DEF Crash, TypeOK
  <2>6. TypeOK'
    BY <2>1, <2>2, <2>3, <2>4, <2>5 DEF TypeOK
  <2>7. CallersWellFormed'
    BY <2>2 DEF CallersWellFormed, WellFormed, IdleCall
  <2>. QED
    BY <2>6, <2>7
<1>6. ASSUME Restart
      PROVE  TypeOK' /\ CallersWellFormed'
  <2>1. latest' \in [Keys -> Entry \cup {NoEntry}]
    BY <1>6, LastLineIsEntry DEF Restart, Reload, TypeOK
  <2>2. TypeOK'
    BY <1>6, <2>1 DEF Restart, TypeOK
  <2>3. CallersWellFormed'
    BY <1>6 DEF Restart, CallersWellFormed, WellFormed
  <2>. QED
    BY <2>2, <2>3
<1>7. Tick => TypeOK' /\ CallersWellFormed'
  BY <1>1 DEF Tick, TypeOK
<1>8. UNCHANGED vars => TypeOK' /\ CallersWellFormed'
  BY <1>1 DEF vars, TypeOK
<1>. QED
  BY <1>2, <1>3, <1>4, <1>5, <1>6, <1>7, <1>8

\* Every variable of the executor keeps its type, for any number of callers,
\* keys and actions, any sharing of keys and any number of faults and crashes.
THEOREM TypeCorrect == Spec => [](TypeOK /\ CallersWellFormed)
<1>1. ASSUME Init
      PROVE  TypeOK /\ CallersWellFormed
  <2>1. call \in [Callers -> Call] /\ CallersWellFormed
    BY <1>1, IdleCallTyped DEF Init, CallersWellFormed, WellFormed, IdleCall
  <2>2. file \in Seq(Line) /\ latest \in [Keys -> Entry \cup {NoEntry}]
    BY <1>1 DEF Init
  <2>3. /\ attempts \in [Keys -> Nat] /\ applied \in [Keys -> Nat]
        /\ answers \in [Keys -> SUBSET TerminalStates]
    BY <1>1 DEF Init
  <2>. QED
    BY <1>1, <2>1, <2>2, <2>3 DEF Init, TypeOK
<1>2. TypeOK /\ CallersWellFormed /\ [Next]_vars => (TypeOK /\ CallersWellFormed)'
  BY StepTyped, StepKeepsCallers, OtherActionsTyped DEF Next
<1>. QED
  BY <1>1, <1>2, PTL DEF Spec

-----------------------------------------------------------------------------
(* No key is dispatched twice *)

\* How a step moves a caller relative to its reservation and its dispatch:
\* after a dispatch, and after a replay, no label leads back to one.
LEMMA StepOrder ==
  ASSUME TypeOK, CallersWellFormed, NEW c \in Callers, Step(c)
  PROVE  /\ call'[c].pc # "idle" => call'[c].key = call[c].key
         /\ BeforeDispatch(c)' => BeforeDispatch(c) /\ call[c].pc # "dispatch"
         /\ HoldsReservation(c)' =>
              \/ HoldsReservation(c)
              \/ call[c].pc = "reserve" /\ latest'[call[c].key] # NoEntry
         /\ \/ UNCHANGED attempts
            \/ /\ call[c].pc = "dispatch"
               /\ attempts' = [attempts EXCEPT ![call[c].key] = @ + 1]
<1>. DEFINE k == call[c].key
            P == /\ call'[c].pc # "idle" => call'[c].key = call[c].key
                 /\ BeforeDispatch(c)' => BeforeDispatch(c) /\ call[c].pc # "dispatch"
                 /\ HoldsReservation(c)' =>
                      \/ HoldsReservation(c)
                      \/ call[c].pc = "reserve" /\ latest'[call[c].key] # NoEntry
<1>1. call[c] \in Call /\ call \in [Callers -> Call]
  BY DEF TypeOK
<1>2. ASSUME NEW label \in Labels \ {"stamp", "append", "authorize", "open", "dispatch",
                                     "read", "reserve"},
             Goto(c, label)
      PROVE  P
  BY <1>1, <1>2 DEF Goto, At, IdleCall, BeforeDispatch, HoldsReservation
<1>3. call' = [call EXCEPT ![c] = IdleCall] => P
  BY <1>1 DEF IdleCall, BeforeDispatch, HoldsReservation
<1>4. ASSUME NEW event \in Events \ PreDispatchEvents, NEW state \in States,
             Emit(c, event, state)
      PROVE  P
  BY <1>1, <1>4 DEF Emit, At, IdleCall, BeforeDispatch, HoldsReservation
<1>5. ASSUME NEW event \in PreDispatchEvents, NEW state \in States,
             Emit(c, event, state), HoldsReservation(c), call[c].pc # "dispatch"
      PROVE  P
  BY <1>1, <1>5 DEF Emit, At, IdleCall, BeforeDispatch, HoldsReservation
<1>6. P
  <2>. USE DEF Labels, Events, Phases, States, TerminalStates, PreDispatchEvents
  <2>1. CASE ReadPrecondition(c)
    BY <1>1, <2>1 DEF ReadPrecondition, BeforeDispatch, HoldsReservation
  <2>2. CASE Reserve(c)
    <3>1. CASE Unclaimed(k)
      <4>1. k \in Keys /\ Reservation(k) \in Entry /\ NoEntry \notin Entry
        BY <2>2, PendingEntryTyped, ReservationTyped, SentinelsAssumption DEF Reserve
      <4>2. latest' = [latest EXCEPT ![k] = Reservation(k)]
            /\ call' = [call EXCEPT ![c].pc = "authorize"]
        BY <2>2, <3>1 DEF Reserve
      <4>3. latest'[k] # NoEntry
        BY <4>1, <4>2 DEF TypeOK
      <4>. QED
        BY <1>1, <2>2, <4>2, <4>3 DEF Reserve, BeforeDispatch, HoldsReservation
    <3>2. CASE ~Unclaimed(k) /\ HasResult(latest[k])
      BY <1>3, <2>2, <3>2 DEF Reserve, Return
    <3>3. CASE ~Unclaimed(k) /\ ~HasResult(latest[k])
      <4>1. latest' = latest /\ latest[k] # NoEntry /\ call[c].pc = "reserve"
        BY <2>2, <3>3 DEF Reserve, Unclaimed, ledgerVars
      <4>2. PICK label \in {"authorize", "replay"} :
              call' = [call EXCEPT ![c].pc = label]
        BY <2>2, <3>3 DEF Reserve
      <4>. QED
        BY <1>1, <4>1, <4>2 DEF BeforeDispatch, HoldsReservation
    <3>. QED
      BY <3>1, <3>2, <3>3
  <2>3. CASE ReserveFails(c)
    BY <1>3, <2>3 DEF ReserveFails, Raise
  <2>4. CASE Authorize(c)
    BY <1>5, <2>4 DEF Authorize, HoldsReservation
  <2>5. CASE Stamp(c)
    BY <1>1, <2>5 DEF Stamp, BeforeDispatch, HoldsReservation
  <2>6. CASE AppendEntry(c) \/ AppendFails(c)
    <3>1. call[c].pc = "append" /\ call[c].event \in Events \ {"reserved"}
      BY <1>1, <2>6 DEF AppendEntry, AppendFails, CallersWellFormed, WellFormed, Call
    <3>2. CASE OnRaise(c)
      BY <1>2, <1>3, <3>2 DEF OnRaise, Raise
    <3>3. CASE Continue(c)
      <4>1. CASE call[c].event = "authorization"
        BY <1>4, <1>5, <3>1, <3>3, <4>1 DEF Continue, HoldsReservation
      <4>2. CASE call[c].event \in {"phase:reserved", "phase:before_dispatch"}
        BY <1>1, <3>1, <3>3, <4>2 DEF Continue, Goto, At, IdleCall,
                                      BeforeDispatch, HoldsReservation
      <4>3. CASE call[c].event = "phase:dispatched"
        BY <1>2, <3>3, <4>3 DEF Continue
      <4>4. CASE call[c].event = "phase:refreshed"
        <5>1. call' = [call EXCEPT ![c].pc = "verify"]
          BY <3>3, <4>4 DEF Continue
        <5>. QED
          BY <1>1, <5>1 DEF BeforeDispatch, HoldsReservation
      <4>5. CASE call[c].event = "result"
        BY <1>3, <3>3, <4>5 DEF Continue, Return
      <4>. QED
        BY <3>1, <4>1, <4>2, <4>3, <4>4, <4>5
    <3>. QED
      BY <2>6, <3>2, <3>3 DEF AppendEntry, AppendFails
  <2>7. CASE OpenBrowser(c)
    BY <1>2, <1>4, <1>5, <2>7 DEF OpenBrowser, HoldsReservation
  <2>8. CASE Dispatch(c)
    BY <1>2, <1>4, <2>8 DEF Dispatch
  <2>9. CASE Refresh(c)
    BY <1>1, <2>9 DEF Refresh, At, IdleCall, BeforeDispatch, HoldsReservation
  <2>10. CASE Verify(c) \/ CannotVerify(c) \/ Unknown(c) \/ Replay(c)
    BY <1>2, <1>4, <2>10 DEF Verify, CannotVerify, Unknown, Replay
  <2>11. CASE ReviewSinkFails(c)
    BY <1>3, <2>11 DEF ReviewSinkFails, Raise
  <2>. QED
    BY <2>1, <2>2, <2>3, <2>4, <2>5, <2>6, <2>7, <2>8, <2>9, <2>10, <2>11 DEF Step
<1>7. \/ UNCHANGED attempts
      \/ /\ call[c].pc = "dispatch"
         /\ attempts' = [attempts EXCEPT ![call[c].key] = @ + 1]
  BY DEF espnVars, Step, ReadPrecondition, Reserve, ReserveFails, Authorize,
         Stamp, AppendEntry, AppendFails, OpenBrowser, Dispatch, Refresh, Verify,
         CannotVerify, Unknown, ReviewSinkFails, Replay
<1>. QED
  BY <1>6, <1>7

\* The invariant is inductive when no two callers share a key.
LEMMA StepKeepsDispatchInv ==
  ASSUME ExclusiveKeys, TypeOK, DispatchInv, NEW c \in Callers, Step(c)
  PROVE  DispatchInv'
<1>. DEFINE k == call[c].key
<1>1. CallersWellFormed /\ TypeOK' /\ CallersWellFormed' /\ up /\ up'
  BY StepTyped, StepKeepsCallers DEF DispatchInv
<1>2. call[c].pc # "idle" /\ k \in Keys /\ k \in KeysOf[c]
  BY <1>1, ExecutorAssumption
     DEF CallersWellFormed, WellFormed, Step, ReadPrecondition, Reserve, ReserveFails, Authorize,
         Stamp, AppendEntry, AppendFails, OpenBrowser, Dispatch, Refresh, Verify,
         CannotVerify, Unknown, ReviewSinkFails, Replay
<1>3. PICK r \in Call : call' = [call EXCEPT ![c] = r] /\ WellFormed(c, r)
  BY <1>1, StepMovesCaller
<1>4. \A d \in Callers \ {c} : call'[d] = call[d]
  BY <1>3 DEF TypeOK
<1>5. ASSUME NEW d \in Callers \ {c}, call[d].pc # "idle"
      PROVE  call[d].key # k /\ call[d].key \in Keys
  BY <1>1, <1>2, <1>5, ExecutorAssumption
     DEF ExclusiveKeys, CallersWellFormed, WellFormed
<1>6. /\ \A j \in Keys : LinesOf(file, j) \subseteq LinesOf(file, j)'
      /\ \A j \in Keys : latest[j] # NoEntry => latest'[j] # NoEntry
      /\ \A j \in Keys : latest'[j] # latest[j] => LinesOf(file, j)' # {}
  BY <1>1, StepKeepsLedger
<1>7. /\ call'[c].pc # "idle" => call'[c].key = k
      /\ BeforeDispatch(c)' => BeforeDispatch(c) /\ call[c].pc # "dispatch"
      /\ HoldsReservation(c)' =>
           HoldsReservation(c) \/ (call[c].pc = "reserve" /\ latest'[k] # NoEntry)
      /\ UNCHANGED attempts \/ (/\ call[c].pc = "dispatch"
                                /\ attempts' = [attempts EXCEPT ![k] = @ + 1])
  BY <1>1, StepOrder
<1>8. /\ \A j \in Keys \ {k} : attempts'[j] = attempts[j]
      /\ call[c].pc # "dispatch" => UNCHANGED attempts
      /\ attempts \in [Keys -> Nat] /\ attempts' \in [Keys -> Nat]
  BY <1>1, <1>2, <1>7 DEF TypeOK
<1>9. HoldsReservation(c) => LinesOf(file, k) # {} /\ latest[k] # NoEntry
  BY DEF DispatchInv, ReservationsHeld
<1>10. BeforeDispatch(c) => attempts[k] = 0
  BY DEF DispatchInv, ReservationsHeld
<1>11. ReservationsHeld'
  <2>1. ASSUME BeforeDispatch(c)'
        PROVE  attempts'[call'[c].key] = 0
    <3>1. call'[c].pc # "idle"
      BY <2>1 DEF BeforeDispatch, HoldsReservation
    <3>. QED
      BY <1>7, <1>8, <1>10, <2>1, <3>1
  <2>2. ASSUME HoldsReservation(c)'
        PROVE  LinesOf(file, k)' # {} /\ latest'[k] # NoEntry /\ call'[c].key = k
    <3>1. call'[c].pc # "idle" /\ call'[c].key = k
      BY <1>7, <2>2 DEF HoldsReservation
    <3>2. CASE HoldsReservation(c)
      BY <1>2, <1>6, <1>9, <3>1, <3>2
    <3>3. CASE call[c].pc = "reserve" /\ latest'[k] # NoEntry
      <4>1. CASE latest'[k] = latest[k]
        BY <1>2, <1>6, <3>1, <3>3, <4>1 DEF DispatchInv, AttemptsRecorded
      <4>2. CASE latest'[k] # latest[k]
        BY <1>2, <1>6, <3>1, <3>3, <4>2
      <4>. QED
        BY <4>1, <4>2
    <3>. QED
      BY <1>7, <2>2, <3>2, <3>3
  <2>3. ASSUME NEW d \in Callers \ {c}, BeforeDispatch(d)'
        PROVE  attempts'[call'[d].key] = 0
    <3>1. call'[d] = call[d] /\ BeforeDispatch(d) /\ call[d].pc # "idle"
      BY <1>4, <2>3 DEF BeforeDispatch, HoldsReservation
    <3>2. attempts[call[d].key] = 0
      BY <3>1 DEF DispatchInv, ReservationsHeld
    <3>. QED
      BY <1>5, <1>8, <3>1, <3>2
  <2>4. ASSUME NEW d \in Callers \ {c}, HoldsReservation(d)'
        PROVE  LinesOf(file, call[d].key)' # {} /\ latest'[call[d].key] # NoEntry
    <3>1. call'[d] = call[d] /\ HoldsReservation(d) /\ call[d].pc # "idle"
      BY <1>4, <2>4 DEF HoldsReservation
    <3>2. LinesOf(file, call[d].key) # {} /\ latest[call[d].key] # NoEntry
      BY <3>1 DEF DispatchInv, ReservationsHeld
    <3>3. call[d].key \in Keys /\ LinesOf(file, call[d].key) \subseteq LinesOf(file, call[d].key)'
      BY <1>5, <1>6, <3>1
    <3>. QED
      BY <1>5, <1>6, <3>1, <3>2, <3>3
  <2>5. \A d \in Callers : BeforeDispatch(d)' => attempts'[call'[d].key] = 0
    BY <2>1, <2>3
  <2>6. ASSUME NEW d \in Callers, HoldsReservation(d)'
        PROVE  LinesOf(file, call[d].key)' # {} /\ latest'[call'[d].key] # NoEntry
               /\ call'[d].key = call[d].key
    BY <1>4, <2>2, <2>4, <2>6
  <2>7. \A d \in Callers :
          HoldsReservation(d)' => LinesOf(file', call'[d].key) # {}
                                  /\ latest'[call'[d].key] # NoEntry
    BY <2>6 DEF LinesOf
  <2>. QED
    BY <2>5, <2>7 DEF ReservationsHeld, LinesOf
<1>12. AttemptsRecorded'
  <2>1. ASSUME NEW j \in Keys, attempts'[j] > 0
        PROVE  LinesOf(file, j)' # {} /\ latest'[j] # NoEntry
    <3>1. CASE attempts'[j] = attempts[j]
      BY <1>1, <1>6, <2>1, <3>1 DEF DispatchInv, AttemptsRecorded
    <3>2. CASE attempts'[j] # attempts[j]
      <4>1. j = k /\ HoldsReservation(c)
        BY <1>7, <1>8, <3>2 DEF HoldsReservation
      <4>. QED
        BY <1>2, <1>6, <1>9, <4>1
    <3>. QED
      BY <3>1, <3>2
  <2>2. ASSUME NEW j \in Keys, latest'[j] # NoEntry
        PROVE  LinesOf(file, j)' # {}
    BY <1>6, <2>2 DEF DispatchInv, AttemptsRecorded
  <2>. QED
    BY <2>1, <2>2 DEF AttemptsRecorded
<1>13. AtMostOneDispatch'
  <2>1. CASE UNCHANGED attempts
    BY <2>1 DEF DispatchInv, AtMostOneDispatch
  <2>2. CASE call[c].pc = "dispatch" /\ attempts' = [attempts EXCEPT ![k] = @ + 1]
    <3>1. attempts[k] = 0
      BY <1>10, <2>2 DEF BeforeDispatch, HoldsReservation
    <3>. QED
      BY <1>2, <1>8, <2>2, <3>1 DEF DispatchInv, AtMostOneDispatch
  <2>. QED
    BY <1>7, <2>1, <2>2
<1>. QED
  BY <1>1, <1>11, <1>12, <1>13 DEF DispatchInv

\* The actions outside a call keep it too.  A crash ends every call, and a
\* restart finds in the file every key the calls had recorded.
LEMMA OtherActionsKeepDispatchInv ==
  ASSUME TypeOK, DispatchInv
  PROVE  /\ \A c \in Callers : \A k \in KeysOf[c] : Begin(c, k) => DispatchInv'
         /\ Operate => DispatchInv'
         /\ \A a \in Actions : ResolveReview(a) => DispatchInv'
         /\ Crash => DispatchInv'
         /\ Restart => DispatchInv'
         /\ Tick => DispatchInv'
         /\ UNCHANGED vars => DispatchInv'
<1>. USE DEF controlVars, ledgerVars, espnVars, budgetVars
<1>1. CallersWellFormed /\ ReservationsHeld /\ AttemptsRecorded /\ AtMostOneDispatch
  BY DEF DispatchInv
<1>2. UNCHANGED attempts => AtMostOneDispatch'
  BY <1>1 DEF AtMostOneDispatch
<1>3. UNCHANGED <<up, latest, file, attempts>> => AttemptsRecorded'
  BY <1>1 DEF AttemptsRecorded, LinesOf
<1>4. UNCHANGED <<call, latest, file, attempts>> => ReservationsHeld'
  BY <1>1 DEF ReservationsHeld, BeforeDispatch, HoldsReservation, LinesOf
<1>5. UNCHANGED <<up, call, latest, file, attempts>> /\ CallersWellFormed' => DispatchInv'
  BY <1>2, <1>3, <1>4 DEF DispatchInv
<1>6. ASSUME NEW c \in Callers, NEW k \in KeysOf[c], Begin(c, k)
      PROVE  DispatchInv'
  <2>1. k \in Keys /\ CallersWellFormed' /\ call \in [Callers -> Call]
        /\ UNCHANGED <<up, latest, file, attempts>>
    BY <1>1, <1>6, ExecutorAssumption, OtherActionsTyped DEF Begin, TypeOK
  <2>2. CASE UNCHANGED call
    BY <1>5, <2>1, <2>2
  <2>3. ASSUME NEW label \in {"read", "replay"}, label = "read" => Unclaimed(k),
               call' = [call EXCEPT ![c] =
                 [IdleCall EXCEPT !.key = k, !.now = clock, !.pc = label]]
        PROVE  DispatchInv'
    <3>1. attempts[k] \in Nat /\ (label = "read" => attempts[k] = 0)
      BY <1>1, <1>6, <2>1, <2>3 DEF Begin, AttemptsRecorded, Unclaimed, TypeOK
    <3>2. /\ call'[c].pc = label /\ call'[c].key = k
          /\ \A d \in Callers \ {c} : call'[d] = call[d]
      BY <2>1, <2>3 DEF IdleCall
    <3>3. ~HoldsReservation(c)' /\ (BeforeDispatch(c)' => label = "read")
      BY <3>2 DEF BeforeDispatch, HoldsReservation
    <3>4. ASSUME NEW d \in Callers
          PROVE  /\ BeforeDispatch(d)' => attempts'[call'[d].key] = 0
                 /\ HoldsReservation(d)' => LinesOf(file', call'[d].key) # {}
                                            /\ latest'[call'[d].key] # NoEntry
      <4>1. CASE d = c
        BY <2>1, <3>1, <3>2, <3>3, <4>1
      <4>2. CASE d # c
        BY <1>1, <2>1, <3>2, <4>2
           DEF ReservationsHeld, BeforeDispatch, HoldsReservation
      <4>. QED
        BY <4>1, <4>2
    <3>5. ReservationsHeld'
      BY <3>4 DEF ReservationsHeld, LinesOf
    <3>. QED
      BY <1>2, <1>3, <2>1, <3>5 DEF DispatchInv
  <2>4. CASE ~Unclaimed(k) /\ HasResult(latest[k])
    BY <1>6, <2>2, <2>4 DEF Begin
  <2>5. CASE Unclaimed(k)
    BY <1>6, <2>3, <2>5 DEF Begin
  <2>6. CASE ~Unclaimed(k) /\ ~HasResult(latest[k])
    BY <1>6, <2>3, <2>6 DEF Begin
  <2>. QED
    BY <2>4, <2>5, <2>6
<1>7. Operate => DispatchInv'
  BY <1>1, <1>5, OtherActionsTyped DEF Operate
<1>8. \A a \in Actions : ResolveReview(a) => DispatchInv'
  BY <1>1, <1>5, OtherActionsTyped DEF ResolveReview
<1>9. ASSUME Crash
      PROVE  DispatchInv'
  <2>1. /\ CallersWellFormed' /\ UNCHANGED attempts /\ up' = FALSE
        /\ latest' = [k \in Keys |-> NoEntry] /\ call' = [c \in Callers |-> IdleCall]
        /\ file' \in {file, Append(file, TornLine)}
    BY <1>1, <1>9, OtherActionsTyped DEF Crash
  <2>2. \A k \in Keys : LinesOf(file, k) \subseteq LinesOf(file', k)
    <3>1. file \in Seq(Line)
      BY DEF TypeOK
    <3>. QED
      BY <2>1, <3>1, AppendKeepsLines, TornLineInLine
  <2>3. ReservationsHeld'
    BY <2>1 DEF ReservationsHeld, BeforeDispatch, HoldsReservation, IdleCall
  <2>4. ASSUME NEW k \in Keys
        PROVE  /\ attempts'[k] > 0 => LinesOf(file', k) # {} /\ ~up'
               /\ latest'[k] = NoEntry
    BY <1>1, <2>1, <2>2 DEF AttemptsRecorded
  <2>5. AttemptsRecorded'
    BY <2>4 DEF AttemptsRecorded, LinesOf
  <2>. QED
    BY <1>2, <2>1, <2>3, <2>5 DEF DispatchInv
<1>10. ASSUME Restart
       PROVE  DispatchInv'
  <2>1. /\ CallersWellFormed' /\ ~up
        /\ UNCHANGED <<attempts, call, file>> /\ latest' = Reload(file)
    BY <1>1, <1>10, OtherActionsTyped DEF Restart
  <2>2. file \in Seq(Line) /\ Readable(file)
    BY <1>10 DEF TypeOK, Restart
  <2>3. ASSUME NEW k \in Keys
        PROVE  latest'[k] # NoEntry <=> LinesOf(file, k) # {}
    <3>1. latest'[k] = LastLine(file, k)
      BY <2>1 DEF Reload
    <3>2. LinesOf(file, k) # {} => LastLine(file, k) \in Entry
      BY <2>2, LastLineIsEntry
    <3>3. LinesOf(file, k) = {} => LastLine(file, k) = NoEntry
      BY DEF LastLine
    <3>. QED
      BY <3>1, <3>2, <3>3, SentinelsAssumption
  <2>4. \A c \in Callers : call[c].pc = "idle"
    BY <1>1, <2>1 DEF CallersWellFormed
  <2>5. ReservationsHeld'
    BY <2>1, <2>4 DEF ReservationsHeld, BeforeDispatch, HoldsReservation
  <2>6. AttemptsRecorded'
    BY <1>1, <2>1, <2>3 DEF AttemptsRecorded, LinesOf
  <2>. QED
    BY <1>2, <2>1, <2>5, <2>6 DEF DispatchInv
<1>11. Tick => DispatchInv'
  BY <1>1, <1>5, OtherActionsTyped DEF Tick
<1>12. UNCHANGED vars => DispatchInv'
  BY <1>1, <1>5, OtherActionsTyped DEF vars
<1>. QED
  BY <1>6, <1>7, <1>8, <1>9, <1>10, <1>11, <1>12

\* The reservation discipline of execute(), for any number of callers with
\* keys of their own, any number of faults, crashes and restarts.
THEOREM DispatchInvariant ==
  ASSUME ExclusiveKeys
  PROVE  Spec => []DispatchInv
<1>1. ASSUME Init
      PROVE  DispatchInv
  <2>1. \A c \in Callers : call[c] = IdleCall
    BY <1>1 DEF Init
  <2>2. CallersWellFormed /\ ReservationsHeld
    BY <2>1 DEF CallersWellFormed, WellFormed, ReservationsHeld, BeforeDispatch,
                HoldsReservation, IdleCall
  <2>. QED
    BY <1>1, <2>2 DEF Init, DispatchInv, AttemptsRecorded, AtMostOneDispatch
<1>2. TypeOK /\ DispatchInv /\ [Next]_vars => DispatchInv'
  BY StepKeepsDispatchInv, OtherActionsKeepDispatchInv DEF Next
<1>3. Spec => []TypeOK
  BY TypeCorrect, PTL
<1>. QED
  BY <1>1, <1>2, <1>3, PTL DEF Spec

\* No idempotency key is dispatched to ESPN twice, whatever fails, crashes or
\* is replayed, as long as one caller at a time uses a key.
THEOREM NoDoubleDispatch ==
  ASSUME ExclusiveKeys
  PROVE  Spec => []AtMostOneDispatch
<1>1. DispatchInv => AtMostOneDispatch
  BY DEF DispatchInv
<1>. QED
  BY <1>1, DispatchInvariant, PTL

-----------------------------------------------------------------------------
(* Answers are true, and there is one per key *)

LEMMA StepOfKey ==
  ASSUME TypeOK, CallersWellFormed, NEW c \in Callers, Step(c)
  PROVE  /\ call[c].pc # "idle" /\ up /\ up'
         /\ call[c].key \in KeysOf[c] /\ call[c].key \in Keys
  BY StepKeepsCallers, ExecutorAssumption
     DEF CallersWellFormed, WellFormed, Step, ReadPrecondition, Reserve, ReserveFails,
         Authorize, Stamp, AppendEntry, AppendFails, OpenBrowser, Dispatch, Refresh,
         Verify, CannotVerify, Unknown, ReviewSinkFails, Replay

\* The only line a step can write is the reservation or the entry of its
\* caller, and memory follows the file.
LEMMA StepWrites ==
  ASSUME TypeOK, CallersWellFormed, NEW c \in Callers, Step(c)
  PROVE  \/ UNCHANGED <<file, latest>>
         \/ \E line \in Entry :
              /\ line.key = call[c].key
              /\ \/ call[c].pc = "reserve" /\ line = Reservation(call[c].key)
                 \/ call[c].pc = "append" /\ line = PendingEntry(c)
              /\ file' \in AfterFailedWrite(file, line)
              /\ \/ UNCHANGED latest
                 \/ /\ file' = Append(file, line)
                    /\ latest' = [latest EXCEPT ![call[c].key] = line]
<1>. DEFINE k == call[c].key
<1>1. call[c].pc # "idle" /\ k \in Keys
  BY StepOfKey
<1>2. /\ Reservation(k) \in Entry /\ Reservation(k).key = k
      /\ PendingEntry(c) \in Entry /\ PendingEntry(c).key = k
  BY <1>1, ReservationTyped, PendingEntryTyped DEF Reservation
<1>3. \A line : Append(file, line) \in AfterFailedWrite(file, line)
  BY DEF AfterFailedWrite
<1>4. CASE Reserve(c)
  <2>1. /\ call[c].pc = "reserve"
        /\ \/ UNCHANGED <<file, latest>>
           \/ /\ file' = Append(file, Reservation(k))
              /\ latest' = [latest EXCEPT ![k] = Reservation(k)]
    BY <1>4 DEF ledgerVars, Reserve
  <2>2. CASE UNCHANGED <<file, latest>>
    BY <2>2
  <2>3. CASE /\ file' = Append(file, Reservation(k))
             /\ latest' = [latest EXCEPT ![k] = Reservation(k)]
    <3>1. file' \in AfterFailedWrite(file, Reservation(k))
      BY <1>3, <2>3
    <3>. QED
      BY <1>2, <2>1, <2>3, <3>1
  <2>. QED
    BY <2>1, <2>2, <2>3
<1>5. CASE ReserveFails(c)
  BY <1>2, <1>5 DEF ReserveFails
<1>6. CASE AppendEntry(c)
  BY <1>2, <1>3, <1>6 DEF AppendEntry
<1>7. CASE AppendFails(c)
  BY <1>2, <1>7 DEF AppendFails
<1>8. CASE UNCHANGED <<file, latest>>
  BY <1>8
<1>9. \/ Reserve(c) \/ ReserveFails(c) \/ AppendEntry(c) \/ AppendFails(c)
      \/ UNCHANGED <<file, latest>>
  BY DEF ledgerVars, Step, ReadPrecondition, Authorize, Stamp, OpenBrowser, Dispatch,
         Refresh, Verify, CannotVerify, Unknown, ReviewSinkFails, Replay
<1>. QED
  BY <1>4, <1>5, <1>6, <1>7, <1>8, <1>9

\* The answers change only when a caller returns the result it has on record.
LEMMA StepAnswers ==
  ASSUME TypeOK, CallersWellFormed, NEW c \in Callers, Step(c)
  PROVE  \/ UNCHANGED answers
         \/ \E state : answers' = [answers EXCEPT ![call[c].key] = @ \cup {state}]
<1>. DEFINE Answered == \/ UNCHANGED answers
                        \/ \E state : answers' = [answers EXCEPT ![call[c].key] = @ \cup {state}]
<1>1. \A state : Return(c, state) => Answered
  BY DEF Return
<1>2. Reserve(c) => Answered
  BY <1>1 DEF Reserve
<1>3. AppendEntry(c) => Answered
  BY <1>1 DEF AppendEntry, Continue, OnRaise, Raise
<1>. QED
  BY <1>2, <1>3
     DEF Step, ReadPrecondition, ReserveFails, Authorize, Stamp, Raise, OnRaise,
         AppendFails, OpenBrowser, Dispatch, Refresh, Verify,
         CannotVerify, Unknown, ReviewSinkFails, Replay

\* A step of a caller leaves the other keys alone, in the file, in memory, at
\* ESPN and in what clients were answered.
LEMMA StepKeepsOtherKeys ==
  ASSUME TypeOK, CallersWellFormed, NEW c \in Callers, Step(c),
         NEW j \in Keys, j # call[c].key
  PROVE  /\ LinesOf(file', j) = LinesOf(file, j)
         /\ \A i \in LinesOf(file, j) : file'[i] = file[i]
         /\ LastLine(file', j) = LastLine(file, j)
         /\ latest'[j] = latest[j] /\ answers'[j] = answers[j]
         /\ attempts'[j] = attempts[j] /\ applied'[j] = applied[j]
<1>. DEFINE Kept == /\ LinesOf(file', j) = LinesOf(file, j)
                    /\ \A i \in LinesOf(file, j) : file'[i] = file[i]
                    /\ LastLine(file', j) = LastLine(file, j)
                    /\ latest'[j] = latest[j]
<1>1. Kept
  <2>1. CASE UNCHANGED <<file, latest>>
    BY <2>1
  <2>2. ASSUME NEW line \in Entry, line.key = call[c].key,
               file' \in AfterFailedWrite(file, line),
               UNCHANGED latest \/ latest' = [latest EXCEPT ![call[c].key] = line]
        PROVE  Kept
    <3>1. file \in Seq(Line) /\ line \in Line
      BY DEF TypeOK, Line
    <3>2. LinesOf(file', j) = LinesOf(file, j) /\ LastLine(file', j) = LastLine(file, j)
      BY <2>2, <3>1, WriteKeepsOthers
    <3>3. \A i \in LinesOf(file, j) : file'[i] = file[i]
      BY <2>2, <3>1, WriteKeepsLines
    <3>. QED
      BY <2>2, <3>2, <3>3 DEF TypeOK
  <2>. QED
    <3>. HIDE DEF Kept
    <3>. QED
      BY <2>1, <2>2, StepWrites
<1>2. answers'[j] = answers[j]
  BY StepAnswers DEF TypeOK
<1>3. attempts'[j] = attempts[j] /\ applied'[j] = applied[j]
  BY DEF TypeOK, espnVars, Step, ReadPrecondition, Reserve, ReserveFails, Authorize,
         Stamp, AppendEntry, AppendFails, OpenBrowser, Dispatch, Refresh, Verify,
         CannotVerify, Unknown, ReviewSinkFails, Replay
<1>. QED
  BY <1>1, <1>2, <1>3

\* A step that writes nothing keeps what is known of the key, if the caller
\* does not unclaim it and has something true to record.
LEMMA QuietKeepsAnswers ==
  ASSUME TypeOK, CallersWellFormed, NEW c \in Callers, Step(c),
         NEW k \in Keys, k = call[c].key, KeyInv(k), CallInv(c),
         UNCHANGED <<file, latest, attempts, applied, answers>>,
         call'[c].pc # "idle" =>
           (call'[c].pc \in {"read", "reserve"} <=> call[c].pc \in {"read", "reserve"}),
         call'[c].pc \in {"stamp", "append"} => Truthful(k, call'[c].state),
         call'[c].seen => applied[k] > 0
  PROVE  KeyInv(k)' /\ CallInv(c)'
<1>1. call[c].pc # "idle" /\ up /\ up'
  BY StepOfKey
<1>2. KeyInv(k)'
  <2>1. /\ LinesOf(file, k)' = LinesOf(file, k) /\ LastLine(file, k)' = LastLine(file, k)
        /\ Settled(k)' <=> Settled(k)
        /\ \A s : Truthful(k, s)' <=> Truthful(k, s)
    BY DEF LinesOf, LastLine, Settled, Truthful
  <2>2. Undecided(k)' <=> Undecided(k)
    BY <2>1 DEF Undecided
  <2>. QED
    BY <1>1, <2>1, <2>2 DEF KeyInv
<1>3. (call'[c].pc # "idle" => call'[c].key = k) /\ (BeforeDispatch(c)' => BeforeDispatch(c))
  BY StepOrder
<1>4. ASSUME call'[c].pc # "idle"
      PROVE  CallInv(c)'
  <2>1. Settled(k)' = Settled(k) /\ Undecided(k)' = Undecided(k)
        /\ \A s : Truthful(k, s)' = Truthful(k, s)
    BY DEF Settled, Undecided, Truthful, LinesOf
  <2>2. /\ latest[k] = NoEntry <=> call[c].pc \in {"read", "reserve"}
        /\ ~Settled(k) /\ answers[k] = {}
        /\ BeforeDispatch(c) => Undecided(k)
    BY <1>1 DEF CallInv
  <2>. QED
    BY <1>3, <1>4, <2>1, <2>2 DEF CallInv
<1>. QED
  BY <1>2, <1>4 DEF CallInv

\* What a caller knows of its key before the dispatch, and after it.
LEMMA CallerKnows ==
  ASSUME TypeOK, DispatchInv, NEW c \in Callers, call[c].pc # "idle",
         NEW k \in Keys, k = call[c].key, KeyInv(k), CallInv(c)
  PROVE  /\ BeforeDispatch(c) => attempts[k] = 0 /\ applied[k] = 0 /\ Undecided(k)
         /\ call[c].seen => applied[k] = 1
         /\ \A state \in States \ {"verified", "failed", "rejected"} : Truthful(k, state)
<1>1. attempts[k] \in Nat /\ applied[k] \in Nat /\ applied[k] <= attempts[k] /\ attempts[k] <= 1
  BY DEF TypeOK, KeyInv, DispatchInv, AtMostOneDispatch
<1>2. BeforeDispatch(c) => attempts[k] = 0 /\ Undecided(k)
  BY DEF DispatchInv, ReservationsHeld, CallInv
<1>3. call[c].seen => applied[k] > 0
  BY DEF CallInv
<1>. QED
  BY <1>1, <1>2, <1>3 DEF Truthful

\* Steps that call a port, consult the controls or only number an entry.
LEMMA PortStepKeepsAnswers ==
  ASSUME TypeOK, DispatchInv, NEW c \in Callers,
         NEW k \in Keys, k = call[c].key, KeyInv(k), CallInv(c),
         \/ ReadPrecondition(c) \/ Authorize(c) \/ Stamp(c) \/ OpenBrowser(c)
         \/ Refresh(c) \/ Verify(c) \/ CannotVerify(c) \/ Unknown(c)
         \/ ReviewSinkFails(c) \/ Replay(c)
  PROVE  KeyInv(k)' /\ CallInv(c)'
<1>. DEFINE Claim == call'[c].pc # "idle" =>
                       (call'[c].pc \in {"read", "reserve"} <=> call[c].pc \in {"read", "reserve"})
            Entries == call'[c].pc \in {"stamp", "append"} => Truthful(k, call'[c].state)
            Sight == call'[c].seen => applied[k] > 0
<1>1. Step(c) /\ CallersWellFormed
  BY DEF Step, DispatchInv
<1>2. /\ call[c].pc # "idle" /\ call \in [Callers -> Call] /\ applied[k] \in Nat
      /\ UNCHANGED <<file, latest, attempts, applied, answers>>
  BY <1>1, StepOfKey
     DEF TypeOK, ledgerVars, espnVars, Raise, ReadPrecondition, Authorize, Stamp,
         OpenBrowser, Refresh, Verify, CannotVerify, Unknown, ReviewSinkFails, Replay
<1>3. /\ BeforeDispatch(c) => attempts[k] = 0 /\ applied[k] = 0 /\ Undecided(k)
      /\ call[c].seen => applied[k] = 1
      /\ \A state \in States \ {"verified", "failed", "rejected"} : Truthful(k, state)
  BY <1>2, CallerKnows
<1>4. ASSUME NEW label \in Labels \ {"stamp", "append", "read", "reserve"},
             Goto(c, label), call[c].pc \notin {"read", "reserve"}
      PROVE  Claim /\ Entries /\ Sight
  BY <1>2, <1>4 DEF Goto, At, IdleCall
<1>5. ASSUME NEW event, NEW state, Emit(c, event, state), Truthful(k, state),
             call[c].pc \notin {"read", "reserve"}
      PROVE  Claim /\ Entries /\ Sight
  BY <1>2, <1>5 DEF Emit, At, IdleCall
<1>6. call' = [call EXCEPT ![c] = IdleCall] => Claim /\ Entries /\ Sight
  BY <1>2 DEF IdleCall
<1>7. Claim /\ Entries /\ Sight
  <2>. USE DEF Labels, States, TerminalStates
  <2>1. CASE ReadPrecondition(c)
    <3>1. call'[c].pc = "reserve" /\ call'[c].seen = call[c].seen /\ call[c].pc = "read"
      <4>1. PICK s \in Snapshots : call' = [call EXCEPT ![c].pc = "reserve", ![c].snap = s]
        BY <2>1 DEF ReadPrecondition
      <4>2. call[c].pc = "read"
        BY <2>1 DEF ReadPrecondition
      <4>3. call'[c] = [call[c] EXCEPT !.pc = "reserve", !.snap = s] /\ call[c] \in Call
        BY <1>2, <4>1
      <4>. QED
        BY <4>2, <4>3 DEF Call
    <3>. QED
      BY <1>2, <3>1 DEF CallInv
  <2>2. CASE Authorize(c)
    <3>1. BeforeDispatch(c) /\ call[c].pc = "authorize"
      BY <2>2 DEF Authorize, BeforeDispatch, HoldsReservation
    <3>2. Truthful(k, "rejected") /\ Truthful(k, "in_flight")
      BY <1>3, <3>1 DEF Truthful
    <3>. QED
      BY <1>5, <2>2, <3>1, <3>2 DEF Authorize
  <2>3. CASE Stamp(c)
    BY <1>2, <2>3 DEF Stamp, CallInv
  <2>4. CASE OpenBrowser(c)
    <3>1. BeforeDispatch(c) /\ call[c].pc = "open"
      BY <2>4 DEF OpenBrowser, BeforeDispatch, HoldsReservation
    <3>2. Truthful(k, "failed") /\ Truthful(k, "in_flight")
      BY <1>3, <3>1 DEF Truthful
    <3>. QED
      BY <1>4, <1>5, <2>4, <3>1, <3>2 DEF OpenBrowser
  <2>5. CASE Refresh(c)
    <3>1. Truthful(k, "in_flight")
      BY <1>3
    <3>. QED
      BY <1>2, <2>5, <3>1 DEF Refresh, At, IdleCall
  <2>6. CASE Verify(c)
    <3>1. Confirmed(c) => Truthful(k, "verified")
      BY <1>3 DEF Confirmed, Truthful
    <3>. QED
      BY <1>4, <1>5, <2>6, <3>1 DEF Verify
  <2>7. CASE CannotVerify(c)
    BY <1>4, <2>7 DEF CannotVerify
  <2>8. CASE Unknown(c) \/ Replay(c)
    BY <1>3, <1>5, <2>8 DEF Unknown, Replay
  <2>9. CASE ReviewSinkFails(c)
    BY <1>6, <2>9 DEF ReviewSinkFails, Raise
  <2>. QED
    BY <2>1, <2>2, <2>3, <2>4, <2>5, <2>6, <2>7, <2>8, <2>9
<1>. QED
  BY <1>1, <1>2, <1>7, QuietKeepsAnswers

\* Before it decides a key, a caller adds only undecided lines to it; the line
\* it adds is true if the entry is.
LEMMA WrittenLines ==
  ASSUME TypeOK, NEW line \in Entry, NEW k \in Keys, line.key = k,
         file' \in AfterFailedWrite(file, line), UNCHANGED <<attempts, applied>>
  PROVE  /\ Undecided(k) /\ line.state = "in_flight" => Undecided(k)'
         /\ Truthful(k, line.state) /\ (\A i \in LinesOf(file, k) : Truthful(k, file[i].state))
              => \A i \in LinesOf(file, k)' : Truthful(k, file[i].state)'
<1>1. file \in Seq(Line) /\ line \in Line
  BY DEF TypeOK, Line
<1>2. \A i \in LinesOf(file', k) :
        file'[i] = line \/ (i \in LinesOf(file, k) /\ file'[i] = file[i])
  BY <1>1, FailedWriteLines
<1>3. LinesOf(file, k)' = LinesOf(file', k) /\ \A state : Truthful(k, state)' = Truthful(k, state)
  BY DEF LinesOf, Truthful
<1>4. Undecided(k) /\ line.state = "in_flight" => Undecided(k)'
  BY <1>2, <1>3 DEF Undecided
<1>5. ASSUME Truthful(k, line.state), \A i \in LinesOf(file, k) : Truthful(k, file[i].state),
             NEW i \in LinesOf(file', k)
      PROVE  Truthful(k, file'[i].state)
  BY <1>2, <1>5
<1>6. \A i \in LinesOf(file', k) : Truthful(k, file[i].state)' <=> Truthful(k, file'[i].state)
  BY DEF Truthful
<1>. QED
  BY <1>3, <1>4, <1>5, <1>6

\* reserve(): the key becomes known in memory only with its line.
LEMMA ReserveKeepsAnswers ==
  ASSUME TypeOK, DispatchInv, NEW c \in Callers,
         NEW k \in Keys, k = call[c].key, KeyInv(k), CallInv(c),
         Reserve(c) \/ ReserveFails(c)
  PROVE  KeyInv(k)' /\ CallInv(c)'
<1>. DEFINE line == Reservation(k)
<1>1. Step(c) /\ CallersWellFormed /\ call[c].pc = "reserve"
  BY DEF Step, DispatchInv, Reserve, ReserveFails
<1>2. up /\ up' /\ call \in [Callers -> Call] /\ latest \in [Keys -> Entry \cup {NoEntry}]
  BY <1>1, StepOfKey DEF TypeOK
<1>3. /\ latest[k] = NoEntry /\ answers[k] = {} /\ Undecided(k)
      /\ call[c].seen => applied[k] > 0
  BY <1>1 DEF CallInv, BeforeDispatch
<1>4. /\ line \in Entry /\ line.key = k /\ line.state = "in_flight" /\ line.event = "reserved"
      /\ ~HasResult(line) /\ NoEntry \notin Entry
  BY ReservationTyped, SentinelsAssumption DEF Reservation, HasResult
<1>. HIDE DEF line
<1>5. /\ file' \in AfterFailedWrite(file, line) /\ UNCHANGED <<attempts, applied, answers>>
      /\ \/ latest' = latest /\ call'[c] = IdleCall
         \/ /\ latest' = [latest EXCEPT ![k] = line]
            /\ call'[c].pc = "authorize" /\ call'[c].key = k /\ call'[c].seen = call[c].seen
  <2>1. CASE Reserve(c)
    <3>1. /\ file' = Append(file, line) /\ latest' = [latest EXCEPT ![k] = line]
          /\ call' = [call EXCEPT ![c].pc = "authorize"]
          /\ UNCHANGED <<attempts, applied, answers>>
      BY <1>3, <2>1 DEF Reserve, Unclaimed, line, espnVars
    <3>2. call'[c].pc = "authorize" /\ call'[c].key = k /\ call'[c].seen = call[c].seen
      BY <1>2, <3>1 DEF Call
    <3>. QED
      BY <3>1, <3>2 DEF AfterFailedWrite
  <2>2. CASE ReserveFails(c)
    BY <1>2, <2>2 DEF ReserveFails, Raise, line, espnVars
  <2>. QED
    BY <2>1, <2>2
<1>6. Undecided(k)'
  BY <1>3, <1>4, <1>5, WrittenLines
<1>7. KeyInv(k)'
  <2>1. \A i \in LinesOf(file, k)' : Truthful(k, file[i].state)'
    BY <1>6 DEF Undecided, Truthful
  <2>2. applied'[k] <= attempts'[k] /\ answers'[k] = {}
    BY <1>3, <1>5 DEF KeyInv
  <2>3. ~Settled(k)'
    BY <1>2, <1>3, <1>4, <1>5 DEF Settled
  <2>. QED
    BY <1>6, <2>1, <2>2, <2>3 DEF KeyInv
<1>8. CallInv(c)'
  <2>1. CASE call'[c] = IdleCall
    BY <2>1 DEF CallInv, IdleCall
  <2>2. CASE call'[c] # IdleCall
    <3>1. /\ latest'[k] = line /\ call'[c].pc = "authorize" /\ call'[c].key = k
          /\ call'[c].seen => applied'[k] > 0
      BY <1>2, <1>3, <1>5, <2>2
    <3>2. ~Settled(k)' /\ answers'[k] = {} /\ latest'[k] # NoEntry
      BY <1>3, <1>4, <1>5, <3>1 DEF Settled
    <3>. QED
      BY <1>6, <3>1, <3>2 DEF CallInv
  <2>. QED
    BY <2>1, <2>2
<1>. QED
  BY <1>7, <1>8

\* An append that raises ends the call or makes its outcome unknown.
LEMMA RaiseKeepsAnswers ==
  ASSUME TypeOK, DispatchInv, NEW c \in Callers, call[c].pc = "append",
         NEW k \in Keys, k = call[c].key, KeyInv(k), CallInv(c), OnRaise(c),
         file' \in AfterFailedWrite(file, PendingEntry(c)),
         UNCHANGED <<latest, attempts, applied>>
  PROVE  KeyInv(k)' /\ CallInv(c)'
<1>. DEFINE line == PendingEntry(c)
<1>1. line \in Entry /\ line.key = k /\ line.state = call[c].state
  BY PendingEntryTyped DEF DispatchInv, PendingEntry
<1>2. /\ latest[k] # NoEntry /\ ~Settled(k) /\ answers[k] = {}
      /\ Truthful(k, call[c].state)
  BY DEF CallInv
<1>3. /\ \A i \in LinesOf(file, k)' : Truthful(k, file[i].state)'
      /\ applied'[k] <= attempts'[k] /\ ~Settled(k)' /\ latest'[k] # NoEntry
  BY <1>1, <1>2, WrittenLines DEF KeyInv, Settled
<1>4. /\ UNCHANGED answers
      /\ call'[c] = IdleCall \/ call'[c] = [IdleCall EXCEPT !.pc = "unknown", !.key = k]
  BY DEF OnRaise, Raise, Goto, At, TypeOK
<1>5. KeyInv(k)'
  BY <1>2, <1>3, <1>4 DEF KeyInv
<1>6. CallInv(c)'
  <2>1. CASE call'[c] = IdleCall
    BY <2>1 DEF CallInv, IdleCall
  <2>2. CASE call'[c] = [IdleCall EXCEPT !.pc = "unknown", !.key = k]
    <3>1. call'[c].pc = "unknown" /\ call'[c].key = k /\ call'[c].seen = FALSE
      BY <2>2 DEF IdleCall
    <3>2. ~BeforeDispatch(c)'
      BY <3>1 DEF BeforeDispatch, HoldsReservation
    <3>. QED
      BY <1>2, <1>3, <1>4, <3>1, <3>2 DEF CallInv
  <2>. QED
    BY <1>4, <2>1, <2>2
<1>. QED
  BY <1>5, <1>6

\* A caller whose entry is on record goes on with an undecided key, or it
\* returns the result it recorded.
LEMMA ContinueKeepsAnswers ==
  ASSUME TypeOK, DispatchInv, NEW c \in Callers, AppendEntry(c),
         call[c].seq = count + 1,
         NEW k \in Keys, k = call[c].key, KeyInv(k), CallInv(c)
  PROVE  KeyInv(k)' /\ CallInv(c)'
<1>. DEFINE line == PendingEntry(c)
<1>1. /\ call[c].pc = "append" /\ file' = Append(file, line)
      /\ latest' = [latest EXCEPT ![k] = line] /\ Continue(c)
      /\ UNCHANGED <<up, attempts, applied>>
  BY DEF AppendEntry, espnVars
<1>2. /\ line \in Entry /\ line.key = k /\ line.state = call[c].state
      /\ line.event = call[c].event /\ NoEntry \notin Entry
  BY <1>1, PendingEntryTyped, SentinelsAssumption DEF DispatchInv, PendingEntry
<1>3. /\ call[c].event \in Events \ {"reserved"} /\ call[c] \in Call
      /\ call[c].event = "result" => call[c].state \in TerminalStates
      /\ call[c].event \in Phases => call[c].state = "in_flight"
      /\ call \in [Callers -> Call] /\ latest \in [Keys -> Entry \cup {NoEntry}]
      /\ answers \in [Keys -> SUBSET TerminalStates]
      /\ file \in Seq(Line) /\ line \in Line
  BY <1>1, <1>2 DEF TypeOK, DispatchInv, CallersWellFormed, WellFormed, Call, Line
<1>4. /\ answers[k] = {} /\ Truthful(k, line.state)
      /\ BeforeDispatch(c) => Undecided(k)
      /\ call[c].seen => applied[k] > 0
  BY <1>1, <1>2 DEF CallInv
<1>5. LastLine(file', k) = line /\ LinesOf(file', k) # {}
  BY <1>1, <1>2, <1>3, AppendedLast, AppendKeepsLines
<1>6. file' \in AfterFailedWrite(file, line)
  BY <1>1 DEF AfterFailedWrite
<1>. HIDE DEF line
<1>7. /\ \A i \in LinesOf(file, k)' : Truthful(k, file[i].state)'
      /\ Undecided(k) /\ line.state = "in_flight" => Undecided(k)'
  BY <1>1, <1>2, <1>4, <1>6, WrittenLines DEF KeyInv
<1>8. /\ latest'[k] = line /\ latest'[k] # NoEntry /\ applied'[k] <= attempts'[k]
      /\ LastLine(file, k)' = latest'[k] /\ LinesOf(file, k)' # {}
      /\ Settled(k)' <=> line.event = "result"
  <2>1. HasResult(line) <=> line.event = "result"
    BY <1>2, <1>3 DEF HasResult
  <2>2. latest'[k] = line /\ latest'[k] # NoEntry
    BY <1>1, <1>2, <1>3
  <2>3. Settled(k)' <=> HasResult(line)
    BY <2>2 DEF Settled
  <2>4. LastLine(file, k)' = LastLine(file', k) /\ LinesOf(file, k)' = LinesOf(file', k)
    BY DEF LastLine, LinesOf
  <2>. QED
    BY <1>1, <1>5, <2>1, <2>2, <2>3, <2>4 DEF KeyInv
<1>9. CASE call[c].event = "result"
  <2>1. Return(c, call[c].state)
    BY <1>1, <1>9 DEF Continue
  <2>2. answers'[k] = {line.state} /\ call'[c] = IdleCall
    BY <1>2, <1>3, <1>4, <2>1 DEF Return
  <2>3. HasResult(line) /\ Settled(k)'
    BY <1>2, <1>3, <1>8, <1>9 DEF HasResult
  <2>4. KeyInv(k)'
    BY <1>7, <1>8, <2>2, <2>3 DEF KeyInv
  <2>. QED
    BY <2>2, <2>4 DEF CallInv, IdleCall
<1>10. CASE call[c].event # "result"
  <2>1. UNCHANGED answers /\ ~Settled(k)'
    BY <1>1, <1>2, <1>3, <1>8, <1>10 DEF Continue, Events, Phases
  <2>2. KeyInv(k)'
    BY <1>4, <1>7, <1>8, <2>1 DEF KeyInv
  <2>3. /\ BeforeDispatch(c)' => Undecided(k)'
        /\ call'[c].pc # "idle" => call'[c].key = k /\ call'[c].pc \notin {"read", "reserve"}
        /\ call'[c].pc \in {"stamp", "append"} => Truthful(k, call'[c].state)
        /\ call'[c].seen => applied[k] > 0
    <3>. DEFINE In(event, state) ==
           call' = [call EXCEPT ![c] = [At(c, "stamp") EXCEPT !.event = event, !.state = state]]
    <3>1. \A event, state : In(event, state) =>
            /\ call'[c].pc = "stamp" /\ call'[c].key = k /\ call'[c].event = event
            /\ call'[c].state = state /\ call'[c].seen = FALSE
      BY <1>3 DEF At, IdleCall
    <3>2. CASE call[c].event = "authorization" /\ call[c].state = "in_flight"
      <4>1. In("phase:reserved", "in_flight") /\ BeforeDispatch(c)
        BY <1>1, <3>2 DEF Continue, Emit, BeforeDispatch, HoldsReservation, PreDispatchEvents
      <4>2. /\ call'[c].pc = "stamp" /\ call'[c].key = k /\ call'[c].seen = FALSE
            /\ call'[c].state = "in_flight"
        BY <3>1, <4>1
      <4>3. line.state = "in_flight" /\ Undecided(k)
        BY <1>2, <1>4, <3>2, <4>1
      <4>4. Truthful(k, "in_flight")
        BY DEF Truthful
      <4>. QED
        BY <1>7, <4>2, <4>3, <4>4
    <3>3. CASE call[c].event = "authorization" /\ call[c].state # "in_flight"
      <4>1. In("result", "rejected")
        BY <1>1, <3>3 DEF Continue, Emit
      <4>2. ~BeforeDispatch(c)'
        <5>1. call'[c].pc = "stamp" /\ call'[c].event = "result"
          BY <3>1, <4>1
        <5>. QED
          BY <5>1 DEF BeforeDispatch, HoldsReservation, PreDispatchEvents
      <4>3. Truthful(k, "rejected")
        <5>1. BeforeDispatch(c)
          BY <1>1, <3>3 DEF BeforeDispatch, HoldsReservation, PreDispatchEvents
        <5>. QED
          BY <1>1, <5>1, CallerKnows DEF Truthful
      <4>. QED
        BY <3>1, <4>1, <4>2, <4>3
    <3>4. CASE call[c].event \in {"phase:reserved", "phase:before_dispatch"}
      <4>1. PICK label \in {"open", "dispatch"} : Goto(c, label)
        BY <1>1, <3>4 DEF Continue
      <4>2. call'[c].pc = label /\ call'[c].key = k /\ call'[c].seen = FALSE
        BY <1>3, <4>1 DEF Goto, At, IdleCall
      <4>3. BeforeDispatch(c) /\ line.state = "in_flight"
        BY <1>1, <1>2, <1>3, <3>4 DEF BeforeDispatch, HoldsReservation, PreDispatchEvents, Phases
      <4>. QED
        BY <1>4, <1>7, <4>2, <4>3
    <3>5. CASE call[c].event = "phase:dispatched"
      <4>1. Goto(c, "refresh")
        BY <1>1, <3>5 DEF Continue
      <4>2. call'[c].pc = "refresh" /\ call'[c].key = k /\ call'[c].seen = FALSE
        BY <1>3, <4>1 DEF Goto, At, IdleCall
      <4>. QED
        BY <4>2 DEF BeforeDispatch, HoldsReservation
    <3>6. CASE call[c].event = "phase:refreshed"
      <4>1. call' = [call EXCEPT ![c].pc = "verify"]
        BY <1>1, <3>6 DEF Continue
      <4>2. call'[c].pc = "verify" /\ call'[c].key = k /\ call'[c].seen = call[c].seen
        BY <1>3, <4>1 DEF Call
      <4>. QED
        BY <1>4, <4>2 DEF BeforeDispatch, HoldsReservation
    <3>. QED
      BY <1>3, <1>10, <3>2, <3>3, <3>4, <3>5, <3>6 DEF Events, Phases
  <2>4. CallInv(c)'
    <3>1. Truthful(k, call'[c].state) <=> Truthful(k, call[c].state)'
      BY <1>1 DEF Truthful
    <3>. QED
      BY <1>1, <1>4, <1>8, <2>1, <2>3, <3>1 DEF CallInv
  <2>. QED
    BY <2>2, <2>4
<1>. QED
  BY <1>9, <1>10

LEMMA AppendKeepsAnswers ==
  ASSUME TypeOK, DispatchInv, NEW c \in Callers, AppendEntry(c) \/ AppendFails(c),
         NEW k \in Keys, k = call[c].key, KeyInv(k), CallInv(c)
  PROVE  KeyInv(k)' /\ CallInv(c)'
<1>1. CASE AppendEntry(c) /\ call[c].seq = count + 1
  BY <1>1, ContinueKeepsAnswers
<1>2. CASE AppendEntry(c) /\ call[c].seq # count + 1
  BY <1>2, RaiseKeepsAnswers DEF AppendEntry, AfterFailedWrite, espnVars
<1>3. CASE AppendFails(c)
  BY <1>3, RaiseKeepsAnswers DEF AppendFails, espnVars
<1>. QED
  BY <1>1, <1>2, <1>3

\* The dispatch takes place on an undecided key.
LEMMA DispatchKeepsAnswers ==
  ASSUME TypeOK, DispatchInv, NEW c \in Callers, Dispatch(c),
         NEW k \in Keys, k = call[c].key, KeyInv(k), CallInv(c)
  PROVE  KeyInv(k)' /\ CallInv(c)'
<1>1. /\ call[c].pc = "dispatch" /\ UNCHANGED <<up, file, latest, answers>>
      /\ call \in [Callers -> Call] /\ BeforeDispatch(c)
      /\ attempts \in [Keys -> Nat] /\ applied \in [Keys -> Nat]
  BY DEF Dispatch, TypeOK, ledgerVars, BeforeDispatch, HoldsReservation
<1>2. attempts[k] = 0 /\ applied[k] = 0 /\ Undecided(k)
  BY <1>1, CallerKnows
<1>3. latest[k] # NoEntry /\ ~Settled(k) /\ answers[k] = {}
  BY <1>1 DEF CallInv
<1>4. attempts'[k] = 1 /\ applied'[k] \in {0, 1}
  <2>1. attempts'[k] = 1
    BY <1>1, <1>2 DEF Dispatch
  <2>2. CASE UNCHANGED applied
    BY <1>2, <2>1, <2>2
  <2>3. ASSUME NEW e \in {0, 1}, applied' = [applied EXCEPT ![k] = @ + e]
        PROVE  applied'[k] \in {0, 1}
    BY <1>1, <1>2, <2>3
  <2>. QED
    BY <2>1, <2>2, <2>3 DEF Dispatch
<1>5. /\ call'[c].key = k /\ call'[c].seen = FALSE
      /\ \/ call'[c].pc = "stamp" /\ call'[c].event = "phase:dispatched"
              /\ call'[c].state = "in_flight"
         \/ call'[c].pc = "unknown"
         \/ call'[c].pc = "stamp" /\ call'[c].event = "result"
              /\ call'[c].state = "failed" /\ applied'[k] = 0
  <2>1. ASSUME NEW event, NEW state, Emit(c, event, state)
        PROVE  /\ call'[c].key = k /\ call'[c].seen = FALSE /\ call'[c].pc = "stamp"
               /\ call'[c].event = event /\ call'[c].state = state
    BY <1>1, <2>1 DEF Emit, At, IdleCall
  <2>2. Goto(c, "unknown") =>
          call'[c].key = k /\ call'[c].seen = FALSE /\ call'[c].pc = "unknown"
    BY <1>1 DEF Goto, At, IdleCall
  <2>3. \/ Emit(c, "phase:dispatched", "in_flight") \/ Goto(c, "unknown")
        \/ Emit(c, "result", "failed") /\ applied' = applied
    BY DEF Dispatch
  <2>. QED
    BY <1>2, <2>1, <2>2, <2>3
<1>6. Undecided(k)' /\ ~Settled(k)' /\ answers'[k] = {} /\ latest'[k] # NoEntry
  BY <1>1, <1>2, <1>3 DEF Undecided, Settled, LinesOf
<1>7. KeyInv(k)'
  BY <1>4, <1>6 DEF KeyInv, Undecided, Truthful
<1>8. ~BeforeDispatch(c)'
  BY <1>5 DEF BeforeDispatch, HoldsReservation, PreDispatchEvents
<1>9. CallInv(c)'
  BY <1>5, <1>6, <1>8 DEF CallInv, Truthful
<1>. QED
  BY <1>7, <1>9

\* A step of one caller keeps the invariant: the others hold other keys.
LEMMA StepKeepsAnswerInv ==
  ASSUME ExclusiveKeys, TypeOK, AnswerInv, NEW c \in Callers, Step(c)
  PROVE  AnswerInv'
<1>1. /\ DispatchInv /\ CallersWellFormed
      /\ \A k \in Keys : KeyInv(k)
      /\ \A d \in Callers : CallInv(d)
  BY DEF AnswerInv, DispatchInv
<1>2. call[c].pc # "idle" /\ up /\ up' /\ call[c].key \in KeysOf[c]
  BY <1>1, StepOfKey
<1>3. PICK k \in Keys : k = call[c].key
  BY <1>1, StepOfKey
<1>4. KeyInv(k)' /\ CallInv(c)'
  BY <1>1, <1>3, PortStepKeepsAnswers, ReserveKeepsAnswers, AppendKeepsAnswers,
     DispatchKeepsAnswers DEF Step
<1>5. ASSUME NEW j \in Keys, j # k
      PROVE  /\ UNCHANGED <<LinesOf(file, j), LastLine(file, j), latest[j], answers[j],
                            attempts[j], applied[j]>>
             /\ \A i \in LinesOf(file, j) : file'[i] = file[i]
  <2>1. /\ LinesOf(file', j) = LinesOf(file, j)
        /\ \A i \in LinesOf(file, j) : file'[i] = file[i]
        /\ LastLine(file', j) = LastLine(file, j)
        /\ latest'[j] = latest[j] /\ answers'[j] = answers[j]
        /\ attempts'[j] = attempts[j] /\ applied'[j] = applied[j]
    BY <1>1, <1>3, <1>5, StepKeepsOtherKeys
  <2>2. LinesOf(file', j) = LinesOf(file, j)' /\ LastLine(file', j) = LastLine(file, j)'
    BY DEF LinesOf, LastLine
  <2>. QED
    BY <2>1, <2>2
<1>6. ASSUME NEW j \in Keys, j # k
      PROVE  /\ KeyInv(j)'
             /\ Settled(j)' = Settled(j) /\ Undecided(j)' = Undecided(j)
             /\ \A state : Truthful(j, state)' = Truthful(j, state)
  <2>1. /\ Settled(j)' = Settled(j) /\ Undecided(j)' = Undecided(j)
        /\ \A state : Truthful(j, state)' = Truthful(j, state)
    BY <1>5, <1>6 DEF Settled, Undecided, Truthful
  <2>2. \A i \in LinesOf(file, j)' : Truthful(j, file[i].state)'
    BY <1>1, <1>5, <1>6 DEF KeyInv, Truthful
  <2>3. KeyInv(j)'
    BY <1>1, <1>2, <1>5, <1>6, <2>1, <2>2 DEF KeyInv
  <2>. QED
    BY <2>1, <2>3
<1>7. ASSUME NEW d \in Callers, d # c
      PROVE  CallInv(d)'
  <2>1. call'[d] = call[d]
    BY <1>1, <1>7, StepMovesCaller DEF TypeOK
  <2>2. CASE call[d].pc = "idle"
    BY <2>1, <2>2 DEF CallInv
  <2>3. CASE call[d].pc # "idle"
    <3>1. PICK j \in Keys : j = call[d].key /\ j # k
      BY <1>1, <1>2, <1>3, <1>7, <2>3, ExecutorAssumption
         DEF CallersWellFormed, WellFormed, ExclusiveKeys
    <3>2. BeforeDispatch(d)' = BeforeDispatch(d)
      BY <2>1 DEF BeforeDispatch, HoldsReservation
    <3>3. UNCHANGED <<latest[j], answers[j], applied[j], Settled(j), Undecided(j)>>
          /\ \A state : Truthful(j, state)' = Truthful(j, state)
      BY <1>5, <1>6, <3>1
    <3>4. Truthful(j, call'[d].state) = Truthful(j, call[d].state)
      BY <2>1
    <3>5. /\ latest[j] = NoEntry <=> call[d].pc \in {"read", "reserve"}
          /\ ~Settled(j) /\ answers[j] = {}
          /\ BeforeDispatch(d) => Undecided(j)
          /\ call[d].pc \in {"stamp", "append"} => Truthful(j, call[d].state)
          /\ call[d].seen => applied[j] > 0
      BY <1>1, <2>3, <3>1 DEF CallInv
    <3>. QED
      BY <2>1, <3>1, <3>2, <3>3, <3>5 DEF CallInv
  <2>. QED
    BY <2>2, <2>3
<1>8. DispatchInv'
  BY <1>1, StepKeepsDispatchInv
<1>. QED
  BY <1>4, <1>6, <1>7, <1>8 DEF AnswerInv

\* So do the other actions: a replay of an answered key repeats the last line
\* of the key, and a restart finds it there.
LEMMA OtherActionsKeepAnswerInv ==
  ASSUME TypeOK, AnswerInv
  PROVE  /\ \A c \in Callers : \A k \in KeysOf[c] : Begin(c, k) => AnswerInv'
         /\ Operate => AnswerInv'
         /\ \A a \in Actions : ResolveReview(a) => AnswerInv'
         /\ Crash => AnswerInv'
         /\ Restart => AnswerInv'
         /\ Tick => AnswerInv'
         /\ UNCHANGED vars => AnswerInv'
<1>. USE DEF controlVars, ledgerVars, espnVars, budgetVars
<1>1. /\ DispatchInv /\ CallersWellFormed /\ AttemptsRecorded
      /\ \A k \in Keys : KeyInv(k)
      /\ \A d \in Callers : CallInv(d)
  BY DEF AnswerInv, DispatchInv
<1>2. UNCHANGED <<up, file, latest, attempts, applied, answers>> =>
        \A k \in Keys : KeyInv(k)'
  <2>. SUFFICES ASSUME UNCHANGED <<up, file, latest, attempts, applied, answers>>, NEW k \in Keys
                PROVE  KeyInv(k)'
    OBVIOUS
  <2>1. UNCHANGED <<LinesOf(file, k), LastLine(file, k)>>
        /\ (Settled(k)' <=> Settled(k)) /\ (Undecided(k)' <=> Undecided(k))
    BY DEF LinesOf, LastLine, Settled, Undecided
  <2>2. \A i \in LinesOf(file, k)' : Truthful(k, file[i].state)'
    BY <1>1, <2>1 DEF KeyInv, Truthful
  <2>. QED
    BY <1>1, <2>1, <2>2 DEF KeyInv
<1>3. ASSUME UNCHANGED <<file, latest, attempts, applied, answers>>,
             NEW d \in Callers, call'[d] = call[d]
      PROVE  CallInv(d)'
  <2>1. /\ BeforeDispatch(d)' <=> BeforeDispatch(d)
        /\ \A k : Settled(k)' <=> Settled(k)
        /\ \A k : Undecided(k)' <=> Undecided(k)
    BY <1>3 DEF BeforeDispatch, HoldsReservation, Settled, Undecided, LinesOf
  <2>2. Truthful(call[d].key, call[d].state)' <=> Truthful(call[d].key, call[d].state)
    BY <1>3 DEF Truthful
  <2>3. CASE call[d].pc = "idle"
    BY <1>3, <2>3 DEF CallInv
  <2>4. CASE call[d].pc # "idle"
    <3>. DEFINE k == call[d].key
    <3>1. /\ latest[k] = NoEntry <=> call[d].pc \in {"read", "reserve"}
          /\ ~Settled(k) /\ answers[k] = {}
          /\ BeforeDispatch(d) => Undecided(k)
          /\ call[d].pc \in {"stamp", "append"} => Truthful(k, call[d].state)
          /\ call[d].seen => applied[k] > 0
      BY <1>1, <2>4 DEF CallInv
    <3>. QED
      BY <1>3, <2>1, <2>2, <3>1 DEF CallInv
  <2>. QED
    BY <2>3, <2>4
<1>4. UNCHANGED <<up, file, latest, attempts, applied, answers, call>> /\ DispatchInv'
      => AnswerInv'
  BY <1>2, <1>3 DEF AnswerInv
<1>5. ASSUME NEW c \in Callers, NEW k \in KeysOf[c], Begin(c, k)
      PROVE  AnswerInv'
  <2>1. /\ DispatchInv' /\ k \in Keys /\ up /\ call[c].pc = "idle"
        /\ UNCHANGED <<up, file, latest, attempts, applied>>
        /\ call \in [Callers -> Call] /\ answers \in [Keys -> SUBSET TerminalStates]
    BY <1>1, <1>5, ExecutorAssumption, OtherActionsKeepDispatchInv DEF Begin, TypeOK
  <2>2. CASE Settled(k)
    <3>1. UNCHANGED call /\ answers' = [answers EXCEPT ![k] = @ \cup {latest[k].state}]
      BY <1>5, <2>2 DEF Begin, Settled, Unclaimed
    <3>2. /\ LastLine(file, k) = latest[k] /\ LinesOf(file, k) # {}
          /\ answers[k] # {} => answers[k] = {latest[k].state}
      BY <1>1, <2>1, <2>2 DEF KeyInv, AttemptsRecorded, Settled
    <3>3. /\ answers'[k] = {LastLine(file, k).state}
          /\ \A j \in Keys \ {k} : answers'[j] = answers[j]
      BY <2>1, <3>1, <3>2
    <3>4. \A j \in Keys : /\ UNCHANGED <<LinesOf(file, j), LastLine(file, j)>>
                          /\ Settled(j)' <=> Settled(j)
                          /\ Undecided(j)' <=> Undecided(j)
      <4>1. \A j \in Keys : LinesOf(file, j)' = LinesOf(file, j)
        BY <2>1 DEF LinesOf
      <4>2. \A j \in Keys : LastLine(file, j)' = LastLine(file, j)
        BY <2>1, <4>1 DEF LastLine
      <4>3. \A j \in Keys : Settled(j)' <=> Settled(j)
        BY <2>1 DEF Settled
      <4>4. \A j \in Keys : Undecided(j)' <=> Undecided(j)
        BY <2>1, <4>1 DEF Undecided
      <4>. QED
        BY <4>1, <4>2, <4>3, <4>4
    <3>5. ASSUME NEW j \in Keys
          PROVE  KeyInv(j)'
      <4>1. \A i \in LinesOf(file, j)' : Truthful(j, file[i].state)'
        BY <1>1, <2>1, <3>4 DEF KeyInv, Truthful
      <4>2. CASE j = k
        <5>1. HasResult(LastLine(file, k))
          BY <2>2, <3>2 DEF Settled
        <5>2. Settled(k)'
          BY <2>1, <2>2, <3>4
        <5>. QED
          BY <1>1, <2>1, <3>2, <3>3, <3>4, <4>1, <4>2, <5>1, <5>2 DEF KeyInv
      <4>3. CASE j # k
        BY <1>1, <2>1, <3>3, <3>4, <4>1, <4>3 DEF KeyInv
      <4>. QED
        BY <4>2, <4>3
    <3>6. ASSUME NEW d \in Callers
          PROVE  CallInv(d)'
      <4>1. call[d].pc # "idle" =>
              call[d].key \in Keys /\ call[d].key # k
        BY <1>1, <2>2, ExecutorAssumption DEF CallInv, CallersWellFormed, WellFormed
      <4>2. call'[d] = call[d] /\ (BeforeDispatch(d)' = BeforeDispatch(d))
        BY <3>1 DEF BeforeDispatch, HoldsReservation
      <4>3. ASSUME call[d].pc # "idle"
            PROVE  CallInv(d)'
        <5>1. PICK j \in Keys : j = call[d].key /\ j # k
          BY <4>1, <4>3
        <5>2. Truthful(j, call[d].state)' <=> Truthful(j, call[d].state)
          BY <2>1, <4>2 DEF Truthful
        <5>3. /\ UNCHANGED <<answers[j], latest[j], applied[j]>>
              /\ (Settled(j)' <=> Settled(j)) /\ (Undecided(j)' <=> Undecided(j))
          BY <2>1, <3>3, <3>4, <5>1
        <5>. QED
          BY <1>1, <4>2, <4>3, <5>1, <5>2, <5>3 DEF CallInv
      <4>. QED
        BY <4>2, <4>3 DEF CallInv
    <3>. QED
      BY <2>1, <3>5, <3>6 DEF AnswerInv
  <2>3. CASE ~Settled(k)
    <3>1. PICK label \in {"read", "replay"} :
            /\ label = "read" <=> latest[k] = NoEntry
            /\ call' = [call EXCEPT ![c] =
                 [IdleCall EXCEPT !.key = k, !.now = clock, !.pc = label]]
            /\ UNCHANGED answers
      BY <1>5, <2>3 DEF Begin, Settled, Unclaimed
    <3>2. /\ call'[c].pc = label /\ call'[c].key = k /\ call'[c].seen = FALSE
          /\ \A d \in Callers \ {c} : call'[d] = call[d]
      BY <2>1, <3>1 DEF IdleCall
    <3>3. answers[k] = {} /\ (label = "read" => Undecided(k))
      BY <1>1, <2>1, <2>3, <3>1 DEF KeyInv
    <3>4. ~Settled(k)' /\ (Undecided(k)' <=> Undecided(k))
      BY <2>1, <2>3 DEF Settled, Undecided, LinesOf
    <3>5. BeforeDispatch(c)' => label = "read"
      BY <3>2 DEF BeforeDispatch, HoldsReservation
    <3>6. CallInv(c)'
      BY <2>1, <3>1, <3>2, <3>3, <3>4, <3>5 DEF CallInv
    <3>7. \A d \in Callers : CallInv(d)'
      BY <1>3, <2>1, <3>1, <3>2, <3>6
    <3>. QED
      BY <1>2, <2>1, <3>1, <3>7 DEF AnswerInv
  <2>. QED
    BY <2>2, <2>3
<1>6. Operate => AnswerInv'
  BY <1>1, <1>4, OtherActionsKeepDispatchInv DEF Operate
<1>7. \A a \in Actions : ResolveReview(a) => AnswerInv'
  BY <1>1, <1>4, OtherActionsKeepDispatchInv DEF ResolveReview
<1>8. ASSUME Crash
      PROVE  AnswerInv'
  <2>1. /\ DispatchInv' /\ ~up' /\ UNCHANGED <<attempts, applied, answers>>
        /\ latest' = [k \in Keys |-> NoEntry] /\ call' = [c \in Callers |-> IdleCall]
        /\ file' \in {file, Append(file, TornLine)}
    BY <1>1, <1>8, OtherActionsKeepDispatchInv DEF Crash
  <2>2. ASSUME NEW k \in Keys
        PROVE  /\ LinesOf(file', k) = LinesOf(file, k) /\ LastLine(file', k) = LastLine(file, k)
               /\ \A i \in LinesOf(file, k) : file'[i] = file[i]
    <3>1. /\ file \in Seq(Line) /\ TornLine \in Line /\ TornLine.key # k
          /\ file' \in AfterFailedWrite(file, TornLine)
      BY <2>1, TornLineInLine, SentinelsAssumption DEF TypeOK, TornLine, AfterFailedWrite
    <3>. QED
      BY <3>1, WriteKeepsOthers, WriteKeepsLines
  <2>3. ASSUME NEW k \in Keys
        PROVE  KeyInv(k)'
    <3>1. UNCHANGED <<LinesOf(file, k), LastLine(file, k)>> /\ ~Settled(k)'
      BY <2>1, <2>2 DEF LinesOf, LastLine, Settled
    <3>2. \A i \in LinesOf(file, k)' : Truthful(k, file[i].state)'
      BY <1>1, <2>1, <2>2, <3>1 DEF KeyInv, Truthful
    <3>. QED
      BY <1>1, <2>1, <3>1, <3>2 DEF KeyInv
  <2>4. \A c \in Callers : CallInv(c)'
    BY <2>1 DEF CallInv, IdleCall
  <2>. QED
    BY <2>1, <2>3, <2>4 DEF AnswerInv
<1>9. ASSUME Restart
      PROVE  AnswerInv'
  <2>1. /\ DispatchInv' /\ ~up /\ UNCHANGED <<attempts, applied, answers, call, file>>
        /\ latest' = Reload(file) /\ file \in Seq(Line) /\ Readable(file)
    BY <1>1, <1>9, OtherActionsKeepDispatchInv DEF Restart, TypeOK
  <2>2. ASSUME NEW k \in Keys
        PROVE  KeyInv(k)'
    <3>1. /\ latest'[k] = LastLine(file, k)
          /\ LinesOf(file, k) = {} => LastLine(file, k) = NoEntry
          /\ LastLine(file, k) # NoEntry <=> LinesOf(file, k) # {}
      BY <2>1, LastLineIsEntry DEF Reload
    <3>2. UNCHANGED <<LinesOf(file, k), LastLine(file, k)>>
          /\ \A state : Truthful(k, state)' <=> Truthful(k, state)
      BY <2>1 DEF LinesOf, LastLine, Truthful
    <3>3. \A i \in LinesOf(file, k)' : Truthful(k, file[i].state)'
      BY <1>1, <2>1, <3>2 DEF KeyInv, Truthful
    <3>4. latest'[k] = NoEntry => Undecided(k)'
      BY <3>1, <3>2 DEF Undecided
    <3>5. answers[k] # {} => Settled(k)'
      BY <1>1, <3>1 DEF KeyInv, Settled
    <3>. QED
      BY <1>1, <2>1, <3>1, <3>2, <3>3, <3>4, <3>5 DEF KeyInv
  <2>3. \A c \in Callers : CallInv(c)'
    BY <1>1, <2>1 DEF CallersWellFormed, CallInv
  <2>. QED
    BY <2>1, <2>2, <2>3 DEF AnswerInv
<1>10. Tick => AnswerInv'
  BY <1>1, <1>4, OtherActionsKeepDispatchInv DEF Tick
<1>11. UNCHANGED vars => AnswerInv'
  BY <1>1, <1>4, OtherActionsKeepDispatchInv DEF vars
<1>. QED
  BY <1>5, <1>6, <1>7, <1>8, <1>9, <1>10, <1>11

\* What the ledger and its callers know of every key is true and final.
THEOREM AnswerInvariant ==
  ASSUME ExclusiveKeys
  PROVE  Spec => []AnswerInv
<1>1. ASSUME Init
      PROVE  AnswerInv
  <2>1. DispatchInv
    <3>1. \A c \in Callers : call[c] = IdleCall
      BY <1>1 DEF Init
    <3>2. CallersWellFormed /\ ReservationsHeld
      BY <3>1 DEF CallersWellFormed, WellFormed, ReservationsHeld, BeforeDispatch,
                  HoldsReservation, IdleCall
    <3>. QED
      BY <1>1, <3>2 DEF Init, DispatchInv, AttemptsRecorded, AtMostOneDispatch
  <2>2. \A k \in Keys : LinesOf(file, k) = {}
    <3>1. file = <<>> /\ 1 .. Len(file) = {}
      BY <1>1 DEF Init
    <3>. QED
      BY <3>1 DEF LinesOf
  <2>3. \A k \in Keys : KeyInv(k)
    <3>. SUFFICES ASSUME NEW k \in Keys
                  PROVE  KeyInv(k)
      OBVIOUS
    <3>1. applied[k] = 0 /\ attempts[k] = 0 /\ answers[k] = {} /\ latest[k] = NoEntry
      BY <1>1 DEF Init
    <3>. QED
      BY <2>2, <3>1 DEF KeyInv, Settled, Undecided
  <2>4. \A c \in Callers : CallInv(c)
    BY <1>1 DEF Init, CallInv, IdleCall
  <2>. QED
    BY <2>1, <2>3, <2>4 DEF AnswerInv
<1>2. TypeOK /\ AnswerInv /\ [Next]_vars => AnswerInv'
  BY StepKeepsAnswerInv, OtherActionsKeepAnswerInv DEF Next
<1>3. Spec => []TypeOK
  BY TypeCorrect, PTL
<1>. QED
  BY <1>1, <1>2, <1>3, PTL DEF Spec

\* What execute() answers is true of ESPN, across crashes, restarts, failed
\* writes and replays.
THEOREM AnswersAreTrue ==
  ASSUME ExclusiveKeys
  PROVE  Spec => []HonestAnswers
<1>1. TypeOK /\ AnswerInv => HonestAnswers
  <2>. SUFFICES ASSUME TypeOK, AnswerInv, NEW k \in Keys, NEW state \in answers[k]
                PROVE  Truthful(k, state)
    BY DEF HonestAnswers
  <2>1. /\ LinesOf(file, k) # {} /\ state = LastLine(file, k).state
        /\ \A i \in LinesOf(file, k) : Truthful(k, file[i].state)
    BY DEF AnswerInv, KeyInv
  <2>2. PICK i \in LinesOf(file, k) : LastLine(file, k) = file[i]
    BY <2>1, LastLineIsLine DEF TypeOK
  <2>. QED
    BY <2>1, <2>2
<1>. QED
  BY <1>1, AnswerInvariant, TypeCorrect, PTL

\* All calls with one key that get an answer get the same one.
THEOREM AnsweredOnce ==
  ASSUME ExclusiveKeys
  PROVE  Spec => []OneAnswer
<1>1. AnswerInv => OneAnswer
  BY DEF AnswerInv, KeyInv, OneAnswer
<1>. QED
  BY <1>1, AnswerInvariant, PTL

\* A key whose denial is on record is never dispatched.
THEOREM DenialIsFinal ==
  ASSUME ExclusiveKeys
  PROVE  Spec => []DeniedNeverDispatched
<1>1. AnswerInv => DeniedNeverDispatched
  BY DEF AnswerInv, KeyInv, DeniedNeverDispatched, Logged, Truthful
<1>. QED
  BY <1>1, AnswerInvariant, PTL

-----------------------------------------------------------------------------
(* The durable trail of a dispatch, also when callers share keys *)

\* What stands behind every step towards the dispatch.
LEMMA StepTrail ==
  ASSUME TypeOK, CallersWellFormed, NEW c \in Callers, Step(c)
  PROVE  /\ call[c].pc = "reserve" /\ HoldsReservation(c)' =>
              latest'[call[c].key] # NoEntry /\ latest'[call[c].key].event = "reserved"
         /\ Authorized(c)' =>
              \/ Authorized(c) /\ call[c].pc # "dispatch"
              \/ /\ call[c].pc = "append" /\ file' = Append(file, PendingEntry(c))
                 /\ call[c].event = "authorization" /\ call[c].state = "in_flight"
         /\ call'[c].pc = "dispatch" =>
              /\ call[c].pc = "append" /\ file' = Append(file, PendingEntry(c))
              /\ call[c].event = "phase:before_dispatch"
<1>. DEFINE k == call[c].key
            Trail == /\ Authorized(c)' =>
                          \/ Authorized(c) /\ call[c].pc # "dispatch"
                          \/ /\ call[c].pc = "append" /\ file' = Append(file, PendingEntry(c))
                             /\ call[c].event = "authorization" /\ call[c].state = "in_flight"
                     /\ call'[c].pc = "dispatch" =>
                          /\ call[c].pc = "append" /\ file' = Append(file, PendingEntry(c))
                          /\ call[c].event = "phase:before_dispatch"
<1>1. call \in [Callers -> Call] /\ call[c] \in Call
  BY DEF TypeOK
<1>2. ASSUME NEW label \in Labels \ {"stamp", "append", "open", "dispatch"}, Goto(c, label)
      PROVE  Trail
  BY <1>1, <1>2 DEF Goto, At, IdleCall, Authorized
<1>3. ASSUME NEW event, NEW state, Emit(c, event, state),
             event \notin {"phase:reserved", "phase:before_dispatch"}
      PROVE  Trail
  BY <1>1, <1>3 DEF Emit, At, IdleCall, Authorized
<1>4. call' = [call EXCEPT ![c] = IdleCall] => Trail
  BY <1>1 DEF IdleCall, Authorized
<1>5. Trail
  <2>1. CASE ReadPrecondition(c)
    BY <1>1, <2>1 DEF ReadPrecondition, Authorized, Call
  <2>2. CASE Reserve(c)
    <3>1. \/ call' = [call EXCEPT ![c] = IdleCall]
          \/ \E label \in {"authorize", "replay"} : call' = [call EXCEPT ![c].pc = label]
      BY <2>2 DEF Reserve, Return
    <3>. QED
      BY <1>1, <1>4, <3>1 DEF Authorized, Call
  <2>3. CASE ReserveFails(c) \/ ReviewSinkFails(c)
    BY <1>4, <2>3 DEF ReserveFails, ReviewSinkFails, Raise
  <2>4. CASE Authorize(c)
    BY <1>3, <2>4 DEF Authorize
  <2>5. CASE Stamp(c)
    BY <1>1, <2>5 DEF Stamp, Authorized, Call
  <2>6. CASE AppendEntry(c) /\ call[c].seq = count + 1
    <3>1. Continue(c) /\ call[c].pc = "append" /\ file' = Append(file, PendingEntry(c))
      BY <2>6 DEF AppendEntry
    <3>2. CASE call[c].event = "authorization" /\ call[c].state = "in_flight"
      <4>1. call'[c].pc = "stamp"
        BY <1>1, <3>1, <3>2 DEF Continue, Emit, At, IdleCall
      <4>. QED
        BY <3>1, <3>2, <4>1
    <3>3. CASE call[c].event = "authorization" /\ call[c].state # "in_flight"
      BY <1>3, <3>1, <3>3 DEF Continue
    <3>4. CASE call[c].event = "phase:reserved"
      <4>1. call'[c].pc = "open"
        BY <1>1, <3>1, <3>4 DEF Continue, Goto, At, IdleCall
      <4>. QED
        BY <3>1, <3>4, <4>1 DEF Authorized
    <3>5. CASE call[c].event = "phase:before_dispatch"
      BY <3>1, <3>5 DEF Authorized
    <3>6. CASE call[c].event = "phase:dispatched"
      BY <1>2, <3>1, <3>6 DEF Continue, Labels
    <3>7. CASE call[c].event = "phase:refreshed"
      BY <1>1, <3>1, <3>7 DEF Continue, Authorized, Call
    <3>8. CASE call[c].event \in {"result", "reserved"}
      BY <1>4, <3>1, <3>8 DEF Continue, Return
    <3>. QED
      BY <1>1, <3>2, <3>3, <3>4, <3>5, <3>6, <3>7, <3>8 DEF Call, Events, Phases
  <2>7. CASE (AppendEntry(c) /\ call[c].seq # count + 1) \/ AppendFails(c)
    <3>1. OnRaise(c)
      BY <2>7 DEF AppendEntry, AppendFails
    <3>. QED
      BY <1>2, <1>4, <3>1 DEF OnRaise, Raise, Labels
  <2>8. CASE OpenBrowser(c)
    <3>1. CASE Emit(c, "phase:before_dispatch", "in_flight")
      <4>1. call'[c].pc = "stamp" /\ Authorized(c) /\ call[c].pc = "open"
        BY <1>1, <2>8, <3>1 DEF OpenBrowser, Emit, At, IdleCall, Authorized
      <4>. QED
        BY <4>1
    <3>2. CASE Emit(c, "result", "failed")
      BY <1>3, <3>2
    <3>3. CASE Goto(c, "unknown")
      BY <1>2, <3>3 DEF Labels
    <3>. QED
      BY <2>8, <3>1, <3>2, <3>3 DEF OpenBrowser
  <2>9. CASE Dispatch(c)
    BY <1>2, <1>3, <2>9 DEF Dispatch, Labels
  <2>10. CASE Refresh(c)
    BY <1>1, <2>10 DEF Refresh, At, IdleCall, Authorized
  <2>11. CASE Verify(c) \/ CannotVerify(c) \/ Unknown(c) \/ Replay(c)
    BY <1>2, <1>3, <2>11 DEF Verify, CannotVerify, Unknown, Replay, Labels
  <2>. QED
    BY <2>1, <2>2, <2>3, <2>4, <2>5, <2>6, <2>7, <2>8, <2>9, <2>10, <2>11 DEF Step
<1>6. ASSUME call[c].pc = "reserve", HoldsReservation(c)'
      PROVE  latest'[k] # NoEntry /\ latest'[k].event = "reserved"
  <2>1. k \in Keys /\ Reservation(k) \in Entry /\ Reservation(k).event = "reserved"
        /\ NoEntry \notin Entry
    BY <1>6, StepOfKey, ReservationTyped, SentinelsAssumption DEF Reservation
  <2>2. Reserve(c) \/ call' = [call EXCEPT ![c] = IdleCall]
    BY <1>6 DEF Step, ReadPrecondition, Authorize, Stamp, ReserveFails, Raise,
                AppendEntry, AppendFails, OpenBrowser, Dispatch, Refresh, Verify,
                CannotVerify, Unknown, ReviewSinkFails, Replay
  <2>3. call'[c].pc \notin {"idle", "replay"}
    BY <1>6 DEF HoldsReservation
  <2>4. Reserve(c)
    BY <1>1, <2>2, <2>3 DEF IdleCall
  <2>5. CASE latest[k] = NoEntry
    <3>1. latest' = [latest EXCEPT ![k] = Reservation(k)]
      BY <2>4, <2>5 DEF Reserve, Unclaimed
    <3>. QED
      BY <2>1, <3>1 DEF TypeOK
  <2>6. CASE latest[k] # NoEntry
    <3>1. /\ UNCHANGED latest
          /\ \/ call' = [call EXCEPT ![c] = IdleCall]
             \/ call' = [call EXCEPT ![c].pc =
                           IF latest[k].event = "reserved" THEN "authorize" ELSE "replay"]
      BY <2>4, <2>6 DEF Reserve, Unclaimed, ledgerVars, Return
    <3>2. latest[k].event = "reserved"
      BY <1>1, <2>3, <3>1 DEF IdleCall, Call
    <3>. QED
      BY <2>6, <3>1, <3>2
  <2>. QED
    BY <2>5, <2>6
<1>. QED
  BY <1>5, <1>6

\* A line that has been appended is on record.
LEMMA AppendedIsLogged ==
  ASSUME NEW f \in Seq(Line), NEW line \in Entry
  PROVE  Logged(Append(f, line), line.key, line.event, line.state)
<1>1. line \in Line
  BY DEF Line
<1>2. Len(f) + 1 \in LinesOf(Append(f, line), line.key) /\ Append(f, line)[Len(f) + 1] = line
  BY <1>1, AppendedOwnLine
<1>. QED
  BY <1>2 DEF Logged

LEMMA StepKeepsTrailInv ==
  ASSUME TypeOK, CallersWellFormed, TrailInv, NEW c \in Callers, Step(c)
  PROVE  TrailInv'
<1>1. PICK k \in Keys : k = call[c].key
  BY StepOfKey
<1>2. /\ file \in Seq(Line) /\ call \in [Callers -> Call] /\ call[c] \in Call
      /\ latest \in [Keys -> Entry \cup {NoEntry}] /\ NoEntry \notin Entry
      /\ call[c].pc # "idle"
  BY StepOfKey, SentinelsAssumption DEF TypeOK
<1>3. /\ \A j \in Keys : latest[j] # NoEntry => \E i \in LinesOf(file, j) : file[i] = latest[j]
      /\ \A j \in Keys : \A i \in LinesOf(file, j) :
           file[i].event = "reserved" => file[i].state = "in_flight"
      /\ \A d \in Callers :
           /\ HoldsReservation(d) => Logged(file, call[d].key, "reserved", "in_flight")
           /\ Authorized(d) => Logged(file, call[d].key, "authorization", "in_flight")
           /\ call[d].pc = "dispatch" =>
                Logged(file, call[d].key, "phase:before_dispatch", "in_flight")
  BY DEF TrailInv
<1>. DEFINE Grows ==
       /\ \A j \in Keys : \A i \in LinesOf(file, j) : i \in LinesOf(file', j) /\ file'[i] = file[i]
       /\ \A j \in Keys : latest'[j] # NoEntry => \E i \in LinesOf(file', j) : file'[i] = latest'[j]
       /\ \A j \in Keys : \A i \in LinesOf(file', j) :
            file'[i].event = "reserved" => file'[i].state = "in_flight"
<1>4. Grows
  <2>1. CASE UNCHANGED <<file, latest>>
    BY <1>3, <2>1
  <2>2. ASSUME NEW line \in Entry, line.key = k,
               line = Reservation(k) \/ (call[c].pc = "append" /\ line = PendingEntry(c)),
               file' \in AfterFailedWrite(file, line),
               \/ UNCHANGED latest
               \/ file' = Append(file, line) /\ latest' = [latest EXCEPT ![k] = line]
        PROVE  Grows
    <3>1. line \in Line
      BY DEF Line
    <3>2. \A j \in Keys : \A i \in LinesOf(file, j) : i \in LinesOf(file', j) /\ file'[i] = file[i]
      BY <1>2, <2>2, <3>1, WriteKeepsLines
    <3>3. line.event = "reserved" => line.state = "in_flight"
      BY <1>1, <1>2, <2>2
         DEF Reservation, PendingEntry, CallersWellFormed, WellFormed, Call
    <3>4. ASSUME NEW j \in Keys, NEW i \in LinesOf(file', j), file'[i].event = "reserved"
          PROVE  file'[i].state = "in_flight"
      <4>1. CASE j = k
        BY <1>2, <1>3, <2>2, <3>1, <3>3, <3>4, <4>1, FailedWriteLines
      <4>2. CASE j # k
        BY <1>2, <1>3, <2>2, <3>1, <3>2, <3>4, <4>2, WriteKeepsOthers
      <4>. QED
        BY <4>1, <4>2
    <3>5. ASSUME NEW j \in Keys, latest'[j] # NoEntry
          PROVE  \E i \in LinesOf(file', j) : file'[i] = latest'[j]
      <4>1. CASE latest'[j] = latest[j]
        BY <1>3, <3>2, <3>5, <4>1
      <4>2. CASE latest'[j] # latest[j]
        <5>1. j = k /\ file' = Append(file, line) /\ latest'[k] = line
          BY <1>2, <2>2, <3>5, <4>2
        <5>2. Len(file) + 1 \in LinesOf(file', k) /\ file'[Len(file) + 1] = line
          BY <1>2, <2>2, <3>1, <5>1, AppendedOwnLine
        <5>. QED
          BY <5>1, <5>2
      <4>. QED
        BY <4>1, <4>2
    <3>. QED
      BY <3>2, <3>4, <3>5
  <2>. HIDE DEF Grows
  <2>. QED
    BY <1>1, <2>1, <2>2, StepWrites
<1>5. \A j \in Keys : \A e, s : Logged(file, j, e, s) => Logged(file', j, e, s)
  BY <1>4 DEF Logged
<1>6. call[c].pc = "append" /\ file' = Append(file, PendingEntry(c)) =>
        Logged(file', k, call[c].event, call[c].state)
  BY <1>1, <1>2, PendingEntryTyped, AppendedIsLogged DEF PendingEntry
<1>7. /\ call'[c].pc # "idle" => call'[c].key = k
      /\ HoldsReservation(c)' => HoldsReservation(c) \/ call[c].pc = "reserve"
      /\ UNCHANGED attempts \/ (/\ call[c].pc = "dispatch"
                                /\ attempts' = [attempts EXCEPT ![k] = @ + 1])
  BY <1>1, StepOrder
<1>8. ASSUME HoldsReservation(c)'
      PROVE  Logged(file', k, "reserved", "in_flight")
  <2>1. CASE HoldsReservation(c)
    BY <1>1, <1>3, <1>5, <2>1
  <2>2. CASE call[c].pc = "reserve"
    <3>1. latest'[k] # NoEntry /\ latest'[k].event = "reserved"
      BY <1>1, <1>8, <2>2, StepTrail
    <3>2. PICK i \in LinesOf(file', k) : file'[i] = latest'[k]
      BY <1>4, <3>1
    <3>. QED
      BY <1>4, <3>1, <3>2 DEF Logged
  <2>. QED
    BY <1>7, <1>8, <2>1, <2>2
<1>9. Authorized(c)' => Logged(file', k, "authorization", "in_flight")
  BY <1>1, <1>3, <1>5, <1>6, StepTrail
<1>10. ASSUME call'[c].pc = "dispatch"
       PROVE  Logged(file', k, "phase:before_dispatch", "in_flight")
  <2>1. /\ call[c].pc = "append" /\ file' = Append(file, PendingEntry(c))
        /\ call[c].event = "phase:before_dispatch"
    BY <1>10, StepTrail
  <2>2. call[c].state = "in_flight"
    BY <2>1 DEF CallersWellFormed, WellFormed, Phases
  <2>. QED
    BY <1>6, <2>1, <2>2
<1>11. ASSUME NEW d \in Callers
       PROVE  /\ HoldsReservation(d)' => Logged(file', call'[d].key, "reserved", "in_flight")
              /\ Authorized(d)' => Logged(file', call'[d].key, "authorization", "in_flight")
              /\ call'[d].pc = "dispatch" =>
                   Logged(file', call'[d].key, "phase:before_dispatch", "in_flight")
  <2>1. CASE d = c
    <3>1. HoldsReservation(c)' \/ Authorized(c)' \/ call'[c].pc = "dispatch" =>
            call'[c].key = k
      BY <1>7 DEF HoldsReservation, Authorized
    <3>. QED
      BY <1>8, <1>9, <1>10, <2>1, <3>1
  <2>2. CASE d # c
    <3>1. call'[d] = call[d]
      BY <1>2, <2>2, StepMovesCaller
    <3>2. /\ HoldsReservation(d)' <=> HoldsReservation(d)
          /\ Authorized(d)' <=> Authorized(d)
      BY <3>1 DEF HoldsReservation, Authorized
    <3>3. call[d].pc # "idle" => call[d].key \in Keys
      BY ExecutorAssumption DEF CallersWellFormed, WellFormed
    <3>4. HoldsReservation(d) \/ Authorized(d) \/ call[d].pc = "dispatch" =>
            call[d].pc # "idle"
      BY DEF HoldsReservation, Authorized
    <3>. QED
      BY <1>3, <1>5, <3>1, <3>2, <3>3, <3>4
  <2>. QED
    BY <2>1, <2>2
<1>12. DurableBeforeDispatch'
  <2>1. ASSUME NEW j \in Keys, attempts'[j] > 0
        PROVE  /\ Logged(file', j, "reserved", "in_flight")
               /\ Logged(file', j, "authorization", "in_flight")
               /\ Logged(file', j, "phase:before_dispatch", "in_flight")
    <3>1. CASE attempts'[j] = attempts[j]
      BY <1>5, <2>1, <3>1 DEF TrailInv, DurableBeforeDispatch
    <3>2. CASE attempts'[j] # attempts[j]
      <4>1. j = k /\ call[c].pc = "dispatch"
        BY <1>7, <3>2 DEF TypeOK
      <4>2. HoldsReservation(c) /\ Authorized(c)
        BY <4>1 DEF HoldsReservation, Authorized
      <4>. QED
        BY <1>1, <1>3, <1>5, <4>1, <4>2
    <3>. QED
      BY <3>1, <3>2
  <2>. QED
    BY <2>1 DEF DurableBeforeDispatch, Logged, LinesOf
<1>13. /\ \A d \in Callers :
            /\ HoldsReservation(d)' => Logged(file, call[d].key, "reserved", "in_flight")'
            /\ Authorized(d)' => Logged(file, call[d].key, "authorization", "in_flight")'
            /\ call'[d].pc = "dispatch" =>
                 Logged(file, call[d].key, "phase:before_dispatch", "in_flight")'
  BY <1>11 DEF Logged, LinesOf
<1>14. /\ \A j \in Keys : latest'[j] # NoEntry => \E i \in LinesOf(file, j)' : file'[i] = latest'[j]
       /\ \A j \in Keys : \A i \in LinesOf(file, j)' :
            file'[i].event = "reserved" => file'[i].state = "in_flight"
  <2>1. \A j \in Keys : LinesOf(file, j)' = LinesOf(file', j)
    BY DEF LinesOf
  <2>. QED
    BY <1>4, <2>1
<1>. QED
  BY <1>12, <1>13, <1>14 DEF TrailInv

\* A crash leaves the file at least as it was, and a restart takes into memory
\* nothing but lines of the file.
LEMMA OtherActionsKeepTrailInv ==
  ASSUME TypeOK, CallersWellFormed, TrailInv
  PROVE  /\ \A c \in Callers : \A k \in KeysOf[c] : Begin(c, k) => TrailInv'
         /\ Operate => TrailInv'
         /\ \A a \in Actions : ResolveReview(a) => TrailInv'
         /\ Crash => TrailInv'
         /\ Restart => TrailInv'
         /\ Tick => TrailInv'
         /\ UNCHANGED vars => TrailInv'
<1>. USE DEF controlVars, ledgerVars, espnVars, budgetVars
<1>1. /\ DurableBeforeDispatch
      /\ \A j \in Keys : latest[j] # NoEntry => \E i \in LinesOf(file, j) : file[i] = latest[j]
      /\ \A j \in Keys : \A i \in LinesOf(file, j) :
           file[i].event = "reserved" => file[i].state = "in_flight"
      /\ file \in Seq(Line)
  BY DEF TrailInv, TypeOK
<1>. DEFINE Behind(d) == HoldsReservation(d) \/ Authorized(d) \/ call[d].pc = "dispatch"
<1>2. ASSUME UNCHANGED <<file, latest, attempts>>,
             \A d \in Callers : call'[d] = call[d] \/ ~Behind(d)'
      PROVE  TrailInv'
  <2>1. \A j : LinesOf(file, j)' = LinesOf(file, j)
    BY <1>2 DEF LinesOf
  <2>2. \A j, e, s : Logged(file, j, e, s)' <=> Logged(file, j, e, s)
    BY <1>2, <2>1 DEF Logged
  <2>3. DurableBeforeDispatch'
    BY <1>1, <1>2, <2>2 DEF DurableBeforeDispatch
  <2>4. ASSUME NEW d \in Callers
        PROVE  /\ HoldsReservation(d)' => Logged(file, call[d].key, "reserved", "in_flight")'
               /\ Authorized(d)' => Logged(file, call[d].key, "authorization", "in_flight")'
               /\ call'[d].pc = "dispatch" =>
                    Logged(file, call[d].key, "phase:before_dispatch", "in_flight")'
    <3>1. CASE call'[d] = call[d]
      <4>1. (HoldsReservation(d)' <=> HoldsReservation(d)) /\ (Authorized(d)' <=> Authorized(d))
        BY <3>1 DEF HoldsReservation, Authorized
      <4>2. \A e, s : Logged(file, call[d].key, e, s)' <=> Logged(file, call[d].key, e, s)
        BY <1>2, <3>1 DEF Logged, LinesOf
      <4>. QED
        BY <3>1, <4>1, <4>2 DEF TrailInv
    <3>2. CASE ~Behind(d)'
      BY <3>2
    <3>. QED
      BY <1>2, <3>1, <3>2
  <2>. QED
    BY <1>1, <1>2, <2>1, <2>3, <2>4 DEF TrailInv
<1>3. ASSUME NEW c \in Callers, NEW k \in KeysOf[c], Begin(c, k)
      PROVE  TrailInv'
  <2>1. UNCHANGED <<file, latest, attempts>> /\ call \in [Callers -> Call]
    BY <1>3 DEF Begin, TypeOK
  <2>2. \/ UNCHANGED call
        \/ \E label \in {"read", "replay"} :
             call' = [call EXCEPT ![c] =
               [IdleCall EXCEPT !.key = k, !.now = clock, !.pc = label]]
    BY <1>3 DEF Begin
  <2>3. ASSUME NEW d \in Callers
        PROVE  call'[d] = call[d] \/ ~Behind(d)'
    <3>1. call'[d] = call[d] \/ call'[d].pc \in {"read", "replay"}
      BY <2>1, <2>2 DEF IdleCall
    <3>. QED
      BY <3>1 DEF HoldsReservation, Authorized
  <2>. QED
    BY <1>2, <2>1, <2>3
<1>4. Operate => TrailInv'
  BY <1>2 DEF Operate
<1>5. \A a \in Actions : ResolveReview(a) => TrailInv'
  BY <1>2 DEF ResolveReview
<1>6. ASSUME Crash
      PROVE  TrailInv'
  <2>1. /\ UNCHANGED attempts /\ file' \in {file, Append(file, TornLine)}
        /\ latest' = [k \in Keys |-> NoEntry] /\ call' = [c \in Callers |-> IdleCall]
    BY <1>6 DEF Crash
  <2>2. TornLine \in Line /\ file' \in AfterFailedWrite(file, TornLine)
        /\ \A j \in Keys : TornLine.key # j
    BY <2>1, TornLineInLine, SentinelsAssumption DEF AfterFailedWrite, TornLine
  <2>3. /\ \A j \in Keys : LinesOf(file', j) = LinesOf(file, j)
        /\ \A j \in Keys : \A i \in LinesOf(file, j) : file'[i] = file[i]
    BY <1>1, <2>2, WriteKeepsOthers, WriteKeepsLines
  <2>4. \A j \in Keys : LinesOf(file, j)' = LinesOf(file, j)
    BY <2>3 DEF LinesOf
  <2>5. \A j \in Keys : \A e, s : Logged(file, j, e, s) => Logged(file, j, e, s)'
    BY <2>3, <2>4 DEF Logged
  <2>6. DurableBeforeDispatch'
    BY <1>1, <2>1, <2>5 DEF DurableBeforeDispatch
  <2>7. \A d \in Callers : ~Behind(d)'
    BY <2>1 DEF HoldsReservation, Authorized, IdleCall
  <2>8. \A j \in Keys : latest'[j] = NoEntry
    BY <2>1
  <2>. QED
    BY <1>1, <2>3, <2>4, <2>6, <2>7, <2>8 DEF TrailInv
<1>7. ASSUME Restart
      PROVE  TrailInv'
  <2>1. /\ UNCHANGED <<attempts, call, file>> /\ ~up /\ latest' = Reload(file)
    BY <1>7 DEF Restart
  <2>2. \A j : LinesOf(file, j)' = LinesOf(file, j)
    BY <2>1 DEF LinesOf
  <2>3. DurableBeforeDispatch'
    BY <1>1, <2>1, <2>2 DEF DurableBeforeDispatch, Logged
  <2>4. ASSUME NEW j \in Keys, latest'[j] # NoEntry
        PROVE  \E i \in LinesOf(file, j) : file[i] = latest'[j]
    <3>1. latest'[j] = LastLine(file, j)
      BY <2>1 DEF Reload
    <3>2. LinesOf(file, j) # {}
      BY <2>4, <3>1 DEF LastLine
    <3>. QED
      BY <1>1, <3>1, <3>2, LastLineIsLine
  <2>5. \A d \in Callers : ~Behind(d)'
    <3>1. \A d \in Callers : call'[d].pc = "idle"
      BY <2>1 DEF CallersWellFormed
    <3>. QED
      BY <3>1 DEF HoldsReservation, Authorized
  <2>. QED
    BY <1>1, <2>1, <2>2, <2>3, <2>4, <2>5 DEF TrailInv
<1>8. Tick => TrailInv'
  BY <1>2 DEF Tick
<1>9. UNCHANGED vars => TrailInv'
  BY <1>2 DEF vars
<1>. QED
  BY <1>3, <1>4, <1>5, <1>6, <1>7, <1>8, <1>9

\* No dispatch without its durable trail, for any number of callers, whether
\* or not they share keys, and whatever fails, crashes or is replayed.
THEOREM DispatchIsDurable == Spec => []DurableBeforeDispatch
<1>1. ASSUME Init
      PROVE  TrailInv
  <2>1. /\ \A k \in Keys : latest[k] = NoEntry /\ attempts[k] = 0
        /\ \A c \in Callers : call[c] = IdleCall
        /\ file = <<>>
    BY <1>1 DEF Init
  <2>2. \A k \in Keys : LinesOf(file, k) = {}
    <3>1. 1 .. Len(file) = {}
      BY <2>1
    <3>. QED
      BY <3>1 DEF LinesOf
  <2>3. DurableBeforeDispatch
    BY <2>1 DEF DurableBeforeDispatch
  <2>. QED
    BY <2>1, <2>2, <2>3 DEF TrailInv, HoldsReservation, Authorized, IdleCall
<1>2. TypeOK /\ CallersWellFormed /\ TrailInv /\ [Next]_vars => TrailInv'
  BY StepKeepsTrailInv, OtherActionsKeepTrailInv DEF Next
<1>3. TrailInv => DurableBeforeDispatch
  BY DEF TrailInv
<1>. QED
  BY <1>1, <1>2, <1>3, TypeCorrect, PTL DEF Spec

-----------------------------------------------------------------------------
(* The review gate *)

\* A caller is cleared by the controls only, and a step that closes the gate
\* of an action is not one of a cleared caller.
LEMMA StepClears ==
  ASSUME TypeOK, CallersWellFormed, NEW c \in Callers, Step(c)
  PROVE  /\ Cleared(c)' =>
              /\ UNCHANGED freshRequired
              /\ Cleared(c) \/ ActionOf[call[c].key] \notin freshRequired
         /\ freshRequired' \subseteq freshRequired \cup {ActionOf[call[c].key]}
<1>. DEFINE a == ActionOf[call[c].key]
            Asks == /\ call'[c].pc \in {"stamp", "append"}
                    /\ call'[c].event = "authorization" /\ call'[c].state = "in_flight"
<1>1. call \in [Callers -> Call] /\ call[c] \in Call
  BY DEF TypeOK
<1>2. ASSUME NEW event, NEW state, Emit(c, event, state)
      PROVE  call'[c].pc = "stamp" /\ call'[c].event = event /\ call'[c].state = state
  BY <1>1, <1>2 DEF Emit, At, IdleCall
<1>3. \A label : Goto(c, label) => call'[c].pc = label
  BY <1>1 DEF Goto, At, IdleCall
<1>4. call' = [call EXCEPT ![c] = IdleCall] => call'[c].pc = "idle"
  BY <1>1 DEF IdleCall
<1>5. CASE Unknown(c) \/ ReviewSinkFails(c) \/ Replay(c)
  <2>1. freshRequired' = freshRequired \cup {a}
    BY <1>5 DEF Unknown, ReviewSinkFails, Replay, PauseForReview
  <2>2. call'[c].pc = "idle" \/ (call'[c].pc = "stamp" /\ call'[c].event = "result")
    BY <1>2, <1>4, <1>5 DEF Unknown, ReviewSinkFails, Replay, Raise
  <2>3. ~Cleared(c)'
    BY <2>2 DEF Cleared, Authorized
  <2>. QED
    BY <2>1, <2>3
<1>6. CASE ~(Unknown(c) \/ ReviewSinkFails(c) \/ Replay(c))
  <2>1. UNCHANGED freshRequired
    BY <1>6 DEF controlVars, Step, ReadPrecondition, Reserve, ReserveFails, Authorize,
                Stamp, AppendEntry, AppendFails, OpenBrowser, Dispatch, Refresh,
                Verify, CannotVerify
  <2>2. Authorized(c)' => Cleared(c)
    BY StepTrail DEF Cleared
  <2>3. ASSUME Asks
        PROVE  Cleared(c) \/ a \notin freshRequired
    <3>1. CASE Authorize(c)
      <4>1. Allowed(c)
        BY <1>2, <2>3, <3>1 DEF Authorize
      <4>. QED
        BY <4>1 DEF Allowed, IsPaused
    <3>2. CASE Stamp(c)
      BY <1>1, <2>3, <3>2 DEF Stamp, Call, Cleared
    <3>3. CASE AppendEntry(c) /\ call[c].seq = count + 1
      <4>1. Continue(c)
        BY <3>3 DEF AppendEntry
      <4>2. call[c].event = "phase:refreshed" => call'[c].pc = "verify"
        BY <1>1, <4>1 DEF Continue, Call
      <4>. QED
        BY <1>2, <1>3, <1>4, <2>3, <4>1, <4>2 DEF Continue, Return
    <3>4. CASE (AppendEntry(c) /\ call[c].seq # count + 1) \/ AppendFails(c)
      BY <1>3, <1>4, <2>3, <3>4 DEF AppendEntry, AppendFails, OnRaise, Raise
    <3>5. CASE ReadPrecondition(c) \/ Reserve(c) \/ ReserveFails(c)
      <4>1. call'[c].pc \in {"reserve", "authorize", "replay", "idle"}
        BY <1>1, <1>4, <3>5 DEF ReadPrecondition, Reserve, ReserveFails, Return, Raise, Call
      <4>. QED
        BY <2>3, <4>1
    <3>6. CASE Refresh(c)
      <4>1. call'[c].event = "phase:refreshed"
        BY <1>1, <3>6 DEF Refresh, At, IdleCall
      <4>. QED
        BY <2>3, <4>1
    <3>7. CASE OpenBrowser(c) \/ Dispatch(c) \/ Verify(c) \/ CannotVerify(c)
      BY <1>2, <1>3, <2>3, <3>7 DEF OpenBrowser, Dispatch, Verify, CannotVerify
    <3>. QED
      BY <1>6, <3>1, <3>2, <3>3, <3>4, <3>5, <3>6, <3>7 DEF Step
  <2>. QED
    BY <2>1, <2>2, <2>3 DEF Cleared
<1>. QED
  BY <1>5, <1>6

LEMMA GateInvKept ==
  ASSUME ExclusiveActions, TypeOK, CallersWellFormed, GateInv, [Next]_vars
  PROVE  GateInv'
<1>. USE DEF controlVars, ledgerVars, espnVars, budgetVars
<1>1. /\ \A d \in Callers : Cleared(d) => call[d].pc # "idle"
      /\ \A d \in Callers : call[d].pc # "idle" => call[d].key \in KeysOf[d]
      /\ call \in [Callers -> Call]
  BY DEF Cleared, Authorized, CallersWellFormed, WellFormed, TypeOK
<1>2. ASSUME freshRequired' \subseteq freshRequired,
             \A d \in Callers : call'[d] = call[d] \/ ~Cleared(d)'
      PROVE  GateInv'
  <2>1. ASSUME NEW d \in Callers, Cleared(d)'
        PROVE  ActionOf[call'[d].key] \notin freshRequired'
    <3>1. call'[d] = call[d]
      BY <1>2, <2>1
    <3>2. Cleared(d)
      BY <2>1, <3>1 DEF Cleared, Authorized
    <3>. QED
      BY <1>2, <3>1, <3>2 DEF GateInv
  <2>. QED
    BY <2>1 DEF GateInv
<1>3. ASSUME NEW c \in Callers, Step(c)
      PROVE  GateInv'
  <2>1. ASSUME NEW d \in Callers, Cleared(d)'
        PROVE  ActionOf[call'[d].key] \notin freshRequired'
    <3>1. CASE d = c
      <4>1. call'[c].key = call[c].key
        BY <1>3, <2>1, <3>1, StepOrder DEF Cleared, Authorized
      <4>. QED
        BY <1>3, <2>1, <3>1, <4>1, StepClears DEF GateInv
    <3>2. CASE d # c
      <4>1. call'[d] = call[d]
        BY <1>1, <1>3, <3>2, StepMovesCaller
      <4>2. Cleared(d)
        BY <2>1, <4>1 DEF Cleared, Authorized
      <4>3. ActionOf[call[d].key] # ActionOf[call[c].key]
        BY <1>1, <1>3, <3>2, <4>2, StepOfKey DEF ExclusiveActions
      <4>. QED
        BY <1>3, <4>1, <4>2, <4>3, StepClears DEF GateInv
    <3>. QED
      BY <3>1, <3>2
  <2>. QED
    BY <2>1 DEF GateInv
<1>4. ASSUME NEW c \in Callers, NEW k \in KeysOf[c], Begin(c, k)
      PROVE  GateInv'
  <2>1. UNCHANGED freshRequired
    BY <1>4 DEF Begin
  <2>2. \/ UNCHANGED call
        \/ \E label \in {"read", "replay"} :
             call' = [call EXCEPT ![c] =
               [IdleCall EXCEPT !.key = k, !.now = clock, !.pc = label]]
    BY <1>4 DEF Begin
  <2>3. ASSUME NEW d \in Callers
        PROVE  call'[d] = call[d] \/ ~Cleared(d)'
    <3>1. call'[d] = call[d] \/ call'[d].pc \in {"read", "replay"}
      BY <1>1, <2>2 DEF IdleCall
    <3>. QED
      BY <3>1 DEF Cleared, Authorized
  <2>. QED
    BY <1>2, <2>1, <2>3
<1>5. Operate => GateInv'
  BY <1>2 DEF Operate
<1>6. \A a \in Actions : ResolveReview(a) => GateInv'
  BY <1>2 DEF ResolveReview
<1>7. ASSUME Crash
      PROVE  GateInv'
  <2>1. \A d \in Callers : ~Cleared(d)'
    BY <1>7 DEF Crash, Cleared, Authorized, IdleCall
  <2>. QED
    BY <2>1 DEF GateInv
<1>8. Restart => GateInv'
  BY <1>2 DEF Restart
<1>9. Tick => GateInv'
  BY <1>2 DEF Tick
<1>10. UNCHANGED vars => GateInv'
  BY <1>2 DEF vars
<1>. QED
  BY <1>3, <1>4, <1>5, <1>6, <1>7, <1>8, <1>9, <1>10 DEF Next

\* While an action awaits a fresh read it is not dispatched, for any number of
\* callers that work on different actions, whatever the operators resume.
THEOREM GateHolds ==
  ASSUME ExclusiveActions
  PROVE  Spec => ReviewGate
<1>1. Init => GateInv
  BY DEF Init, GateInv, Cleared, Authorized, IdleCall
<1>2. TypeOK /\ CallersWellFormed /\ GateInv /\ [Next]_vars => GateInv'
  BY GateInvKept
<1>3. ASSUME TypeOK, CallersWellFormed, GateInv, [Next]_vars,
             NEW k \in Keys, attempts'[k] # attempts[k]
      PROVE  ActionOf[k] \notin freshRequired
  <2>1. PICK c \in Callers : Step(c)
    BY <1>3 DEF Next, Begin, Operate, ResolveReview, Crash, Restart, Tick, vars, espnVars
  <2>2. call[c].pc = "dispatch" /\ attempts' = [attempts EXCEPT ![call[c].key] = @ + 1]
    BY <1>3, <2>1, StepOrder
  <2>3. k = call[c].key /\ Cleared(c)
    BY <1>3, <2>2 DEF TypeOK, Cleared, Authorized
  <2>. QED
    BY <1>3, <2>3 DEF GateInv
<1>4. TypeOK /\ CallersWellFormed /\ GateInv /\ [Next]_vars =>
        [\A k \in Keys :
           attempts'[k] # attempts[k] => ActionOf[k] \notin freshRequired]_vars
  BY <1>3
<1>. QED
  BY <1>1, <1>2, <1>4, TypeCorrect, PTL DEF Spec, ReviewGate

-----------------------------------------------------------------------------
(* execute() implements OnceOnlyWrite *)

\* A first result settles the key, and is consistent with what happened to it.
LEMMA SettleStep ==
  ASSUME TypeOK, NEW k \in Keys, NEW result \in TerminalStates,
         answers[k] = {}, LinesOf(file, k) # {}, Truthful(k, result),
         applied[k] <= attempts[k],
         answers' = [answers EXCEPT ![k] = {result}], UNCHANGED <<attempts, applied>>,
         \A j \in Keys : LinesOf(file, j)' = {} <=> LinesOf(file, j) = {}
  PROVE  Write!Settle(k)
<1>1. /\ answers'[k] = {result} /\ \A j \in Keys \ {k} : answers'[j] = answers[j]
      /\ attempts[k] \in Nat /\ applied[k] \in Nat
  BY DEF TypeOK
<1>2. StatusOf(k) \in {"claimed", "attempted"} /\ StatusOf(k)' = "settled"
  BY <1>1 DEF StatusOf
<1>3. \A j \in Keys \ {k} : StatusOf(j)' = StatusOf(j)
  BY <1>1 DEF StatusOf
<1>4. [j \in Keys |-> StatusOf(j)]' = [[j \in Keys |-> StatusOf(j)] EXCEPT ![k] = "settled"]
  BY <1>2, <1>3
<1>5. Write!Consistent(k, result)
  <2>1. result = "rejected" => StatusOf(k) = "claimed"
    BY <1>1 DEF StatusOf, Truthful
  <2>2. result = "verified" => StatusOf(k) = "attempted" /\ applied[k] = 1
    BY <1>1 DEF StatusOf, Truthful
  <2>3. result = "failed" => applied[k] = 0
    BY DEF Truthful
  <2>. QED
    BY <2>1, <2>2, <2>3 DEF Write!Consistent, TerminalStates
<1>. QED
  BY <1>2, <1>4, <1>5 DEF Write!Settle, TerminalStates

LEMMA StepRefines ==
  ASSUME ExclusiveKeys, TypeOK, AnswerInv, NEW c \in Callers, Step(c)
  PROVE  [Write!Next]_(Write!vars)
<1>1. CallersWellFormed /\ DispatchInv /\ AttemptsRecorded
  BY DEF AnswerInv, DispatchInv
<1>2. PICK k \in Keys : k = call[c].key
  BY <1>1, StepOfKey
<1>3. /\ KeyInv(k) /\ CallInv(c) /\ call[c].pc # "idle"
      /\ attempts[k] \in Nat /\ applied[k] \in Nat /\ applied[k] <= attempts[k]
      /\ answers[k] = {}
  BY <1>1, <1>2, StepOfKey DEF AnswerInv, TypeOK, KeyInv, CallInv
<1>4. /\ answers \in [Keys -> SUBSET TerminalStates] /\ attempts \in [Keys -> Nat]
      /\ applied \in [Keys -> Nat] /\ applied' \in [Keys -> Nat]
      /\ answers' \in [Keys -> SUBSET TerminalStates]
  BY <1>1, StepTyped DEF TypeOK
<1>5. ASSUME NEW j \in Keys, j # k
      PROVE  /\ StatusOf(j)' = StatusOf(j) /\ applied'[j] = applied[j]
             /\ answers'[j] = answers[j] /\ LinesOf(file, j)' = LinesOf(file, j)
  <2>1. /\ LinesOf(file', j) = LinesOf(file, j) /\ answers'[j] = answers[j]
        /\ attempts'[j] = attempts[j] /\ applied'[j] = applied[j]
    BY <1>1, <1>2, <1>5, StepKeepsOtherKeys
  <2>2. LinesOf(file, j)' = LinesOf(file', j)
    BY DEF LinesOf
  <2>. QED
    BY <2>1, <2>2 DEF StatusOf
<1>6. LinesOf(file, k) # {} => LinesOf(file, k)' # {}
  BY <1>1, StepKeepsLedger
<1>. DEFINE Status == [j \in Keys |-> StatusOf(j)]
<1>7. Status' = [Status EXCEPT ![k] = StatusOf(k)']
  BY <1>5
<1>8. ASSUME StatusOf(k)' = StatusOf(k), UNCHANGED <<applied, answers>>
      PROVE  UNCHANGED Write!vars
  <2>1. Status' = Status
    BY <1>7, <1>8
  <2>. QED
    BY <1>8, <2>1 DEF Write!vars
<1>9. CASE \/ ReadPrecondition(c) \/ Authorize(c) \/ Stamp(c) \/ OpenBrowser(c)
           \/ Refresh(c) \/ Verify(c) \/ CannotVerify(c) \/ Unknown(c)
           \/ ReviewSinkFails(c) \/ Replay(c)
  <2>1. UNCHANGED <<file, attempts, applied, answers>>
    BY <1>9 DEF ledgerVars, espnVars, Raise, ReadPrecondition, Authorize, Stamp,
         OpenBrowser, Refresh, Verify, CannotVerify, Unknown, ReviewSinkFails, Replay
  <2>2. LinesOf(file, k)' = LinesOf(file, k)
    BY <2>1 DEF LinesOf
  <2>. QED
    BY <1>8, <2>1, <2>2 DEF StatusOf
<1>10. CASE Reserve(c) \/ ReserveFails(c)
  <2>1. /\ latest[k] = NoEntry /\ attempts[k] = 0
        /\ call[c].pc = "reserve" /\ UNCHANGED <<attempts, applied, answers>>
    <3>1. call[c].pc = "reserve" /\ BeforeDispatch(c)
      BY <1>10 DEF Reserve, ReserveFails, BeforeDispatch
    <3>2. latest[k] = NoEntry
      BY <1>2, <1>3, <3>1 DEF CallInv
    <3>. QED
      BY <1>1, <1>2, <1>3, <1>10, <3>1, <3>2, CallerKnows
         DEF Reserve, ReserveFails, Unclaimed, Raise, espnVars
  <2>2. CASE LinesOf(file, k)' = {} <=> LinesOf(file, k) = {}
    BY <1>8, <2>1, <2>2 DEF StatusOf
  <2>3. CASE LinesOf(file, k) = {} /\ LinesOf(file, k)' # {}
    <3>1. StatusOf(k) = "free" /\ StatusOf(k)' = "claimed"
      BY <1>3, <2>1, <2>3 DEF StatusOf
    <3>2. Write!Claim(k)
      BY <1>7, <2>1, <3>1 DEF Write!Claim
    <3>. QED
      BY <3>2 DEF Write!Next
  <2>. QED
    BY <1>6, <2>2, <2>3
<1>11. CASE AppendEntry(c) \/ AppendFails(c)
  <2>1. /\ call[c].pc = "append" /\ UNCHANGED <<attempts, applied>>
        /\ LinesOf(file, k) # {}
    <3>1. call[c].pc = "append"
      BY <1>11 DEF AppendEntry, AppendFails
    <3>. QED
      BY <1>1, <1>2, <1>3, <1>11, <3>1 DEF AppendEntry, AppendFails, espnVars, CallInv,
                                    AttemptsRecorded
  <2>2. CASE UNCHANGED answers
    BY <1>6, <1>8, <2>1, <2>2 DEF StatusOf
  <2>3. CASE answers' # answers
    <3>1. Continue(c) /\ call[c].event \in Events \ {"reserved"}
      BY <1>1, <1>11, <2>1, <2>3 DEF AppendEntry, AppendFails, OnRaise, Raise,
             CallersWellFormed, WellFormed, TypeOK, Call
    <3>2. call[c].event = "result" /\ Return(c, call[c].state)
      BY <2>3, <3>1 DEF Continue, Events, Phases
    <3>3. call[c].state \in TerminalStates /\ Truthful(k, call[c].state)
      BY <1>1, <1>2, <1>3, <2>1, <3>2 DEF CallersWellFormed, WellFormed, CallInv
    <3>4. answers' = [answers EXCEPT ![k] = {call[c].state}]
      BY <1>2, <1>3, <1>4, <3>2 DEF Return
    <3>5. \A j \in Keys : LinesOf(file, j)' = {} <=> LinesOf(file, j) = {}
      BY <1>5, <1>6, <2>1
    <3>6. Write!Settle(k)
      BY <1>3, <2>1, <3>3, <3>4, <3>5, SettleStep
    <3>. QED
      BY <3>6 DEF Write!Next
  <2>. QED
    BY <2>2, <2>3
<1>12. CASE Dispatch(c)
  <2>1. /\ call[c].pc = "dispatch" /\ UNCHANGED <<file, answers>>
        /\ attempts' = [attempts EXCEPT ![k] = @ + 1]
    BY <1>2, <1>12 DEF Dispatch, ledgerVars
  <2>2. attempts[k] = 0 /\ applied[k] = 0 /\ LinesOf(file, k) # {}
    <3>1. HoldsReservation(c) /\ BeforeDispatch(c)
      BY <2>1 DEF HoldsReservation, BeforeDispatch
    <3>. QED
      BY <1>1, <1>2, <1>3, <3>1, CallerKnows DEF DispatchInv, ReservationsHeld
  <2>3. StatusOf(k) = "claimed" /\ StatusOf(k)' = "attempted"
    <3>1. LinesOf(file, k)' = LinesOf(file, k) /\ attempts'[k] = 1
      BY <1>4, <2>1, <2>2 DEF LinesOf
    <3>. QED
      BY <1>3, <2>1, <2>2, <3>1 DEF StatusOf
  <2>4. \E e \in {0, 1} : applied' = [applied EXCEPT ![k] = e]
    BY <1>2, <1>4, <1>12, <2>2 DEF Dispatch
  <2>5. Write!Attempt(k)
    BY <1>7, <2>1, <2>3, <2>4 DEF Write!Attempt
  <2>. QED
    BY <2>5 DEF Write!Next
<1>. QED
  BY <1>9, <1>10, <1>11, <1>12 DEF Step

LEMMA OtherActionsRefine ==
  ASSUME TypeOK, AnswerInv
  PROVE  /\ \A c \in Callers : \A k \in KeysOf[c] : Begin(c, k) => [Write!Next]_(Write!vars)
         /\ Operate => [Write!Next]_(Write!vars)
         /\ \A a \in Actions : ResolveReview(a) => [Write!Next]_(Write!vars)
         /\ Crash => [Write!Next]_(Write!vars)
         /\ Restart => [Write!Next]_(Write!vars)
         /\ Tick => [Write!Next]_(Write!vars)
         /\ UNCHANGED vars => [Write!Next]_(Write!vars)
<1>. USE DEF controlVars, ledgerVars, espnVars, budgetVars
<1>. DEFINE Status == [j \in Keys |-> StatusOf(j)]
<1>1. ASSUME \A j \in Keys : LinesOf(file, j)' = LinesOf(file, j),
             UNCHANGED <<attempts, applied, answers>>
      PROVE  UNCHANGED Write!vars
  <2>1. \A j \in Keys : StatusOf(j)' = StatusOf(j)
    BY <1>1 DEF StatusOf
  <2>2. Status' = Status
    BY <2>1
  <2>. QED
    BY <1>1, <2>2 DEF Write!vars
<1>2. ASSUME UNCHANGED <<file, attempts, applied, answers>>
      PROVE  UNCHANGED Write!vars
  BY <1>1, <1>2 DEF LinesOf
<1>3. ASSUME NEW c \in Callers, NEW k \in KeysOf[c], Begin(c, k)
      PROVE  [Write!Next]_(Write!vars)
  <2>1. /\ k \in Keys /\ up /\ UNCHANGED <<file, attempts, applied>>
        /\ KeyInv(k) /\ AttemptsRecorded /\ answers \in [Keys -> SUBSET TerminalStates]
    BY <1>3, ExecutorAssumption DEF Begin, AnswerInv, DispatchInv, TypeOK
  <2>2. CASE UNCHANGED answers
    BY <1>2, <2>1, <2>2
  <2>3. CASE answers' # answers
    <3>1. Settled(k) /\ answers' = [answers EXCEPT ![k] = @ \cup {latest[k].state}]
      BY <1>3, <2>3 DEF Begin, Settled, Unclaimed
    <3>2. /\ LinesOf(file, k) # {} /\ LastLine(file, k) = latest[k]
          /\ latest[k].state \in TerminalStates
      BY <2>1, <3>1 DEF AttemptsRecorded, Settled, KeyInv, HasResult
    <3>3. answers[k] = {}
      <4>1. answers[k] # {} => answers[k] = {latest[k].state}
        BY <2>1, <3>2 DEF KeyInv
      <4>. QED
        BY <2>1, <2>3, <3>1, <4>1
    <3>4. Truthful(k, latest[k].state)
      <4>1. PICK i \in LinesOf(file, k) : latest[k] = file[i]
        BY <2>1, <3>2, LastLineIsLine DEF TypeOK
      <4>. QED
        BY <2>1, <4>1 DEF KeyInv
    <3>5. answers' = [answers EXCEPT ![k] = {latest[k].state}]
      BY <3>1, <3>3
    <3>6. \A j \in Keys : LinesOf(file, j)' = {} <=> LinesOf(file, j) = {}
      BY <2>1 DEF LinesOf
    <3>7. Write!Settle(k)
      BY <2>1, <3>2, <3>3, <3>4, <3>5, <3>6, SettleStep DEF KeyInv
    <3>. QED
      BY <2>1, <3>7 DEF Write!Next
  <2>. QED
    BY <2>2, <2>3
<1>4. Operate => UNCHANGED Write!vars
  BY <1>2 DEF Operate
<1>5. \A a \in Actions : ResolveReview(a) => UNCHANGED Write!vars
  BY <1>2 DEF ResolveReview
<1>6. ASSUME Crash
      PROVE  UNCHANGED Write!vars
  <2>1. UNCHANGED <<attempts, applied, answers>> /\ file' \in {file, Append(file, TornLine)}
    BY <1>6 DEF Crash
  <2>2. ASSUME NEW j \in Keys
        PROVE  LinesOf(file, j)' = LinesOf(file, j)
    <3>1. TornLine \in Line /\ TornLine.key # j /\ file \in Seq(Line)
          /\ file' \in AfterFailedWrite(file, TornLine)
      BY <2>1, TornLineInLine, SentinelsAssumption DEF AfterFailedWrite, TornLine, TypeOK
    <3>2. LinesOf(file', j) = LinesOf(file, j)
      BY <3>1, WriteKeepsOthers
    <3>. QED
      BY <3>2 DEF LinesOf
  <2>. QED
    BY <1>1, <2>1, <2>2
<1>7. Restart => UNCHANGED Write!vars
  BY <1>2 DEF Restart
<1>8. Tick => UNCHANGED Write!vars
  BY <1>2 DEF Tick
<1>9. UNCHANGED vars => UNCHANGED Write!vars
  BY <1>2 DEF vars
<1>. QED
  BY <1>3, <1>4, <1>5, <1>6, <1>7, <1>8, <1>9

\* execute() implements OnceOnlyWrite for callers with keys of their own: a
\* key is claimed in the file before the one attempt, and settled for good
\* with a result that is true of ESPN.
THEOREM WriteIsOnceOnly ==
  ASSUME ExclusiveKeys
  PROVE  Spec => WriteSpec
<1>1. ASSUME Init
      PROVE  Write!Init
  <2>1. /\ \A k \in Keys : answers[k] = {} /\ attempts[k] = 0
        /\ file = <<>>
    BY <1>1 DEF Init
  <2>2. \A k \in Keys : LinesOf(file, k) = {}
    <3>1. 1 .. Len(file) = {}
      BY <2>1
    <3>. QED
      BY <3>1 DEF LinesOf
  <2>3. [k \in Keys |-> StatusOf(k)] = [k \in Keys |-> "free"]
    BY <2>1, <2>2 DEF StatusOf
  <2>. QED
    BY <1>1, <2>3 DEF Init, Write!Init
<1>2. TypeOK /\ AnswerInv /\ [Next]_vars => [Write!Next]_(Write!vars)
  BY StepRefines, OtherActionsRefine DEF Next
<1>. QED
  BY <1>1, <1>2, AnswerInvariant, TypeCorrect, PTL DEF Spec, WriteSpec, Write!Spec
=============================================================================
