----------------------- MODULE SupervisedServiceProofs -----------------------
(***************************************************************************)
(* For any updates, bounds and failures: the loop of the service loses no  *)
(* command, handles none again whose completion is on disk, repeats        *)
(* nothing without a cause and keeps what it announced.                    *)
(***************************************************************************)
EXTENDS SupervisedService, TLAPS

\* Positions in which the update at the head of the batch has been handled and
\* is not yet counted as done.
UnderWay(l) ==
  \/ l.pc \in {"savePause", "reply", "advance"}
  \/ /\ l.pc \in {"cycle", "alert", "recover", "saveCycle", "decide", "saveFingerprint"}
     /\ l.origin = "command"

\* Where the batch, the offsets and the updates of Telegram stand to each other.
Placed(l, offset) ==
  /\ l.now <= clock /\ l.last <= sent
  /\ UnderWay(l) => l.head <= l.last /\ offset <= l.head
  /\ l.pc = "update" => l.head <= sent + 1 /\ offset <= l.head

InStep ==
  /\ clock <= MaxTime
  /\ durable.offset <= mem.offset /\ mem.offset <= sent + 1
  /\ Placed(loop, mem.offset)

LEMMA DivMonotone ==
  ASSUME NEW D \in Nat \ {0}, NEW a \in Nat, NEW b \in Nat, a <= b
  PROVE  a \div D \in Nat /\ a \div D <= b \div D
OBVIOUS

LEMMA FingerprintType ==
  ASSUME loop \in Loop
  PROVE  Fingerprint \in Nat \X (Nat \cup {Never})
BY DEF Loop, Fingerprint

LEMMA DayType ==
  ASSUME loop \in Loop, clock \in Nat, InStep
  PROVE  Day \in Days
<1>1. /\ loop.now \in Nat /\ loop.now <= MaxTime
      /\ MaxTime \in Nat /\ DayLength \in Nat \ {0}
  BY ServiceAssumption DEF Loop, InStep, Placed
<1>2. Day \in Nat /\ Day <= MaxTime \div DayLength /\ MaxTime \div DayLength \in Nat
  BY <1>1, DivMonotone DEF Day
<1> QED BY <1>2 DEF Days

\* What a save leaves: the new state in memory, the old or the new one on disk.
LEMMA SaveLeaves ==
  ASSUME NEW state \in State, NEW next \in Loop, NEW failed \in Loop, TypeOK,
         Save(state, next, failed)
  PROVE  /\ mem' = state /\ mem' \in State
         /\ durable' \in {durable, state} /\ durable' \in State
         /\ loop' \in {next, failed} /\ loop' \in Loop
         /\ unsaved' \in BOOLEAN /\ faults' \in Nat /\ faults <= faults'
         /\ unsaved \/ (unsaved' \/ durable' = state)
<1>1. CASE durable' = state /\ loop' = next /\ UNCHANGED <<unsaved, faults>>
  BY <1>1 DEF Save, TypeOK
<1>2. CASE durable' \in {durable, state} /\ loop' = failed /\ SaveFails
  <2>1. faults' \in Nat /\ faults <= faults' /\ unsaved' = TRUE
    BY <1>2 DEF SaveFails, Fails, TypeOK
  <2>2. durable' \in State
    BY <1>2 DEF TypeOK
  <2> QED BY <1>2, <2>1, <2>2 DEF Save
<1> QED BY <1>1, <1>2 DEF Save

LEMMA TypesInit == Init => TypeOK /\ InStep
<1> SUFFICES ASSUME Init PROVE TypeOK /\ InStep
  OBVIOUS
<1>1. 0 \in Days /\ 1 \in 1 .. MaxLeague
  <2>1. 0 \div DayLength \in Nat /\ 0 \div DayLength <= MaxTime \div DayLength
    BY ServiceAssumption, DivMonotone
  <2> QED BY <2>1, ServiceAssumption DEF Days
<1>2. FreshState \in State /\ IdleLoop \in Loop
  BY ServiceAssumption DEF FreshState, State, IdleLoop, Loop, Labels, NoFingerprint, Never
<1>3. TypeOK
  <2>1. /\ 0 \in 0 .. Updates /\ 1 \in 1 .. 0 + 1 /\ 0 \in Nat
        /\ Updates \in Nat /\ MaxLeague \in Nat
    BY ServiceAssumption
  <2> QED BY <1>1, <1>2, <2>1 DEF Init, TypeOK
<1>4. InStep
  BY ServiceAssumption DEF Init, InStep, Placed, UnderWay, FreshState, IdleLoop
<1> QED BY <1>3, <1>4

LEMMA GotoType ==
  ASSUME loop \in Loop, NEW label \in Labels
  PROVE  /\ Goto(label) \in Loop /\ Goto(label).pc = label
         /\ Goto(label).head = loop.head /\ Goto(label).last = loop.last
         /\ Goto(label).origin = loop.origin /\ Goto(label).now = loop.now
BY DEF Goto, Loop

LEMMA IdleLoopType ==
  /\ IdleLoop \in Loop /\ IdleLoop.pc = "idle" /\ IdleLoop.origin = "schedule"
  /\ IdleLoop.head = 1 /\ IdleLoop.last = 0 /\ IdleLoop.now = 0
BY ServiceAssumption DEF IdleLoop, Loop, Labels

\* Positions that follow one another within the handling of an update.
SameBatch(next) ==
  /\ next \in Loop
  /\ next.head = loop.head /\ next.last = loop.last
  /\ next.origin = loop.origin /\ next.now = loop.now

LEMMA AfterCycleType ==
  ASSUME loop \in Loop
  PROVE  \/ AfterCycle = IdleLoop
         \/ SameBatch(AfterCycle) /\ AfterCycle.pc = "digest"
         \/ SameBatch(AfterCycle) /\ AfterCycle.pc = "savePause" /\ loop.origin = "command"
<1>1. "savePause" \in Labels /\ "digest" \in Labels
  BY DEF Labels
<1> QED BY <1>1, GotoType DEF AfterCycle, SameBatch

-----------------------------------------------------------------------------
(* Types and positions *)

ServiceTypes == TypeOK /\ InStep

LEMMA GetUpdatesTypes == ServiceTypes /\ GetUpdates => ServiceTypes'
<1> SUFFICES ASSUME ServiceTypes, GetUpdates PROVE ServiceTypes'
  OBVIOUS
<1>1. /\ First \in 1 .. sent + 1 /\ First \in 1 .. Updates + 1
      /\ mem.offset <= First /\ confirmed <= First
  <2>1. /\ sent \in Nat /\ sent <= Updates /\ Updates \in Nat
        /\ confirmed \in Nat /\ 1 <= confirmed /\ confirmed <= sent + 1
    BY ServiceAssumption DEF ServiceTypes, TypeOK
  <2>2. mem.offset \in Nat /\ 1 <= mem.offset /\ mem.offset <= sent + 1
    BY <2>1 DEF ServiceTypes, TypeOK, InStep, State
  <2> QED BY <2>1, <2>2 DEF First
<1>2. CASE loop' = [IdleLoop EXCEPT !.pc = "update", !.head = First, !.last = sent]
           /\ confirmed' = First /\ UNCHANGED faults
  <2>1. /\ loop' \in Loop /\ loop'.pc = "update" /\ loop'.head = First /\ loop'.last = sent
        /\ loop'.now = 0
    BY <1>1, <1>2, IdleLoopType DEF Loop, Labels, ServiceTypes, TypeOK
  <2>2. TypeOK'
    BY <1>1, <1>2, <2>1 DEF GetUpdates, ServiceTypes, TypeOK, seenVars
  <2>3. InStep'
    BY <1>1, <2>1 DEF GetUpdates, ServiceTypes, TypeOK, InStep, Placed, UnderWay
  <2> QED BY <2>2, <2>3 DEF ServiceTypes
<1>3. CASE Fails("get") /\ loop' = Goto("failure") /\ UNCHANGED confirmed
  <2>1. loop' \in Loop /\ loop'.pc = "failure" /\ loop'.last = loop.last /\ loop'.now = loop.now
    BY <1>3, GotoType DEF Labels, ServiceTypes, TypeOK
  <2>2. faults' \in Nat
    BY <1>3 DEF Fails, ServiceTypes, TypeOK
  <2>3. TypeOK'
    BY <1>3, <2>1, <2>2 DEF GetUpdates, ServiceTypes, TypeOK, seenVars
  <2>4. InStep'
    BY <1>3, <2>1 DEF GetUpdates, ServiceTypes, TypeOK, InStep, Placed, UnderWay
  <2> QED BY <2>3, <2>4 DEF ServiceTypes
<1> QED BY <1>2, <1>3 DEF GetUpdates

LEMMA HandleTypes == ServiceTypes /\ Handle => ServiceTypes'
<1> SUFFICES ASSUME ServiceTypes, Handle PROVE ServiceTypes'
  OBVIOUS
<1>1. /\ loop' \in Loop /\ loop'.last = loop.last /\ loop'.now = loop.now
      /\ loop'.head = loop.head /\ loop'.pc # "update"
  <2>1. loop \in Loop
    BY DEF ServiceTypes, TypeOK
  <2>2. /\ {"advance", "cycle", "savePause"} \subseteq Labels
        /\ loop' \in {Goto("advance"), [Goto("cycle") EXCEPT !.origin = "command"],
                      Goto("savePause")}
    BY DEF Labels, Handle
  <2>3. CASE loop' = [Goto("cycle") EXCEPT !.origin = "command"]
    BY <2>1, <2>3 DEF Loop, Goto, Labels
  <2> QED BY <2>1, <2>2, <2>3, GotoType
<1>2. handled' \in [1 .. Updates -> Nat]
  <2>1. handled \in [1 .. Updates -> Nat]
    BY DEF ServiceTypes, TypeOK
  <2>2. \/ handled' = handled
        \/ handled' = [handled EXCEPT ![loop.head] = handled[loop.head] + 1]
        \/ handled' = [handled EXCEPT ![loop.head] = handled[loop.head]]
    BY DEF Handle
  <2> QED BY <2>1, <2>2
<1>3. paused' \in BOOLEAN /\ promised' \in {"none", "paused", "active"}
  BY DEF Handle, ServiceTypes, TypeOK
<1>4. TypeOK'
  BY <1>1, <1>2, <1>3 DEF Handle, ServiceTypes, TypeOK, worldVars
<1>5. InStep'
  BY <1>1 DEF Handle, ServiceTypes, InStep, Placed, UnderWay, worldVars
<1> QED BY <1>4, <1>5 DEF ServiceTypes

\* A save within the batch: the offset on disk follows the one in memory.
LEMMA SaveTypes ==
  ASSUME ServiceTypes, NEW state \in State, NEW next \in Loop, NEW failed \in Loop,
         Save(state, next, failed), UNCHANGED <<up, paused, unhealthy, worldVars, stops>>,
         state.offset \in mem.offset .. sent + 1,
         Placed(next, state.offset), Placed(failed, state.offset)
  PROVE  ServiceTypes'
<1>1. /\ mem' = state /\ mem' \in State
      /\ durable' \in {durable, state} /\ durable' \in State
      /\ loop' \in {next, failed} /\ loop' \in Loop
      /\ unsaved' \in BOOLEAN /\ faults' \in Nat
  BY SaveLeaves DEF ServiceTypes
<1>2. TypeOK'
  BY <1>1 DEF Save, ServiceTypes, TypeOK, worldVars
<1>3. durable'.offset <= mem'.offset
  <2>1. durable.offset <= state.offset /\ state.offset <= state.offset
    BY DEF ServiceTypes, TypeOK, InStep, State
  <2> QED BY <1>1, <2>1
<1>4. InStep'
  BY <1>1, <1>3 DEF ServiceTypes, InStep, Placed, UnderWay, worldVars
<1> QED BY <1>2, <1>4 DEF ServiceTypes

LEMMA SameBatchPlaced ==
  ASSUME ServiceTypes, NEW l, SameBatch(l), l.pc # "update", UnderWay(l) => UnderWay(loop)
  PROVE  l \in Loop /\ Placed(l, mem.offset)
BY DEF ServiceTypes, InStep, Placed, SameBatch

LEMMA IdlePlaced ==
  ASSUME ServiceTypes
  PROVE  IdleLoop \in Loop /\ Placed(IdleLoop, mem.offset)
BY IdleLoopType DEF ServiceTypes, TypeOK, InStep, Placed, UnderWay

LEMMA FailurePlaced ==
  ASSUME ServiceTypes, NEW label \in {"failure", "saveFailure", "digest", "saveDigest"}
  PROVE  Goto(label) \in Loop /\ Placed(Goto(label), mem.offset)
<1>1. label \in Labels
  BY DEF Labels
<1> QED BY <1>1, GotoType, SameBatchPlaced DEF ServiceTypes, TypeOK, SameBatch, UnderWay

LEMMA ReplyPlaced ==
  ASSUME ServiceTypes, UnderWay(loop),
         NEW label \in {"savePause", "reply", "advance", "saveCycle", "decide",
                       "saveFingerprint", "alert", "recover"}
  PROVE  Goto(label) \in Loop /\ Placed(Goto(label), mem.offset)
<1>1. label \in Labels
  BY DEF Labels
<1> QED BY <1>1, GotoType, SameBatchPlaced DEF ServiceTypes, TypeOK, SameBatch

\* The positions of a cycle are those of its origin.
LEMMA CyclePlaced ==
  ASSUME ServiceTypes,
         loop.pc \in {"cycle", "alert", "recover", "saveCycle", "decide", "saveFingerprint"},
         NEW label \in {"alert", "recover", "saveCycle", "decide", "saveFingerprint"}
  PROVE  Goto(label) \in Loop /\ Placed(Goto(label), mem.offset)
<1>1. label \in Labels
  BY DEF Labels
<1> QED BY <1>1, GotoType, SameBatchPlaced DEF ServiceTypes, TypeOK, SameBatch, UnderWay

LEMMA AfterCyclePlaced ==
  ASSUME ServiceTypes,
         loop.pc \in {"cycle", "alert", "recover", "saveCycle", "decide", "saveFingerprint"}
  PROVE  AfterCycle \in Loop /\ Placed(AfterCycle, mem.offset)
BY AfterCycleType, SameBatchPlaced, IdlePlaced DEF ServiceTypes, TypeOK, UnderWay

LEMMA OffsetStays ==
  ASSUME ServiceTypes
  PROVE  mem \in State /\ mem.offset \in mem.offset .. sent + 1 /\ paused \in BOOLEAN
BY DEF ServiceTypes, TypeOK, State, InStep

LEMMA SavePauseTypes == ServiceTypes /\ SavePause => ServiceTypes'
<1> SUFFICES ASSUME ServiceTypes, SavePause PROVE ServiceTypes'
  OBVIOUS
<1>1. UnderWay(loop)
  BY DEF SavePause, UnderWay
<1>2. /\ Goto("reply") \in Loop /\ Placed(Goto("reply"), mem.offset)
      /\ Goto("failure") \in Loop /\ Placed(Goto("failure"), mem.offset)
  BY <1>1, ReplyPlaced, FailurePlaced
<1>3. CASE loop' = Goto("reply") /\ UNCHANGED <<mem, durable, seenVars, faults>>
  <2>1. TypeOK'
    BY <1>2, <1>3 DEF SavePause, ServiceTypes, TypeOK, seenVars, worldVars
  <2>2. InStep'
    BY <1>2, <1>3 DEF SavePause, ServiceTypes, InStep, Placed, worldVars
  <2> QED BY <2>1, <2>2 DEF ServiceTypes
<1>4. CASE Save([mem EXCEPT !.paused = paused], Goto("reply"), Goto("failure"))
  <2> DEFINE state == [mem EXCEPT !.paused = paused]
  <2>1. state \in State /\ state.offset = mem.offset
    BY OffsetStays DEF State
  <2> HIDE DEF state
  <2> QED BY <1>2, <1>4, <2>1, OffsetStays, SaveTypes DEF SavePause, state
<1> QED BY <1>3, <1>4 DEF SavePause

LEMMA AdvanceTypes == ServiceTypes /\ Advance => ServiceTypes'
<1> SUFFICES ASSUME ServiceTypes, Advance PROVE ServiceTypes'
  OBVIOUS
<1>1. /\ loop \in Loop /\ loop.head \in 1 .. Updates + 1 /\ loop.last \in 0 .. Updates
      /\ loop.head <= loop.last /\ mem.offset <= loop.head /\ loop.last <= sent
      /\ sent \in Nat /\ Updates \in Nat
      /\ mem \in State /\ mem.offset \in Nat /\ loop.now <= clock
  <2>1. Updates \in Nat
    BY ServiceAssumption
  <2>2. loop \in Loop /\ mem \in State /\ sent \in 0 .. Updates
    BY DEF ServiceTypes, TypeOK
  <2>3. loop.head \in 1 .. Updates + 1 /\ loop.last \in 0 .. Updates /\ mem.offset \in Nat
    BY <2>2 DEF Loop, State
  <2>4. loop.head <= loop.last /\ mem.offset <= loop.head /\ loop.last <= sent
        /\ loop.now <= clock
    BY DEF Advance, ServiceTypes, InStep, Placed, UnderWay
  <2> QED BY <2>1, <2>2, <2>3, <2>4
<1>2. loop.head + 1 \in 1 .. Updates + 1 /\ loop.head + 1 \in mem.offset .. sent + 1
  BY <1>1
<1>3. Completed \in State /\ Completed.offset = loop.head + 1
  BY <1>1, <1>2 DEF Completed, State
<1>4. /\ NextUpdate \in Loop /\ NextUpdate.pc = "update" /\ NextUpdate.head = loop.head + 1
      /\ NextUpdate.last = loop.last /\ NextUpdate.now = loop.now
  BY <1>1, <1>2 DEF NextUpdate, Goto, Loop, Labels
<1>5. Placed(NextUpdate, Completed.offset)
  BY <1>1, <1>2, <1>3, <1>4 DEF Placed, UnderWay
<1>6. Goto("failure") \in Loop /\ Placed(Goto("failure"), Completed.offset)
  BY <1>1, GotoType DEF Placed, UnderWay, Labels
<1> QED BY <1>2, <1>3, <1>4, <1>5, <1>6, SaveTypes DEF Advance

LEMMA SaveCycleTypes == ServiceTypes /\ SaveCycle => ServiceTypes'
<1> SUFFICES ASSUME ServiceTypes, SaveCycle PROVE ServiceTypes'
  OBVIOUS
<1> DEFINE next == IF loop.read = 0 THEN AfterCycle ELSE Goto("decide")
<1>1. /\ next \in Loop /\ Placed(next, mem.offset)
      /\ Goto("failure") \in Loop /\ Placed(Goto("failure"), mem.offset)
  BY AfterCyclePlaced, CyclePlaced, FailurePlaced DEF SaveCycle
<1>2. mem \in State /\ mem.offset \in mem.offset .. sent + 1
  BY OffsetStays
<1>3. Save(mem, next, Goto("failure"))
  BY DEF SaveCycle
<1> HIDE DEF next
<1> QED BY <1>1, <1>2, <1>3, SaveTypes DEF SaveCycle

LEMMA SaveFingerprintTypes == ServiceTypes /\ SaveFingerprint => ServiceTypes'
<1> SUFFICES ASSUME ServiceTypes, SaveFingerprint PROVE ServiceTypes'
  OBVIOUS
<1> DEFINE state == [mem EXCEPT !.fingerprint = Fingerprint]
<1>1. /\ AfterCycle \in Loop /\ Placed(AfterCycle, mem.offset)
      /\ Goto("failure") \in Loop /\ Placed(Goto("failure"), mem.offset)
  BY AfterCyclePlaced, FailurePlaced DEF SaveFingerprint
<1>2. state \in State /\ state.offset = mem.offset
  BY OffsetStays, FingerprintType DEF ServiceTypes, TypeOK, State
<1> HIDE DEF state
<1> QED BY <1>1, <1>2, OffsetStays, SaveTypes DEF SaveFingerprint, state

LEMMA SaveDigestTypes == ServiceTypes /\ SaveDigest => ServiceTypes'
<1> SUFFICES ASSUME ServiceTypes, SaveDigest PROVE ServiceTypes'
  OBVIOUS
<1> DEFINE state == [mem EXCEPT !.digest = Day]
<1>1. /\ IdleLoop \in Loop /\ Placed(IdleLoop, mem.offset)
      /\ Goto("failure") \in Loop /\ Placed(Goto("failure"), mem.offset)
  BY IdlePlaced, FailurePlaced
<1>2. Day \in Days
  BY DayType DEF ServiceTypes, TypeOK
<1>3. state \in State /\ state.offset = mem.offset
  BY <1>2, OffsetStays DEF State
<1> HIDE DEF state
<1> QED BY <1>1, <1>3, OffsetStays, SaveTypes DEF SaveDigest, state

\* The steps between two saves leave both offsets alone.
LEMMA PlaceTypes ==
  ASSUME ServiceTypes, UNCHANGED <<durable, worldVars>>,
         mem'.offset = mem.offset, Placed(loop', mem.offset)
  PROVE  InStep'
BY DEF ServiceTypes, InStep, Placed, worldVars

LEMMA DeliverLeaves ==
  ASSUME NEW delivered, NEW silent, NEW next, NEW failed, faults \in Nat,
         Deliver(delivered, silent, next, failed)
  PROVE  loop' \in {next, failed} /\ faults' \in Nat /\ (delivered \/ silent)
BY DEF Deliver, Fails

LEMMA ReplyTypes == ServiceTypes /\ Reply => ServiceTypes'
<1> SUFFICES ASSUME ServiceTypes, Reply PROVE ServiceTypes'
  OBVIOUS
<1>1. /\ Goto("advance") \in Loop /\ Placed(Goto("advance"), mem.offset)
      /\ Goto("failure") \in Loop /\ Placed(Goto("failure"), mem.offset)
  BY ReplyPlaced, FailurePlaced DEF Reply, UnderWay
<1>2. /\ loop' \in {Goto("advance"), Goto("failure")} /\ faults' \in Nat
      /\ promised' \in {"none", "paused", "active"}
  <2>1. Announced \in {"none", "paused", "active"} /\ faults \in Nat
        /\ promised \in {"none", "paused", "active"}
    BY DEF Announced, ServiceTypes, TypeOK
  <2>2. CASE loop' \in {Goto("advance"), Goto("failure")} /\ UNCHANGED <<promised, faults>>
    BY <2>1, <2>2
  <2>3. CASE Deliver(promised' = Announced, UNCHANGED promised, Goto("advance"), Goto("failure"))
    BY <2>1, <2>3, DeliverLeaves
  <2> QED BY <2>2, <2>3 DEF Reply
<1>3. TypeOK'
  BY <1>1, <1>2 DEF Reply, ServiceTypes, TypeOK, worldVars
<1>4. InStep'
  BY <1>1, <1>2, PlaceTypes DEF Reply
<1> QED BY <1>3, <1>4 DEF ServiceTypes

LEMMA CheckMonitorTypes == ServiceTypes /\ CheckMonitor => ServiceTypes'
<1> SUFFICES ASSUME ServiceTypes, CheckMonitor PROVE ServiceTypes'
  OBVIOUS
<1> DEFINE next == [IdleLoop EXCEPT !.pc = "cycle", !.now = clock]
<1>1. clock \in Nat /\ sent \in Nat
  BY DEF ServiceTypes, TypeOK
<1>2. next \in Loop /\ Placed(next, mem.offset)
  <2>1. next \in Loop /\ next.pc = "cycle" /\ next.now = clock
    BY <1>1, IdleLoopType DEF Loop, Labels
  <2>2. next.origin = "schedule" /\ next.last = 0
    BY IdleLoopType DEF Loop
  <2> QED BY <1>1, <2>1, <2>2 DEF Placed, UnderWay
<1>3. loop' \in {next, IdleLoop}
  BY DEF CheckMonitor
<1>4. loop' \in Loop /\ Placed(loop', mem.offset)
  BY <1>2, <1>3, IdlePlaced
<1>5. TypeOK'
  BY <1>4 DEF CheckMonitor, ServiceTypes, TypeOK, worldVars, seenVars
<1> QED BY <1>4, <1>5, PlaceTypes DEF CheckMonitor, ServiceTypes

LEMMA PollEspnTypes == ServiceTypes /\ PollEspn => ServiceTypes'
<1> SUFFICES ASSUME ServiceTypes, PollEspn PROVE ServiceTypes'
  OBVIOUS
<1>1. /\ loop \in Loop /\ mem \in State /\ clock \in Nat /\ league \in Nat
      /\ faults \in Nat
  BY ServiceAssumption DEF ServiceTypes, TypeOK
<1>2. ASSUME NEW label \in {"recover", "saveCycle", "alert"}, NEW read \in Nat
      PROVE  LET next == [loop EXCEPT !.pc = label, !.readAt = clock, !.read = read] IN
             next \in Loop /\ Placed(next, mem.offset)
  <2> DEFINE next == [loop EXCEPT !.pc = label, !.readAt = clock, !.read = read]
  <2>1. label \in Labels
    BY DEF Labels
  <2>2. /\ SameBatch(next) /\ next.pc = label
    BY <1>1, <2>1 DEF Loop, SameBatch
  <2>3. UnderWay(next) => UnderWay(loop)
    BY <2>2 DEF SameBatch, UnderWay, PollEspn
  <2> QED BY <2>2, <2>3, SameBatchPlaced
<1>3. [mem EXCEPT !.monitor = clock] \in State
      /\ [mem EXCEPT !.monitor = clock].offset = mem.offset
  BY <1>1 DEF State
<1>4. Goto("failure") \in Loop /\ Placed(Goto("failure"), mem.offset)
  BY FailurePlaced
<1>5. /\ loop' \in Loop /\ Placed(loop', mem.offset)
      /\ mem' \in State /\ mem'.offset = mem.offset
      /\ unhealthy' \in BOOLEAN /\ faults' \in Nat
  <2>1. CASE /\ mem' = [mem EXCEPT !.monitor = clock]
             /\ \E label \in {"recover", "saveCycle", "alert"}, read \in Nat :
                  loop' = [loop EXCEPT !.pc = label, !.readAt = clock, !.read = read]
             /\ unhealthy' \in BOOLEAN /\ faults' \in {faults, faults + 1}
    <3>1. PICK label \in {"recover", "saveCycle", "alert"}, read \in Nat :
            loop' = [loop EXCEPT !.pc = label, !.readAt = clock, !.read = read]
      BY <2>1
    <3>2. loop' \in Loop /\ Placed(loop', mem.offset)
      BY <1>2, <3>1
    <3> QED BY <1>1, <1>3, <2>1, <3>2
  <2>2. CASE loop' = Goto("failure") /\ UNCHANGED <<mem, unhealthy>> /\ faults' = faults + 1
    BY <1>1, <1>4, <2>2 DEF ServiceTypes, TypeOK
  <2> QED BY <1>1, <2>1, <2>2 DEF PollEspn, Fails
<1>6. TypeOK'
  BY <1>5 DEF PollEspn, ServiceTypes, TypeOK, worldVars, seenVars
<1> QED BY <1>5, <1>6, PlaceTypes DEF PollEspn, ServiceTypes

LEMMA AlertTypes ==
  ASSUME ServiceTypes, NEW next \in Loop, Placed(next, mem.offset), Alert(next)
  PROVE  ServiceTypes'
<1>1. loop' = next /\ faults' \in Nat /\ alerts' \in Nat
  <2>1. faults \in Nat /\ alerts \in Nat
    BY DEF ServiceTypes, TypeOK
  <2>2. Deliver(alerts' = alerts + 1, UNCHANGED alerts, next, next)
    BY DEF Alert
  <2>3. loop' \in {next, next} /\ faults' \in Nat /\ (alerts' = alerts + 1 \/ UNCHANGED alerts)
    BY <2>1, <2>2, DeliverLeaves
  <2> QED BY <2>1, <2>3
<1>2. mem' \in State /\ mem'.offset = mem.offset
  BY OffsetStays DEF Alert, State
<1>3. TypeOK'
  BY <1>1, <1>2 DEF Alert, ServiceTypes, TypeOK, worldVars
<1> QED BY <1>1, <1>2, <1>3, PlaceTypes DEF Alert, ServiceTypes

LEMMA RecoverTypes == ServiceTypes /\ Recover => ServiceTypes'
<1> SUFFICES ASSUME ServiceTypes, Recover PROVE ServiceTypes'
  OBVIOUS
<1>1. loop' \in Loop /\ Placed(loop', mem.offset)
  BY CyclePlaced DEF Recover
<1>2. mem' \in State /\ mem'.offset = mem.offset
  BY OffsetStays DEF Recover, State
<1>3. TypeOK'
  BY <1>1, <1>2 DEF Recover, ServiceTypes, TypeOK, worldVars
<1> QED BY <1>1, <1>2, <1>3, PlaceTypes DEF Recover, ServiceTypes

LEMMA DecideTypes == ServiceTypes /\ Decide => ServiceTypes'
<1> SUFFICES ASSUME ServiceTypes, Decide PROVE ServiceTypes'
  OBVIOUS
<1>1. /\ AfterCycle \in Loop /\ Placed(AfterCycle, mem.offset)
      /\ Goto("saveFingerprint") \in Loop /\ Placed(Goto("saveFingerprint"), mem.offset)
      /\ Goto("failure") \in Loop /\ Placed(Goto("failure"), mem.offset)
  BY AfterCyclePlaced, CyclePlaced, FailurePlaced DEF Decide
<1>2. /\ loop' \in {AfterCycle, Goto("saveFingerprint"), Goto("failure")}
      /\ faults' \in {faults, faults + 1}
      /\ decided' \in {decided, [decided EXCEPT ![loop.read] = @ + 1]}
  BY DEF Decide, Fails
<1>3. faults' \in Nat /\ decided' \in [1 .. MaxLeague -> Nat]
  BY <1>2 DEF ServiceTypes, TypeOK
<1>4. loop' \in Loop /\ Placed(loop', mem.offset)
  BY <1>1, <1>2
<1>5. TypeOK'
  BY <1>3, <1>4 DEF Decide, ServiceTypes, TypeOK, worldVars
<1> QED BY <1>4, <1>5, PlaceTypes DEF Decide, ServiceTypes

LEMMA SendDigestTypes == ServiceTypes /\ SendDigest => ServiceTypes'
<1> SUFFICES ASSUME ServiceTypes, SendDigest PROVE ServiceTypes'
  OBVIOUS
<1>1. /\ IdleLoop \in Loop /\ Placed(IdleLoop, mem.offset)
      /\ Goto("saveDigest") \in Loop /\ Placed(Goto("saveDigest"), mem.offset)
      /\ Goto("failure") \in Loop /\ Placed(Goto("failure"), mem.offset)
  BY IdlePlaced, FailurePlaced
<1>2. /\ loop' \in {IdleLoop, Goto("saveDigest"), Goto("failure")}
      /\ faults' \in {faults, faults + 1}
      /\ digests' \in {digests, [digests EXCEPT ![Day] = @ + 1]}
  BY DEF SendDigest, Deliver, Fails
<1>3. faults' \in Nat /\ digests' \in [Days -> Nat]
  BY <1>2 DEF ServiceTypes, TypeOK
<1>4. loop' \in Loop /\ Placed(loop', mem.offset)
  BY <1>1, <1>2
<1>5. TypeOK'
  BY <1>3, <1>4 DEF SendDigest, ServiceTypes, TypeOK, worldVars
<1> QED BY <1>4, <1>5, PlaceTypes DEF SendDigest, ServiceTypes

LEMMA FailureTypes == ServiceTypes /\ Failure => ServiceTypes'
<1> SUFFICES ASSUME ServiceTypes, Failure PROVE ServiceTypes'
  OBVIOUS
<1>1. CASE loop' = IdleLoop
           /\ UNCHANGED <<up, mem, durable, paused, unhealthy, worldVars, seenVars,
                          faults, stops>>
  <2>1. TypeOK'
    BY <1>1, IdlePlaced DEF ServiceTypes, TypeOK, worldVars, seenVars
  <2> QED BY <1>1, <2>1, IdlePlaced, PlaceTypes DEF ServiceTypes
<1>2. CASE Alert(Goto("saveFailure"))
  BY <1>2, FailurePlaced, AlertTypes
<1> QED BY <1>1, <1>2 DEF Failure

\* The process ends or begins again: the loop starts over from one of the states.
LEMMA EndTypes ==
  ASSUME ServiceTypes, loop' = IdleLoop, UNCHANGED worldVars,
         \/ mem' = mem /\ durable' \in {durable, mem}
         \/ mem' = durable /\ durable' = durable
  PROVE  InStep' /\ loop' \in Loop /\ mem' \in State /\ durable' \in State
<1>1. mem.offset \in Nat /\ durable.offset \in Nat /\ sent \in Nat
  BY ServiceAssumption DEF ServiceTypes, TypeOK, State
<1>2. mem' \in State /\ durable' \in State
  BY DEF ServiceTypes, TypeOK
<1>3. durable'.offset <= mem'.offset /\ mem'.offset <= sent + 1
  BY <1>1 DEF ServiceTypes, InStep
<1> QED BY <1>2, <1>3, IdleLoopType
        DEF ServiceTypes, TypeOK, InStep, Placed, UnderWay, worldVars

LEMMA SaveFailureTypes == ServiceTypes /\ SaveFailure => ServiceTypes'
<1> SUFFICES ASSUME ServiceTypes, SaveFailure PROVE ServiceTypes'
  OBVIOUS
<1>1. mem' = mem /\ durable' \in {durable, mem} /\ loop' = IdleLoop
  BY DEF SaveFailure
<1>2. InStep' /\ loop' \in Loop /\ mem' \in State /\ durable' \in State
  BY <1>1, EndTypes DEF SaveFailure
<1>3. up' \in BOOLEAN /\ unsaved' \in BOOLEAN /\ faults' \in Nat /\ stops' \in Nat
  <2>1. /\ up' \in {up, FALSE} /\ unsaved' \in {unsaved, TRUE}
        /\ faults' \in {faults, faults + 1} /\ stops' \in {stops, stops + 1}
    BY DEF SaveFailure, SaveFails, Fails
  <2>2. up \in BOOLEAN /\ unsaved \in BOOLEAN /\ faults \in Nat /\ stops \in Nat
    BY DEF ServiceTypes, TypeOK
  <2>3. up' \in BOOLEAN /\ unsaved' \in BOOLEAN
    BY <2>1, <2>2, Zenon
  <2> QED BY <2>1, <2>2, <2>3
<1>4. TypeOK'
  BY <1>2, <1>3 DEF SaveFailure, ServiceTypes, TypeOK, worldVars
<1> QED BY <1>2, <1>4 DEF ServiceTypes

LEMMA StopTypes == ServiceTypes /\ Stop => ServiceTypes'
<1> SUFFICES ASSUME ServiceTypes, Stop PROVE ServiceTypes'
  OBVIOUS
<1>1. mem' = mem /\ durable' \in {durable, mem} /\ loop' = IdleLoop
  BY DEF Stop
<1>2. InStep' /\ loop' \in Loop /\ mem' \in State /\ durable' \in State
  BY <1>1, EndTypes DEF Stop
<1>3. up' \in BOOLEAN /\ unsaved' \in BOOLEAN /\ faults' \in Nat /\ stops' \in Nat
  <2>1. /\ up' \in {up, FALSE} /\ unsaved' \in {unsaved, TRUE}
        /\ faults' \in {faults, faults + 1} /\ stops' \in {stops, stops + 1}
    BY DEF Stop, SaveFails, Fails
  <2>2. up \in BOOLEAN /\ unsaved \in BOOLEAN /\ faults \in Nat /\ stops \in Nat
    BY DEF ServiceTypes, TypeOK
  <2>3. up' \in BOOLEAN /\ unsaved' \in BOOLEAN
    BY <2>1, <2>2, Zenon
  <2> QED BY <2>1, <2>2, <2>3
<1>4. TypeOK'
  BY <1>2, <1>3 DEF Stop, ServiceTypes, TypeOK, worldVars
<1> QED BY <1>2, <1>4 DEF ServiceTypes

\* A process that is down is nowhere in the loop.
AtRest == ~up => loop = IdleLoop

LEMMA RestartTypes == ServiceTypes /\ AtRest /\ Restart => ServiceTypes'
<1> SUFFICES ASSUME ServiceTypes, AtRest, Restart PROVE ServiceTypes'
  OBVIOUS
<1>1. mem' = durable /\ durable' = durable /\ loop' = IdleLoop
  BY DEF Restart, AtRest
<1>2. paused' \in BOOLEAN /\ mem' \in State
  BY DEF Restart, ServiceTypes, TypeOK, State
<1>3. TypeOK'
  BY <1>2 DEF Restart, ServiceTypes, TypeOK, worldVars, seenVars
<1>4. InStep'
  BY <1>1, EndTypes DEF Restart
<1> QED BY <1>3, <1>4 DEF ServiceTypes

LEMMA SendUpdateTypes == ServiceTypes /\ SendUpdate => ServiceTypes'
<1> SUFFICES ASSUME ServiceTypes, SendUpdate PROVE ServiceTypes'
  OBVIOUS
<1>1. /\ sent \in Nat /\ sent < Updates /\ sent' = sent + 1 /\ Updates \in Nat
      /\ confirmed \in 1 .. sent + 1 /\ mem.offset \in Nat
      /\ loop.last \in Nat /\ loop.head \in Nat
  <2>1. mem.offset \in Nat
    BY ServiceAssumption DEF ServiceTypes, TypeOK, State
  <2>2. loop.last \in Nat /\ loop.head \in Nat
    BY ServiceAssumption DEF ServiceTypes, TypeOK, Loop
  <2> QED BY <2>1, <2>2, ServiceAssumption DEF SendUpdate, ServiceTypes, TypeOK
<1>2. sent' \in 0 .. Updates /\ confirmed' \in 1 .. sent' + 1
  BY <1>1 DEF SendUpdate
<1>3. TypeOK'
  BY <1>2 DEF SendUpdate, ServiceTypes, TypeOK, seenVars
<1>4. InStep'
  BY <1>1 DEF SendUpdate, ServiceTypes, InStep, Placed, UnderWay
<1> QED BY <1>3, <1>4 DEF ServiceTypes

LEMMA TickTypes == ServiceTypes /\ Tick => ServiceTypes'
<1> SUFFICES ASSUME ServiceTypes, Tick PROVE ServiceTypes'
  OBVIOUS
<1>1. clock' \in Nat /\ clock' <= MaxTime /\ clock <= clock' /\ league' \in 1 .. MaxLeague
  BY ServiceAssumption DEF Tick, ServiceTypes, TypeOK
<1>2. loop.now <= clock'
  BY <1>1 DEF ServiceTypes, TypeOK, InStep, Placed, Loop
<1>3. TypeOK'
  BY <1>1 DEF Tick, ServiceTypes, TypeOK, seenVars
<1>4. InStep'
  BY <1>1, <1>2 DEF Tick, ServiceTypes, InStep, Placed, UnderWay
<1> QED BY <1>3, <1>4 DEF ServiceTypes

LEMMA NextTypes == ServiceTypes /\ AtRest /\ [Next]_vars => ServiceTypes' /\ AtRest'
<1> SUFFICES ASSUME ServiceTypes, AtRest, [Next]_vars PROVE ServiceTypes' /\ AtRest'
  OBVIOUS
<1>1. CASE Work
  <2>1. ServiceTypes'
    BY <1>1, GetUpdatesTypes, HandleTypes, SavePauseTypes, ReplyTypes, AdvanceTypes,
       CheckMonitorTypes, PollEspnTypes, RecoverTypes, SaveCycleTypes, DecideTypes,
       SaveFingerprintTypes, SendDigestTypes, SaveDigestTypes, FailureTypes, SaveFailureTypes,
       AlertTypes, CyclePlaced DEF Work, LostAccess
  <2>2. AtRest'
    BY <1>1 DEF Work, AtRest, GetUpdates, Handle, SavePause, Reply, Advance, CheckMonitor,
       PollEspn, LostAccess, Alert, Recover, SaveCycle, Decide, SaveFingerprint, SendDigest,
       SaveDigest, Failure, SaveFailure
  <2> QED BY <2>1, <2>2
<1>2. CASE Stop
  BY <1>2, StopTypes DEF Stop, AtRest
<1>3. CASE Restart
  BY <1>3, RestartTypes DEF Restart, AtRest
<1>4. CASE SendUpdate
  BY <1>4, SendUpdateTypes DEF SendUpdate, AtRest
<1>5. CASE Tick
  BY <1>5, TickTypes DEF Tick, AtRest
<1>6. CASE UNCHANGED vars
  BY <1>6 DEF vars, worldVars, seenVars, ServiceTypes, TypeOK, InStep, Placed, AtRest
<1> QED BY <1>1, <1>2, <1>3, <1>4, <1>5, <1>6 DEF Next

LEMMA ServiceInStep == Spec => [](ServiceTypes /\ AtRest)
<1>1. Init => ServiceTypes /\ AtRest
  BY TypesInit DEF ServiceTypes, AtRest, Init
<1> QED BY <1>1, NextTypes, PTL DEF Spec

\* Every variable of the service keeps its type, and the loop never gets ahead of
\* the updates there are (_poll_telegram).
THEOREM ServiceTypeCorrect == Spec => []TypeOK
<1>1. ServiceTypes => TypeOK BY DEF ServiceTypes
<1> QED BY <1>1, ServiceInStep, PTL

\* A command whose completion is on disk is never handled again (_poll_telegram),
\* whatever fails, ends or is repeated.
THEOREM NoReplay == Spec => CompletedNotReplayed
<1>1. ServiceTypes /\ [Next]_vars
      => [\A i \in 1 .. Updates : handled'[i] # handled[i] => i >= durable.offset]_vars
  <2> SUFFICES ASSUME ServiceTypes, [Next]_vars, NEW i \in 1 .. Updates,
                      handled'[i] # handled[i]
               PROVE  i >= durable.offset
    BY Zenon
  <2>1. Handle
    BY DEF Next, Work, GetUpdates, SavePause, Save, Reply, Advance, CheckMonitor,
       PollEspn, LostAccess, Alert, Recover, SaveCycle, Decide, SaveFingerprint, SendDigest,
       SaveDigest, Failure, SaveFailure, Stop, Restart, SendUpdate, Tick, vars, seenVars
  <2>2. i = loop.head
    BY <2>1 DEF Handle, ServiceTypes, TypeOK
  <2>3. durable.offset <= mem.offset /\ mem.offset <= loop.head
    BY <2>1 DEF Handle, ServiceTypes, InStep, Placed
  <2> QED BY <2>2, <2>3 DEF ServiceTypes, TypeOK, State
<1> QED BY <1>1, ServiceInStep, PTL DEF Spec, CompletedNotReplayed

-----------------------------------------------------------------------------
(* What a step may do to a batch *)

\* The process ends, with a stop counted.
Ends ==
  /\ ~up' /\ stops' = stops + 1 /\ faults' \in {faults, faults + 1}
  /\ mem' = mem /\ durable' \in {durable, mem} /\ loop' = IdleLoop
  /\ UNCHANGED <<handled, confirmed>>

\* The offsets and the update at the head stay: either the position does too, or
\* the handling of an update goes on, or it is given up for a failure.
GoesOn ==
  /\ UNCHANGED <<up, stops, handled, confirmed>>
  /\ faults' \in {faults, faults + 1}
  /\ mem'.offset = mem.offset /\ durable'.offset \in {durable.offset, mem.offset}
  /\ \/ loop' = loop
     \/ /\ loop'.pc # "update"
        /\ UnderWay(loop') => UnderWay(loop) /\ loop'.head = loop.head
        /\ UnderWay(loop) /\ ~UnderWay(loop') => faults' = faults + 1 \/ loop.head \in Refused

LEMMA SaveGoesOn ==
  ASSUME NEW state, NEW next, NEW failed, Save(state, next, failed),
         UNCHANGED <<up, paused, unhealthy, worldVars, stops>>, state.offset = mem.offset,
         next.pc # "update", UnderWay(next) => UnderWay(loop) /\ next.head = loop.head,
         UnderWay(loop) => UnderWay(next), failed = Goto("failure"), loop \in Loop
  PROVE  GoesOn
<1>1. failed.pc = "failure" /\ ~UnderWay(failed)
  BY GotoType DEF Labels, UnderWay
<1>2. CASE durable' = state /\ loop' = next /\ UNCHANGED <<unsaved, faults>>
  BY <1>2 DEF Save, GoesOn, worldVars
<1>3. CASE durable' \in {durable, state} /\ loop' = failed /\ SaveFails
  BY <1>1, <1>3 DEF Save, SaveFails, Fails, GoesOn, worldVars
<1> QED BY <1>2, <1>3 DEF Save

LEMMA AfterCycleGoesOn ==
  ASSUME loop \in Loop,
         loop.pc \in {"cycle", "alert", "recover", "saveCycle", "decide", "saveFingerprint"}
  PROVE  /\ AfterCycle.pc # "update"
         /\ UnderWay(AfterCycle) => UnderWay(loop) /\ AfterCycle.head = loop.head
         /\ UnderWay(loop) => UnderWay(AfterCycle)
<1>1. CASE loop.origin = "command"
  BY <1>1, GotoType DEF AfterCycle, UnderWay, Labels
<1>2. CASE loop.origin # "command"
  BY <1>2, GotoType, IdleLoopType DEF AfterCycle, UnderWay, Labels
<1> QED BY <1>1, <1>2

LEMMA BatchMoves ==
  ASSUME ServiceTypes, [Next]_vars, ~Handle, ~Advance, ~Restart,
         ~(GetUpdates /\ UNCHANGED faults)
  PROVE  Ends \/ GoesOn
<1>1. loop \in Loop /\ mem \in State
  BY DEF ServiceTypes, TypeOK
<1>2. CASE GetUpdates
  BY <1>1, <1>2, GotoType DEF GetUpdates, Fails, Labels, GoesOn, UnderWay, seenVars
<1>3. CASE SavePause
  <2>1. CASE loop' = Goto("reply") /\ UNCHANGED <<mem, durable, seenVars, faults>>
    BY <1>1, <1>3, <2>1, GotoType DEF SavePause, Labels, GoesOn, UnderWay, worldVars, seenVars
  <2>2. CASE Save([mem EXCEPT !.paused = paused], Goto("reply"), Goto("failure"))
    <3>1. [mem EXCEPT !.paused = paused].offset = mem.offset
      BY <1>1 DEF State
    <3>2. /\ Goto("reply").pc # "update" /\ Goto("reply").head = loop.head
          /\ UnderWay(loop) /\ UnderWay(Goto("reply"))
      BY <1>1, <1>3, GotoType DEF SavePause, Labels, UnderWay
    <3> QED BY <1>1, <1>3, <2>2, <3>1, <3>2, SaveGoesOn DEF SavePause
  <2> QED BY <1>3, <2>1, <2>2 DEF SavePause
<1>4. CASE Reply
  <2>1. /\ loop' = Goto("advance") /\ faults' = faults
        \/ /\ loop' = Goto("failure")
           /\ faults' = faults + 1 \/ (loop.head \in Refused /\ faults' = faults)
    BY <1>4 DEF Reply, Deliver, Fails
  <2> QED BY <1>1, <1>4, <2>1, GotoType DEF Reply, Labels, GoesOn, UnderWay, worldVars
<1>5. CASE CheckMonitor
  <2>1. loop'.pc # "update" /\ loop'.origin = "schedule" /\ ~UnderWay(loop') /\ ~UnderWay(loop)
    BY <1>5, IdleLoopType DEF CheckMonitor, UnderWay, Loop
  <2> QED BY <1>5, <2>1 DEF CheckMonitor, GoesOn, worldVars, seenVars
<1>6. CASE PollEspn
  <2>1. mem'.offset = mem.offset
    BY <1>1, <1>6 DEF PollEspn, State
  <2>2. /\ loop'.pc # "update" /\ loop'.head = loop.head
        /\ \/ loop'.pc \in {"recover", "saveCycle", "alert"} /\ loop'.origin = loop.origin
           \/ loop'.pc = "failure" /\ faults' = faults + 1
    <3>1. \/ \E label \in {"recover", "saveCycle", "alert"}, read \in {0, league} :
               loop' = [loop EXCEPT !.pc = label, !.readAt = clock, !.read = read]
          \/ loop' = Goto("failure") /\ faults' = faults + 1
      BY <1>6 DEF PollEspn, Fails
    <3>2. CASE loop' = Goto("failure") /\ faults' = faults + 1
      BY <1>1, <3>2, GotoType DEF Labels
    <3>3. ASSUME NEW label \in {"recover", "saveCycle", "alert"}, NEW read,
                 loop' = [loop EXCEPT !.pc = label, !.readAt = clock, !.read = read]
          PROVE  loop'.pc = label /\ loop'.head = loop.head /\ loop'.origin = loop.origin
      BY <1>1, <3>3 DEF Loop
    <3> QED BY <3>1, <3>2, <3>3
  <2>3. faults' \in {faults, faults + 1}
    BY <1>6 DEF PollEspn, Fails
  <2>4. /\ UnderWay(loop') => UnderWay(loop)
        /\ UnderWay(loop) /\ ~UnderWay(loop') => faults' = faults + 1
    BY <1>6, <2>2 DEF PollEspn, UnderWay
  <2> QED BY <1>6, <2>1, <2>2, <2>3, <2>4 DEF PollEspn, GoesOn, worldVars, seenVars
<1>7. ASSUME NEW label \in {"saveCycle", "saveFailure"}, Alert(Goto(label)),
             UnderWay(loop) <=> UnderWay(Goto(label))
      PROVE  GoesOn
  <2>1. /\ Goto(label).pc # "update" /\ Goto(label).head = loop.head
        /\ mem'.offset = mem.offset
    BY <1>1, <1>7, GotoType DEF Alert, Labels, State
  <2>2. loop' = Goto(label) /\ faults' \in {faults, faults + 1}
    BY <1>7 DEF Alert, Deliver, Fails
  <2> QED BY <1>7, <2>1, <2>2 DEF Alert, GoesOn, worldVars
<1>8. CASE LostAccess
  <2>1. UnderWay(loop) <=> UnderWay(Goto("saveCycle"))
    BY <1>1, <1>8, GotoType DEF LostAccess, Labels, UnderWay
  <2> QED BY <1>7, <1>8, <2>1 DEF LostAccess
<1>9. CASE Recover
  <2>1. /\ loop'.pc = "saveCycle" /\ loop'.head = loop.head
        /\ mem'.offset = mem.offset /\ (UnderWay(loop) <=> UnderWay(loop'))
    BY <1>1, <1>9, GotoType DEF Recover, Labels, State, UnderWay
  <2> QED BY <1>9, <2>1 DEF Recover, GoesOn, worldVars
<1>10. CASE SaveCycle
  <2> DEFINE next == IF loop.read = 0 THEN AfterCycle ELSE Goto("decide")
  <2>1. /\ next.pc # "update"
        /\ UnderWay(next) => UnderWay(loop) /\ next.head = loop.head
        /\ UnderWay(loop) => UnderWay(next)
    BY <1>1, <1>10, GotoType, AfterCycleGoesOn DEF SaveCycle, Labels, UnderWay
  <2>2. Save(mem, next, Goto("failure"))
    BY <1>10 DEF SaveCycle
  <2>3. UNCHANGED <<up, paused, unhealthy, worldVars, stops>>
    BY <1>10 DEF SaveCycle
  <2> HIDE DEF next
  <2> QED BY <1>1, <2>1, <2>2, <2>3, SaveGoesOn
<1>11. CASE Decide
  <2>1. /\ \/ loop' \in {AfterCycle, Goto("saveFingerprint")}
           \/ loop' = Goto("failure") /\ faults' = faults + 1
        /\ faults' \in {faults, faults + 1}
    <3>1. CASE Fingerprint = mem.fingerprint
      BY <1>11, <3>1, Zenon DEF Decide
    <3>2. CASE Fingerprint # mem.fingerprint
      BY <1>11, <3>2, Zenon DEF Decide, Fails
    <3> QED BY <3>1, <3>2
  <2>2. /\ loop'.pc # "update"
        /\ UnderWay(loop') => UnderWay(loop) /\ loop'.head = loop.head
        /\ UnderWay(loop) /\ ~UnderWay(loop') => faults' = faults + 1
    BY <1>1, <1>11, <2>1, GotoType, AfterCycleGoesOn DEF Decide, Labels, UnderWay
  <2>3. UNCHANGED <<up, stops, handled, confirmed, mem, durable>>
    BY <1>11 DEF Decide, worldVars
  <2> QED BY <2>1, <2>2, <2>3 DEF GoesOn
<1>12. CASE SaveFingerprint
  <2>1. [mem EXCEPT !.fingerprint = Fingerprint].offset = mem.offset
    BY <1>1 DEF State
  <2> QED BY <1>1, <1>12, <2>1, SaveGoesOn, AfterCycleGoesOn DEF SaveFingerprint
<1>13. CASE SendDigest
  <2>1. /\ loop' \in {IdleLoop, Goto("saveDigest"), Goto("failure")}
        /\ faults' \in {faults, faults + 1}
    BY <1>13 DEF SendDigest, Deliver, Fails
  <2>2. loop'.pc # "update" /\ ~UnderWay(loop') /\ ~UnderWay(loop)
    BY <1>1, <1>13, <2>1, GotoType, IdleLoopType DEF SendDigest, Labels, UnderWay
  <2> QED BY <1>13, <2>1, <2>2 DEF SendDigest, GoesOn, worldVars
<1>14. CASE SaveDigest
  <2>1. [mem EXCEPT !.digest = Day].offset = mem.offset
    BY <1>1 DEF State
  <2>2. IdleLoop.pc # "update" /\ ~UnderWay(IdleLoop) /\ ~UnderWay(loop)
    BY <1>14, IdleLoopType DEF SaveDigest, UnderWay
  <2> QED BY <1>1, <1>14, <2>1, <2>2, SaveGoesOn DEF SaveDigest
<1>15. CASE Failure
  <2>1. ~UnderWay(loop) /\ ~UnderWay(Goto("saveFailure")) /\ ~UnderWay(IdleLoop)
    BY <1>1, <1>15, GotoType, IdleLoopType DEF Failure, Labels, UnderWay
  <2>2. CASE Alert(Goto("saveFailure"))
    BY <1>7, <2>1, <2>2
  <2>3. CASE loop' = IdleLoop
             /\ UNCHANGED <<up, mem, durable, paused, unhealthy, worldVars, seenVars,
                            faults, stops>>
    BY <2>1, <2>3, IdleLoopType DEF GoesOn, worldVars, seenVars
  <2> QED BY <1>15, <2>2, <2>3 DEF Failure
<1>16. CASE SaveFailure
  <2>1. ~UnderWay(loop) /\ ~UnderWay(IdleLoop) /\ IdleLoop.pc # "update"
    BY <1>16, IdleLoopType DEF SaveFailure, UnderWay
  <2>2. CASE durable' = mem /\ UNCHANGED <<up, unsaved, faults, stops>>
    BY <1>16, <2>1, <2>2 DEF SaveFailure, GoesOn, worldVars
  <2>3. CASE /\ SaveFails /\ durable' \in {durable, mem}
             /\ up' = FALSE /\ stops' = stops + 1
    BY <1>16, <2>3 DEF SaveFailure, SaveFails, Fails, Ends, worldVars
  <2> QED BY <1>16, <2>2, <2>3 DEF SaveFailure
<1>17. CASE Stop
  BY <1>17 DEF Stop, SaveFails, Fails, Ends, worldVars
<1>18. CASE SendUpdate \/ Tick \/ UNCHANGED vars
  BY <1>18 DEF SendUpdate, Tick, vars, worldVars, seenVars, GoesOn
<1> QED BY <1>2, <1>3, <1>4, <1>5, <1>6, <1>8, <1>9, <1>10, <1>11, <1>12, <1>13, <1>14,
          <1>15, <1>16, <1>17, <1>18 DEF Next, Work

-----------------------------------------------------------------------------
(* No command is lost *)

\* The commands of the updates below n have taken effect.
Settled(n) ==
  \A i \in 1 .. Updates :
    CommandOf[i] \notin {"foreign", "noise"} /\ i < n => handled[i] > 0

NothingLost ==
  /\ Settled(confirmed) /\ Settled(mem.offset) /\ Settled(durable.offset)
  /\ loop.pc = "update" => Settled(loop.head)
  /\ UnderWay(loop) => Settled(loop.head + 1)

LEMMA NothingLostStep ==
  ServiceTypes /\ AtRest /\ NothingLost /\ [Next]_vars => NothingLost'
<1> SUFFICES ASSUME ServiceTypes, AtRest, NothingLost, [Next]_vars PROVE NothingLost'
  OBVIOUS
<1>1. loop \in Loop /\ mem \in State /\ loop.head \in 1 .. Updates + 1
  BY DEF ServiceTypes, TypeOK, Loop
<1>2. CASE Ends
  BY <1>2, IdleLoopType DEF Ends, NothingLost, Settled, UnderWay
<1>3. CASE GoesOn
  BY <1>3 DEF GoesOn, NothingLost, Settled
<1>4. CASE Restart
  BY <1>4, IdleLoopType DEF Restart, AtRest, NothingLost, Settled, UnderWay, worldVars, seenVars
<1>5. CASE GetUpdates /\ UNCHANGED faults
  <2>1. /\ loop' = [IdleLoop EXCEPT !.pc = "update", !.head = First, !.last = sent]
        /\ confirmed' = First
    BY <1>5 DEF GetUpdates, Fails, ServiceTypes, TypeOK
  <2>2. loop'.pc = "update" /\ loop'.head = First /\ ~UnderWay(loop')
    BY <2>1, IdleLoopType DEF Loop, UnderWay
  <2>3. Settled(First)
    BY DEF First, NothingLost
  <2> QED BY <1>5, <2>1, <2>2, <2>3 DEF GetUpdates, NothingLost, Settled, seenVars
<1>6. CASE Handle
  <2> DEFINE head == loop.head
             settles == CommandOf[head] \notin {"foreign", "noise"}
  <2>1. loop'.head = head /\ loop'.pc # "update"
    BY <1>1, <1>6, GotoType DEF Handle, Labels, Loop
  <2>2. \A i \in 1 .. Updates :
          /\ handled[i] > 0 => handled'[i] > 0
          /\ i = head /\ settles => handled'[i] > 0
    <3>1. handled \in [1 .. Updates -> Nat] /\ MaxRepeats \in Nat \ {0}
      BY ServiceAssumption DEF ServiceTypes, TypeOK
    <3>2. \/ handled' = handled /\ ~settles
          \/ handled' = [handled EXCEPT ![head] = handled[head] + 1]
          \/ handled' = handled /\ ~(handled[head] < MaxRepeats)
      BY <1>6, <3>1 DEF Handle
    <3>3. \A i \in 1 .. Updates : handled[i] \in Nat
      BY <3>1
    <3>4. CASE handled' = handled /\ ~settles
      BY <3>4
    <3>5. CASE handled' = [handled EXCEPT ![head] = handled[head] + 1]
      <4>1. \A i \in 1 .. Updates :
              handled'[i] = IF i = head THEN handled[head] + 1 ELSE handled[i]
        BY <3>1, <3>5
      <4> QED BY <3>3, <4>1
    <3>6. CASE handled' = handled /\ ~(handled[head] < MaxRepeats)
      BY <3>1, <3>3, <3>6
    <3> QED BY <3>2, <3>4, <3>5, <3>6
  <2>3. Settled(head)
    BY <1>6 DEF Handle, NothingLost
  <2>4. \A i \in 1 .. Updates : i < head + 1 => i < head \/ i = head
    BY <1>1
  <2>5. Settled(loop.head + 1)'
    BY <2>1, <2>2, <2>3, <2>4 DEF Settled
  <2>6. (Settled(confirmed) /\ Settled(mem.offset) /\ Settled(durable.offset))'
    BY <1>6, <2>2 DEF Handle, worldVars, NothingLost, Settled
  <2> QED BY <2>1, <2>5, <2>6 DEF NothingLost
<1>7. CASE Advance
  <2>1. UnderWay(loop) /\ Settled(loop.head + 1)
    BY <1>7 DEF Advance, UnderWay, NothingLost
  <2>2. Completed.offset = loop.head + 1
    BY <1>1 DEF Completed, State
  <2>3. /\ NextUpdate.pc = "update" /\ NextUpdate.head = loop.head + 1
        /\ Goto("failure").pc = "failure"
        /\ ~UnderWay(NextUpdate) /\ ~UnderWay(Goto("failure"))
    BY <1>1, GotoType DEF NextUpdate, Goto, Labels, Loop, UnderWay
  <2>4. /\ mem' = Completed /\ durable' \in {durable, Completed}
        /\ loop' \in {NextUpdate, Goto("failure")}
        /\ UNCHANGED <<handled, confirmed>>
    BY <1>7 DEF Advance, Save, worldVars
  <2> QED BY <2>1, <2>2, <2>3, <2>4 DEF NothingLost, Settled
<1> QED BY <1>2, <1>3, <1>4, <1>5, <1>6, <1>7, BatchMoves

LEMMA NothingLostInit == Init => NothingLost
<1> SUFFICES ASSUME Init PROVE NothingLost
  OBVIOUS
<1>1. \A i \in 1 .. Updates : ~(i < 1)
  BY ServiceAssumption
<1> QED BY <1>1, IdleLoopType DEF Init, NothingLost, Settled, FreshState, UnderWay

\* A command Telegram has forgotten, or the next process will not ask for, has
\* taken effect (_poll_telegram), whatever fails, ends or is repeated.
THEOREM NothingIsLost == Spec => []NoCommandLost
<1>1. NothingLost => NoCommandLost
  BY DEF NothingLost, Settled, NoCommandLost
<1>2. Spec => []NothingLost
  BY NothingLostInit, NothingLostStep, ServiceInStep, PTL DEF Spec
<1> QED BY <1>1, <1>2, PTL

-----------------------------------------------------------------------------
(* What was announced about pausing is kept *)

\* Until a save fails, memory and disk agree on the pause, and the reply to a
\* pause or resume comes after both.
PauseKept ==
  /\ UnderWay(loop) => /\ CommandOf[loop.head] = "pause" => paused = TRUE
                       /\ CommandOf[loop.head] = "resume" => paused = FALSE
  /\ ~unsaved =>
       /\ mem.paused = durable.paused
       /\ loop.pc = "reply" => durable.paused = paused
       /\ promised = "paused" => durable.paused /\ (up => paused)
       /\ promised = "active" => ~durable.paused /\ (up => ~paused)

\* A step that neither handles, acknowledges nor saves a pause.
PauseAside ==
  /\ UNCHANGED <<paused, promised>>
  /\ mem'.paused = mem.paused
  /\ unsaved' \in {unsaved, TRUE}
  /\ unsaved' \/ durable'.paused \in {durable.paused, mem.paused}
  /\ up' => up
  /\ loop'.pc = "reply" => loop.pc = "reply"

LEMMA SaveAside ==
  ASSUME NEW state, NEW next, NEW failed, Save(state, next, failed),
         UNCHANGED <<up, paused, unhealthy, worldVars, stops>>, state.paused = mem.paused,
         next.pc # "reply", failed.pc # "reply"
  PROVE  PauseAside
<1>1. CASE durable' = state /\ loop' = next /\ UNCHANGED <<unsaved, faults>>
  BY <1>1 DEF Save, PauseAside
<1>2. CASE durable' \in {durable, state} /\ loop' = failed /\ SaveFails
  BY <1>2 DEF Save, SaveFails, PauseAside
<1> QED BY <1>1, <1>2 DEF Save

LEMMA AsideSteps ==
  ASSUME ServiceTypes, [Next]_vars, ~Handle, ~SavePause, ~Reply, ~Restart
  PROVE  PauseAside
<1>1. loop \in Loop /\ mem \in State
  BY DEF ServiceTypes, TypeOK
<1>2. /\ Goto("failure").pc = "failure" /\ Goto("saveCycle").pc = "saveCycle"
      /\ Goto("saveFailure").pc = "saveFailure" /\ Goto("decide").pc = "decide"
      /\ Goto("saveFingerprint").pc = "saveFingerprint"
      /\ Goto("saveDigest").pc = "saveDigest" /\ IdleLoop.pc = "idle"
      /\ AfterCycle.pc # "reply" /\ NextUpdate.pc = "update"
  <2>1. AfterCycle.pc # "reply"
    BY <1>1, AfterCycleType, IdleLoopType
  <2>2. NextUpdate.pc = "update"
    BY <1>1 DEF NextUpdate, Goto, Loop
  <2> QED BY <1>1, <2>1, <2>2, GotoType, IdleLoopType DEF Labels
<1>3. CASE GetUpdates
  <2>1. loop'.pc \in {"update", "failure"}
    BY <1>2, <1>3, IdleLoopType DEF GetUpdates, Loop
  <2> QED BY <1>3, <2>1 DEF GetUpdates, PauseAside, seenVars
<1>4. CASE Advance
  <2>1. Completed.paused = mem.paused
    BY <1>1 DEF Completed, State
  <2> QED BY <1>2, <1>4, <2>1, SaveAside DEF Advance
<1>5. CASE CheckMonitor
  <2>1. loop'.pc \in {"cycle", "idle"}
    BY <1>2, <1>5, IdleLoopType DEF CheckMonitor, Loop
  <2> QED BY <1>5, <2>1 DEF CheckMonitor, PauseAside, seenVars
<1>6. CASE PollEspn
  <2>1. loop'.pc # "reply" /\ mem'.paused = mem.paused
    <3>1. \/ \E label \in {"recover", "saveCycle", "alert"}, read \in {0, league} :
               loop' = [loop EXCEPT !.pc = label, !.readAt = clock, !.read = read]
          \/ loop' = Goto("failure")
      BY <1>6 DEF PollEspn
    <3>2. ASSUME NEW label \in {"recover", "saveCycle", "alert"}, NEW read,
                 loop' = [loop EXCEPT !.pc = label, !.readAt = clock, !.read = read]
          PROVE  loop'.pc = label
      BY <1>1, <3>2 DEF Loop
    <3>3. mem'.paused = mem.paused
      BY <1>1, <1>6 DEF PollEspn, State
    <3> QED BY <1>2, <3>1, <3>2, <3>3
  <2> QED BY <1>6, <2>1 DEF PollEspn, PauseAside, seenVars
<1>7. ASSUME NEW label \in {"saveCycle", "saveFailure"}, Alert(Goto(label))
      PROVE  PauseAside
  <2>1. mem'.paused = mem.paused /\ loop'.pc = label
    BY <1>1, <1>2, <1>7 DEF Alert, Deliver, State
  <2> QED BY <1>7, <2>1 DEF Alert, PauseAside
<1>8. CASE LostAccess
  BY <1>7, <1>8 DEF LostAccess
<1>9. CASE Recover
  <2>1. mem'.paused = mem.paused
    BY <1>1, <1>9 DEF Recover, State
  <2> QED BY <1>2, <1>9, <2>1 DEF Recover, PauseAside
<1>10. CASE SaveCycle
  BY <1>2, <1>10, SaveAside DEF SaveCycle
<1>11. CASE Decide
  <2>1. loop' \in {AfterCycle, Goto("saveFingerprint"), Goto("failure")}
    BY <1>11 DEF Decide
  <2> QED BY <1>2, <1>11, <2>1 DEF Decide, PauseAside
<1>12. CASE SaveFingerprint
  <2>1. [mem EXCEPT !.fingerprint = Fingerprint].paused = mem.paused
    BY <1>1 DEF State
  <2> QED BY <1>2, <1>12, <2>1, SaveAside DEF SaveFingerprint
<1>13. CASE SendDigest
  <2>1. loop' \in {IdleLoop, Goto("saveDigest"), Goto("failure")}
    BY <1>13 DEF SendDigest, Deliver
  <2> QED BY <1>2, <1>13, <2>1 DEF SendDigest, PauseAside
<1>14. CASE SaveDigest
  <2>1. [mem EXCEPT !.digest = Day].paused = mem.paused
    BY <1>1 DEF State
  <2> QED BY <1>2, <1>14, <2>1, SaveAside DEF SaveDigest
<1>15. CASE Failure
  <2>1. CASE Alert(Goto("saveFailure"))
    BY <1>7, <2>1
  <2>2. CASE loop' = IdleLoop
             /\ UNCHANGED <<up, mem, durable, paused, unhealthy, worldVars, seenVars,
                            faults, stops>>
    BY <1>2, <2>2 DEF PauseAside, seenVars
  <2> QED BY <1>15, <2>1, <2>2 DEF Failure
<1>16. CASE SaveFailure
  <2>1. /\ UNCHANGED <<paused, promised, mem>> /\ loop' = IdleLoop
        /\ durable' \in {durable, mem} /\ unsaved' \in {unsaved, TRUE}
        /\ up' \in {up, FALSE}
    BY <1>16 DEF SaveFailure, SaveFails
  <2>2. up' => up
    BY <2>1, Zenon
  <2> QED BY <1>2, <2>1, <2>2 DEF PauseAside
<1>17. CASE Stop
  BY <1>2, <1>17 DEF Stop, SaveFails, PauseAside
<1>18. CASE SendUpdate \/ Tick \/ UNCHANGED vars
  <2>1. UNCHANGED <<up, mem, durable, paused, promised, unsaved, loop>>
    BY <1>18 DEF SendUpdate, Tick, vars, seenVars
  <2> QED BY <2>1, Zenon DEF PauseAside
<1> QED BY <1>3, <1>4, <1>5, <1>6, <1>8, <1>9, <1>10, <1>11, <1>12, <1>13, <1>14, <1>15,
          <1>16, <1>17, <1>18 DEF Next, Work

LEMMA HeadStays ==
  ASSUME ServiceTypes, [Next]_vars, ~Handle, ~Restart, UnderWay(loop')
  PROVE  UnderWay(loop) /\ loop'.head = loop.head
<1>1. loop \in Loop
  BY DEF ServiceTypes, TypeOK
<1>2. ~Advance
  <2> SUFFICES ASSUME Advance PROVE FALSE
    OBVIOUS
  <2>1. loop' \in {NextUpdate, Goto("failure")}
    BY DEF Advance, Save
  <2>2. NextUpdate.pc = "update" /\ Goto("failure").pc = "failure"
    BY <1>1, GotoType DEF NextUpdate, Goto, Labels, Loop
  <2> QED BY <2>1, <2>2 DEF UnderWay
<1>3. ~(GetUpdates /\ UNCHANGED faults)
  <2> SUFFICES ASSUME GetUpdates PROVE FALSE
    OBVIOUS
  <2>1. CASE loop' = [IdleLoop EXCEPT !.pc = "update", !.head = First, !.last = sent]
    BY <2>1 DEF IdleLoop, UnderWay
  <2>2. CASE loop' = Goto("failure")
    BY <1>1, <2>2, GotoType DEF UnderWay, Labels
  <2> QED BY <2>1, <2>2 DEF GetUpdates
<1>4. ~Ends
  BY IdleLoopType DEF Ends, UnderWay
<1> QED BY <1>2, <1>3, <1>4, BatchMoves DEF GoesOn

LEMMA PauseKeptStep ==
  ServiceTypes /\ AtRest /\ PauseKept /\ [Next]_vars => PauseKept'
<1> SUFFICES ASSUME ServiceTypes, AtRest, PauseKept, [Next]_vars PROVE PauseKept'
  OBVIOUS
<1>1. loop \in Loop /\ mem \in State /\ paused \in BOOLEAN /\ unsaved \in BOOLEAN
  BY DEF ServiceTypes, TypeOK
<1>2. CASE ~Handle /\ ~SavePause /\ ~Reply /\ ~Restart
  <2>1. PauseAside
    BY <1>2, AsideSteps
  <2>2. UnderWay(loop') => UnderWay(loop) /\ loop'.head = loop.head
    BY <1>2, HeadStays
  <2>3. UnderWay(loop') => /\ CommandOf[loop'.head] = "pause" => paused' = TRUE
                           /\ CommandOf[loop'.head] = "resume" => paused' = FALSE
    BY <2>1, <2>2 DEF PauseAside, PauseKept
  <2>4. ~unsaved' =>
          /\ mem'.paused = durable'.paused
          /\ loop'.pc = "reply" => durable'.paused = paused'
          /\ promised' = "paused" => durable'.paused /\ (up' => paused')
          /\ promised' = "active" => ~durable'.paused /\ (up' => ~paused')
    <3> SUFFICES ASSUME ~unsaved'
                 PROVE  /\ mem'.paused = durable'.paused
                        /\ loop'.pc = "reply" => durable'.paused = paused'
                        /\ promised' = "paused" => durable'.paused /\ (up' => paused')
                        /\ promised' = "active" => ~durable'.paused /\ (up' => ~paused')
      OBVIOUS
    <3>1. ~unsaved /\ durable'.paused = durable.paused /\ mem'.paused = mem.paused
      BY <2>1, <1>1 DEF PauseAside, PauseKept
    <3>2. paused' = paused /\ promised' = promised /\ (up' => up)
          /\ (loop'.pc = "reply" => loop.pc = "reply")
      BY <2>1 DEF PauseAside
    <3> QED BY <3>1, <3>2, Zenon DEF PauseKept
  <2> QED BY <2>3, <2>4 DEF PauseKept
<1>3. CASE Handle
  <2>1. loop'.head = loop.head /\ loop'.pc # "reply"
    BY <1>1, <1>3, GotoType DEF Handle, Labels, Loop
  <2>2. /\ UNCHANGED <<up, mem, durable, unsaved>>
        /\ CommandOf[loop.head] = "pause" => paused' = TRUE
        /\ CommandOf[loop.head] = "resume" => paused' = FALSE
        /\ promised' = "none" \/ UNCHANGED <<paused, promised>>
    BY <1>3 DEF Handle
  <2> QED BY <2>1, <2>2 DEF PauseKept
<1>4. CASE SavePause
  <2>1. UnderWay(loop) /\ loop.pc # "reply" /\ UNCHANGED <<up, paused, promised>>
    BY <1>4 DEF SavePause, UnderWay, Save, seenVars
  <2>2. loop'.head = loop.head
    BY <1>1, <1>4, GotoType DEF SavePause, Save, Labels
  <2>3. CASE mem.paused = paused /\ UNCHANGED <<mem, durable, seenVars, faults>>
    BY <2>1, <2>2, <2>3 DEF PauseKept, seenVars
  <2>4. CASE mem.paused # paused
             /\ Save([mem EXCEPT !.paused = paused], Goto("reply"), Goto("failure"))
    <3>1. mem'.paused = paused /\ (unsaved' \/ durable'.paused = paused)
      BY <1>1, <2>4 DEF Save, SaveFails, State
    <3>2. unsaved' \in {unsaved, TRUE}
      BY <2>4 DEF Save, SaveFails
    <3>3. ~unsaved' => /\ promised = "paused" => paused = TRUE
                       /\ promised = "active" => paused = FALSE
      <4>1. up
        BY <1>4, IdleLoopType DEF AtRest, SavePause
      <4> QED BY <1>1, <3>2, <4>1 DEF PauseKept
    <3> QED BY <1>1, <2>1, <2>2, <3>1, <3>2, <3>3 DEF PauseKept
  <2> QED BY <1>4, <2>3, <2>4 DEF SavePause
<1>5. CASE Reply
  <2>1. /\ UNCHANGED <<up, mem, durable, paused, unsaved>>
        /\ promised' \in {promised, Announced}
        /\ loop' \in {Goto("advance"), Goto("failure")}
    BY <1>5 DEF Reply, Deliver
  <2>2. loop'.head = loop.head /\ loop'.pc \in {"advance", "failure"}
    BY <1>1, <2>1, GotoType DEF Labels
  <2>3. UnderWay(loop) /\ loop.pc = "reply"
    BY <1>5 DEF Reply, UnderWay
  <2>4. ~unsaved => /\ Announced = "paused" => durable.paused /\ (up => paused)
                    /\ Announced = "active" => ~durable.paused /\ (up => ~paused)
    BY <2>3 DEF Announced, PauseKept
  <2> QED BY <2>1, <2>2, <2>3, <2>4 DEF PauseKept
<1>6. CASE Restart
  <2>1. /\ UNCHANGED <<durable, promised, unsaved>> /\ loop' = IdleLoop
        /\ mem' = durable /\ paused' = durable.paused
    BY <1>6 DEF Restart, AtRest, seenVars
  <2> QED BY <2>1, IdleLoopType DEF PauseKept, UnderWay
<1> QED BY <1>2, <1>3, <1>4, <1>5, <1>6

\* Until a save fails, what the last reply announced is what this process and the
\* next one do about pausing (_persist_pause_state).
THEOREM AnnouncedPauseKept == Spec => []PausePromiseKept
<1>1. Init => PauseKept
  BY IdleLoopType DEF Init, PauseKept, FreshState, UnderWay
<1>2. PauseKept => PausePromiseKept
  BY DEF PauseKept, PausePromiseKept
<1>3. Spec => []PauseKept
  BY <1>1, PauseKeptStep, ServiceInStep, PTL DEF Spec
<1> QED BY <1>2, <1>3, PTL

-----------------------------------------------------------------------------
(* Nothing is repeated without a cause *)

\* Every time a command took effect but the last has a failure or a stop to blame,
\* and so has the last if the command is neither under way nor counted as done.
CommandsCaused ==
  \A i \in 1 .. Updates :
    /\ handled[i] <= 1 + faults + stops
    /\ handled[i] <= faults + stops
         \/ (up /\ (i < mem.offset \/ (UnderWay(loop) /\ i = loop.head)))

LEMMA CommandsCausedStep ==
  ASSUME Refused = {}, ServiceTypes, AtRest, CommandsCaused, [Next]_vars
  PROVE  CommandsCaused'
<1>1. /\ loop \in Loop /\ mem \in State /\ mem.offset \in Nat /\ loop.head \in Nat
      /\ faults \in Nat /\ stops \in Nat /\ \A i \in 1 .. Updates : handled[i] \in Nat
  <2>1. /\ loop \in Loop /\ mem \in State /\ faults \in Nat /\ stops \in Nat
        /\ handled \in [1 .. Updates -> Nat] /\ Updates \in Nat
    BY ServiceAssumption DEF ServiceTypes, TypeOK
  <2>2. mem.offset \in Nat /\ loop.head \in Nat
    BY <2>1 DEF State, Loop
  <2>3. \A i \in 1 .. Updates : handled[i] \in Nat
    BY <2>1
  <2> QED BY <2>1, <2>2, <2>3
<1>2. CASE Ends
  BY <1>1, <1>2 DEF Ends, CommandsCaused
<1>3. CASE GoesOn
  <2>1. /\ UNCHANGED <<up, stops, handled>> /\ mem'.offset = mem.offset
        /\ faults' \in {faults, faults + 1}
    BY <1>3 DEF GoesOn
  <2>2. UnderWay(loop) => (UnderWay(loop') /\ loop'.head = loop.head) \/ faults' = faults + 1
    BY <1>3 DEF GoesOn
  <2> QED BY <1>1, <2>1, <2>2 DEF CommandsCaused
<1>4. CASE Restart
  BY <1>1, <1>4 DEF Restart, CommandsCaused, seenVars
<1>5. CASE GetUpdates /\ UNCHANGED faults
  <2>1. UNCHANGED <<up, mem, handled, stops, faults>> /\ ~UnderWay(loop)
    BY <1>5 DEF GetUpdates, UnderWay, seenVars
  <2> QED BY <2>1 DEF CommandsCaused
<1>6. CASE Handle
  <2>1. loop'.head = loop.head /\ UnderWay(loop')
    BY <1>1, <1>6, GotoType DEF Handle, Labels, Loop, UnderWay
  <2>2. up /\ ~UnderWay(loop) /\ mem.offset <= loop.head
    BY <1>6, IdleLoopType DEF Handle, AtRest, UnderWay, ServiceTypes, InStep, Placed
  <2>3. UNCHANGED <<up, mem, faults, stops>>
    BY <1>6 DEF Handle
  <2>4. \A i \in 1 .. Updates :
          handled'[i] = handled[i] \/ (i = loop.head /\ handled'[i] = handled[i] + 1)
    <3>1. handled \in [1 .. Updates -> Nat]
      BY DEF ServiceTypes, TypeOK
    <3>2. handled' = handled
          \/ handled' = [handled EXCEPT ![loop.head] = handled[loop.head] + 1]
      BY <1>6, <3>1 DEF Handle
    <3> QED BY <3>1, <3>2
  <2> QED BY <1>1, <2>1, <2>2, <2>3, <2>4 DEF CommandsCaused
<1>7. CASE Advance
  <2>1. Completed.offset = loop.head + 1
    BY <1>1 DEF Completed, State
  <2>2. mem.offset <= loop.head
    BY <1>7 DEF Advance, UnderWay, ServiceTypes, InStep, Placed
  <2>3. /\ mem' = Completed /\ faults' \in {faults, faults + 1}
        /\ UNCHANGED <<up, stops, handled>>
    BY <1>7 DEF Advance, Save, SaveFails, Fails
  <2>4. \A i \in 1 .. Updates : i < mem.offset \/ i = loop.head => i < mem'.offset
    BY <1>1, <2>1, <2>2, <2>3
  <2> QED BY <1>1, <2>3, <2>4 DEF CommandsCaused
<1> QED BY <1>2, <1>3, <1>4, <1>5, <1>6, <1>7, BatchMoves

\* Positions of a scheduled pass, which looks at the day once.
InDay(l) ==
  \/ l.pc \in {"digest", "saveDigest"}
  \/ /\ l.pc \in {"cycle", "alert", "recover", "saveCycle", "decide", "saveFingerprint"}
     /\ l.origin = "schedule"

\* The same of the digests of a day, once those of its predecessors are over.
DigestsCaused ==
  /\ mem.digest <= clock \div DayLength /\ durable.digest <= clock \div DayLength
  /\ InDay(loop) => mem.digest <= Day
  /\ \A d \in Days :
       /\ digests[d] <= 1 + faults + stops
       /\ digests[d] <= faults + stops
            \/ (up /\ (d <= mem.digest \/ (loop.pc = "saveDigest" /\ d = Day)))

\* An alert is one of this process, which knows of it, or has a stop to blame.
AlertsCaused ==
  /\ alerts <= 1 + stops
  /\ alerts <= stops \/ (up /\ mem.unhealthy)
  /\ loop.pc = "alert" => ~mem.unhealthy

\* A step that has nothing to do with digests and alerts.
Apart ==
  /\ UNCHANGED <<alerts, digests>> /\ clock <= clock'
  /\ mem'.digest = mem.digest /\ mem'.unhealthy = mem.unhealthy
  /\ durable'.digest \in {durable.digest, mem.digest}
  /\ faults' \in {faults, faults + 1}
  /\ \/ UNCHANGED <<up, stops>>
     \/ ~up' /\ stops' = stops + 1
  /\ \/ loop' = loop
     \/ /\ loop'.pc \notin {"alert", "saveDigest"}
        /\ loop.pc = "saveDigest" => ~up'
        /\ InDay(loop') => InDay(loop) /\ loop'.now = loop.now

LEMMA SaveApart ==
  ASSUME NEW state, NEW next, NEW failed, Save(state, next, failed),
         UNCHANGED <<up, paused, unhealthy, worldVars, stops>>, clock \in Nat,
         state.digest = mem.digest, state.unhealthy = mem.unhealthy,
         next.pc \notin {"alert", "saveDigest"}, failed.pc = "failure",
         InDay(next) => InDay(loop) /\ next.now = loop.now, loop.pc # "saveDigest"
  PROVE  Apart
<1>1. ~InDay(failed)
  BY DEF InDay
<1>2. CASE durable' = state /\ loop' = next /\ UNCHANGED <<unsaved, faults>>
  BY <1>2 DEF Save, Apart, worldVars
<1>3. CASE durable' \in {durable, state} /\ loop' = failed /\ SaveFails
  BY <1>1, <1>3 DEF Save, SaveFails, Fails, Apart, worldVars
<1> QED BY <1>2, <1>3 DEF Save

LEMMA ApartSteps ==
  ASSUME ServiceTypes, [Next]_vars, ~CheckMonitor, ~PollEspn, ~LostAccess, ~Recover,
         ~SendDigest, ~SaveDigest, ~Failure, ~Restart
  PROVE  Apart
<1>1. loop \in Loop /\ mem \in State /\ clock \in Nat
  BY DEF ServiceTypes, TypeOK
<1>2. /\ Goto("failure").pc = "failure" /\ Goto("decide").pc = "decide"
      /\ Goto("saveFingerprint").pc = "saveFingerprint" /\ Goto("reply").pc = "reply"
      /\ Goto("advance").pc = "advance" /\ IdleLoop.pc = "idle"
      /\ Goto("decide").origin = loop.origin /\ Goto("decide").now = loop.now
      /\ Goto("saveFingerprint").origin = loop.origin /\ Goto("saveFingerprint").now = loop.now
      /\ NextUpdate.pc = "update"
  <2>1. NextUpdate.pc = "update"
    BY <1>1 DEF NextUpdate, Goto, Loop
  <2> QED BY <1>1, <2>1, GotoType, IdleLoopType DEF Labels
<1>3. loop.pc \in {"cycle", "alert", "recover", "saveCycle", "decide", "saveFingerprint"}
      => /\ AfterCycle.pc \in {"savePause", "digest", "idle"}
         /\ InDay(AfterCycle) => InDay(loop) /\ AfterCycle.now = loop.now
  <2>1. loop.origin \in {"schedule", "command"}
    BY <1>1 DEF Loop
  <2>2. CASE loop.origin = "command"
    BY <1>1, <2>2, GotoType DEF AfterCycle, InDay, Labels
  <2>3. CASE loop.origin = "schedule"
    BY <1>1, <2>3, GotoType, IdleLoopType DEF AfterCycle, InDay, Labels
  <2> QED BY <2>1, <2>2, <2>3
<1>4. CASE GetUpdates
  <2>1. loop'.pc \in {"update", "failure"} /\ faults' \in {faults, faults + 1}
    BY <1>2, <1>4, IdleLoopType DEF GetUpdates, Fails, Loop
  <2> QED BY <1>1, <1>4, <2>1 DEF GetUpdates, Apart, InDay, seenVars
<1>5. CASE Handle
  <2>1. loop'.pc \in {"advance", "savePause"} \/ (loop'.pc = "cycle" /\ loop'.origin = "command")
    BY <1>1, <1>5, GotoType DEF Handle, Labels, Loop
  <2> QED BY <1>1, <1>5, <2>1 DEF Handle, Apart, InDay, worldVars
<1>6. CASE SavePause
  <2>1. CASE loop' = Goto("reply") /\ UNCHANGED <<mem, durable, seenVars, faults>>
    BY <1>1, <1>2, <1>6, <2>1 DEF SavePause, Apart, InDay, worldVars, seenVars
  <2>2. CASE Save([mem EXCEPT !.paused = paused], Goto("reply"), Goto("failure"))
    <3>1. /\ [mem EXCEPT !.paused = paused].digest = mem.digest
          /\ [mem EXCEPT !.paused = paused].unhealthy = mem.unhealthy
          /\ ~InDay(Goto("reply"))
      BY <1>1, <1>2 DEF State, InDay
    <3> QED BY <1>1, <1>2, <1>6, <2>2, <3>1, SaveApart DEF SavePause
  <2> QED BY <1>6, <2>1, <2>2 DEF SavePause
<1>7. CASE Reply
  <2>1. loop' \in {Goto("advance"), Goto("failure")} /\ faults' \in {faults, faults + 1}
    BY <1>7 DEF Reply, Deliver, Fails
  <2> QED BY <1>1, <1>2, <1>7, <2>1 DEF Reply, Apart, InDay, worldVars
<1>8. CASE Advance
  <2>1. /\ Completed.digest = mem.digest /\ Completed.unhealthy = mem.unhealthy
        /\ ~InDay(NextUpdate)
    BY <1>1, <1>2 DEF Completed, State, InDay
  <2> QED BY <1>1, <1>2, <1>8, <2>1, SaveApart DEF Advance
<1>9. CASE SaveCycle
  <2> DEFINE next == IF loop.read = 0 THEN AfterCycle ELSE Goto("decide")
  <2>1. /\ next.pc \notin {"alert", "saveDigest"}
        /\ InDay(next) => InDay(loop) /\ next.now = loop.now
    BY <1>1, <1>2, <1>3, <1>9 DEF SaveCycle, InDay
  <2>2. Save(mem, next, Goto("failure")) /\ loop.pc # "saveDigest"
    BY <1>9 DEF SaveCycle
  <2>3. UNCHANGED <<up, paused, unhealthy, worldVars, stops>>
    BY <1>9 DEF SaveCycle
  <2> HIDE DEF next
  <2> QED BY <1>1, <1>2, <2>1, <2>2, <2>3, SaveApart
<1>10. CASE Decide
  <2>1. /\ loop' \in {AfterCycle, Goto("saveFingerprint"), Goto("failure")}
        /\ faults' \in {faults, faults + 1}
    <3>1. CASE Fingerprint = mem.fingerprint
      BY <1>10, <3>1, Zenon DEF Decide
    <3>2. CASE Fingerprint # mem.fingerprint
      BY <1>10, <3>2, Zenon DEF Decide, Fails
    <3> QED BY <3>1, <3>2
  <2>2. /\ loop'.pc \notin {"alert", "saveDigest"} /\ loop.pc # "saveDigest"
        /\ InDay(loop') => InDay(loop) /\ loop'.now = loop.now
    BY <1>2, <1>3, <1>10, <2>1 DEF Decide, InDay
  <2>3. UNCHANGED <<up, mem, durable, worldVars, alerts, digests, stops>>
    BY <1>10 DEF Decide
  <2> QED BY <1>1, <2>1, <2>2, <2>3 DEF Apart, worldVars
<1>11. CASE SaveFingerprint
  <2>1. /\ [mem EXCEPT !.fingerprint = Fingerprint].digest = mem.digest
        /\ [mem EXCEPT !.fingerprint = Fingerprint].unhealthy = mem.unhealthy
    BY <1>1 DEF State
  <2> QED BY <1>1, <1>2, <1>3, <1>11, <2>1, SaveApart DEF SaveFingerprint
<1>12. CASE SaveFailure
  <2>1. /\ durable' \in {durable, mem} /\ faults' \in {faults, faults + 1}
        /\ UNCHANGED <<up, stops>> \/ (~up' /\ stops' = stops + 1)
    BY <1>12 DEF SaveFailure, SaveFails, Fails
  <2> QED BY <1>1, <1>2, <1>12, <2>1 DEF SaveFailure, Apart, InDay, worldVars
<1>13. CASE Stop
  <2>1. /\ durable' \in {durable, mem} /\ faults' \in {faults, faults + 1}
        /\ ~up' /\ stops' = stops + 1
    BY <1>13 DEF Stop, SaveFails, Fails
  <2>2. UNCHANGED <<mem, clock, alerts, digests>> /\ loop' = IdleLoop
    BY <1>13 DEF Stop, worldVars
  <2>3. ~InDay(loop') /\ loop'.pc = "idle"
    BY <1>2, <2>2 DEF InDay
  <2>4. durable'.digest \in {durable.digest, mem.digest}
    BY <2>1
  <2> QED BY <1>1, <2>1, <2>2, <2>3, <2>4 DEF Apart
<1>14. CASE SendUpdate \/ Tick \/ UNCHANGED vars
  BY <1>1, <1>14 DEF SendUpdate, Tick, vars, worldVars, seenVars, Apart
<1> QED BY <1>4, <1>5, <1>6, <1>7, <1>8, <1>9, <1>10, <1>11, <1>12, <1>13, <1>14
        DEF Next, Work

LEMMA ClockDay ==
  ASSUME ServiceTypes, clock' \in Nat, clock <= clock'
  PROVE  /\ clock \div DayLength \in Nat /\ clock' \div DayLength \in Nat
         /\ clock \div DayLength <= clock' \div DayLength
<1>1. clock \in Nat /\ DayLength \in Nat \ {0}
  BY ServiceAssumption DEF ServiceTypes, TypeOK
<1>2. \A a, b \in Nat : a <= b => a \div DayLength \in Nat /\ a \div DayLength <= b \div DayLength
  BY <1>1, DivMonotone
<1>3. clock' <= clock'
  OBVIOUS
<1> QED BY <1>1, <1>2, <1>3

LEMMA CountTypes ==
  ASSUME ServiceTypes
  PROVE  /\ faults \in Nat /\ stops \in Nat /\ alerts \in Nat
         /\ mem.digest \in Int /\ durable.digest \in Int
         /\ \A d \in Days : d \in Nat /\ digests[d] \in Nat
<1>1. /\ faults \in Nat /\ stops \in Nat /\ alerts \in Nat
      /\ mem \in State /\ durable \in State /\ digests \in [Days -> Nat]
  BY DEF ServiceTypes, TypeOK
<1>2. \A d \in Days : d \in Nat
  BY DEF Days
<1>3. mem.digest \in Days \cup {Never} /\ durable.digest \in Days \cup {Never}
  BY <1>1 DEF State
<1>4. Never \in Int
  BY DEF Never
<1>5. \A d \in Days : digests[d] \in Nat
  BY <1>1, Zenon
<1>6. mem.digest \in Int /\ durable.digest \in Int
  BY <1>2, <1>3, <1>4
<1> QED BY <1>1, <1>2, <1>5, <1>6

\* A step that sends no digest and leaves the marker of the last one alone.
LEMMA NoDigest ==
  ASSUME ServiceTypes, ServiceTypes', DigestsCaused, UNCHANGED digests, clock <= clock',
         mem'.digest = mem.digest, durable'.digest \in {durable.digest, mem.digest},
         faults' \in {faults, faults + 1},
         UNCHANGED <<up, stops>> \/ (~up' /\ stops' = stops + 1),
         loop.pc = "saveDigest" /\ up' => loop' = loop,
         InDay(loop') => mem'.digest <= Day'
  PROVE  DigestsCaused'
<1>1. clock' \in Nat /\ clock \div DayLength \in Nat /\ clock' \div DayLength \in Nat
      /\ clock \div DayLength <= clock' \div DayLength
  BY ClockDay DEF ServiceTypes, TypeOK
<1>2. mem'.digest <= clock' \div DayLength /\ durable'.digest <= clock' \div DayLength
  BY <1>1, CountTypes DEF DigestsCaused
<1>3. ASSUME NEW d \in Days
      PROVE  /\ digests'[d] <= 1 + faults' + stops'
             /\ digests'[d] <= faults' + stops'
                  \/ (up' /\ (d <= mem'.digest \/ (loop'.pc = "saveDigest" /\ d = Day')))
  <2>1. /\ digests[d] \in Nat /\ faults \in Nat /\ stops \in Nat
        /\ digests[d] <= 1 + faults + stops
        /\ digests[d] <= faults + stops
             \/ (up /\ (d <= mem.digest \/ (loop.pc = "saveDigest" /\ d = Day)))
    BY CountTypes DEF DigestsCaused
  <2>2. CASE ~up' /\ stops' = stops + 1
    BY <2>1, <2>2
  <2>3. CASE UNCHANGED <<up, stops>>
    <3>1. CASE digests[d] <= faults + stops
      BY <2>1, <2>3, <3>1
    <3>2. CASE up /\ d <= mem.digest
      BY <2>1, <2>3, <3>2
    <3>3. CASE up /\ loop.pc = "saveDigest" /\ d = Day
      <4>1. loop' = loop /\ Day' = Day
        BY <2>3, <3>3 DEF Day
      <4> QED BY <2>1, <2>3, <3>3, <4>1
    <3> QED BY <2>1, <3>1, <3>2, <3>3
  <2> QED BY <2>2, <2>3
<1> QED BY <1>2, <1>3 DEF DigestsCaused

LEMMA DigestsCausedStep ==
  ASSUME ServiceTypes, ServiceTypes', AtRest, DigestsCaused, [Next]_vars
  PROVE  DigestsCaused'
<1>1. loop \in Loop /\ mem \in State /\ clock \in Nat
  BY DEF ServiceTypes, TypeOK
<1>2. CASE Apart
  <2>1. InDay(loop') => mem'.digest <= Day'
    <3>1. InDay(loop') => InDay(loop) /\ loop'.now = loop.now
      BY <1>2 DEF Apart
    <3> QED BY <1>2, <3>1 DEF Apart, DigestsCaused, Day
  <2>2. loop.pc = "saveDigest" /\ up' => loop' = loop
    BY <1>2 DEF Apart
  <2> QED BY <1>2, <2>1, <2>2, NoDigest DEF Apart
<1>3. CASE CheckMonitor
  <2>1. \/ loop' = [IdleLoop EXCEPT !.pc = "cycle", !.now = clock]
        \/ loop' = IdleLoop
    BY <1>3 DEF CheckMonitor
  <2>2. InDay(loop') => loop'.now = clock
    BY <2>1, IdleLoopType DEF InDay, Loop
  <2>3. InDay(loop') => mem.digest <= Day'
    BY <1>3, <2>2 DEF CheckMonitor, DigestsCaused, Day, worldVars
  <2> QED BY <1>1, <1>3, <2>3, NoDigest DEF CheckMonitor, worldVars, seenVars
<1>4. ASSUME UNCHANGED <<up, durable, worldVars, digests, stops>>,
             mem'.digest = mem.digest, faults' \in {faults, faults + 1},
             loop.pc # "saveDigest", InDay(loop') => InDay(loop) /\ loop'.now = loop.now
      PROVE  DigestsCaused'
  <2>1. InDay(loop') => mem'.digest <= Day'
    BY <1>4 DEF DigestsCaused, Day
  <2> QED BY <1>1, <1>4, <2>1, NoDigest DEF worldVars
<1>5. CASE PollEspn
  <2>1. \/ \E label \in {"recover", "saveCycle", "alert"}, read \in {0, league} :
             loop' = [loop EXCEPT !.pc = label, !.readAt = clock, !.read = read]
        \/ loop' = Goto("failure")
    BY <1>5 DEF PollEspn
  <2>2. ASSUME NEW label \in {"recover", "saveCycle", "alert"}, NEW read,
               loop' = [loop EXCEPT !.pc = label, !.readAt = clock, !.read = read]
        PROVE  InDay(loop') => InDay(loop) /\ loop'.now = loop.now
    <3>1. loop'.origin = loop.origin /\ loop'.now = loop.now /\ loop'.pc = label
      BY <1>1, <2>2 DEF Loop
    <3> QED BY <1>5, <3>1 DEF InDay, PollEspn
  <2>3. ~InDay(Goto("failure"))
    BY <1>1, GotoType DEF InDay, Labels
  <2>4. mem'.digest = mem.digest /\ faults' \in {faults, faults + 1}
    BY <1>1, <1>5 DEF PollEspn, Fails, State
  <2> QED BY <1>4, <1>5, <2>1, <2>2, <2>3, <2>4 DEF PollEspn, seenVars
<1>6. ASSUME NEW label \in {"saveCycle", "saveFailure"}, Alert(Goto(label)),
             loop.pc \in {"alert", "failure"}, loop.pc = "failure" => label = "saveFailure"
      PROVE  DigestsCaused'
  <2>1. mem'.digest = mem.digest /\ faults' \in {faults, faults + 1} /\ loop' = Goto(label)
    BY <1>1, <1>6 DEF Alert, Deliver, Fails, State
  <2>2. InDay(loop') => InDay(loop) /\ loop'.now = loop.now
    BY <1>1, <1>6, <2>1, GotoType DEF InDay, Labels
  <2> QED BY <1>4, <1>6, <2>1, <2>2 DEF Alert
<1>7. CASE LostAccess
  BY <1>6, <1>7 DEF LostAccess
<1>8. CASE Failure
  <2>1. CASE Alert(Goto("saveFailure"))
    BY <1>6, <1>8, <2>1 DEF Failure
  <2>2. CASE loop' = IdleLoop
             /\ UNCHANGED <<up, mem, durable, paused, unhealthy, worldVars, seenVars,
                            faults, stops>>
    <3>1. ~InDay(loop') /\ loop.pc # "saveDigest"
      BY <1>8, <2>2, IdleLoopType DEF InDay, Failure
    <3> QED BY <1>4, <2>2, <3>1 DEF seenVars
  <2> QED BY <1>8, <2>1, <2>2 DEF Failure
<1>9. CASE Recover
  <2>1. mem'.digest = mem.digest /\ loop' = Goto("saveCycle")
    BY <1>1, <1>9 DEF Recover, State
  <2>2. InDay(loop') => InDay(loop) /\ loop'.now = loop.now
    BY <1>1, <1>9, <2>1, GotoType DEF InDay, Labels, Recover
  <2> QED BY <1>4, <1>9, <2>1, <2>2 DEF Recover
<1>10. CASE Restart
  <2>1. /\ mem' = durable /\ loop' = IdleLoop
        /\ UNCHANGED <<durable, clock, digests, faults, stops>> /\ ~up
    BY <1>10 DEF Restart, AtRest, worldVars, seenVars
  <2>2. ~InDay(loop')
    BY <2>1, IdleLoopType DEF InDay
  <2>3. \A d \in Days :
          digests[d] <= 1 + faults + stops /\ digests[d] <= faults + stops
    BY <2>1 DEF DigestsCaused
  <2>4. \A d \in Days :
          digests'[d] <= 1 + faults' + stops' /\ digests'[d] <= faults' + stops'
    BY <2>1, <2>3
  <2>5. mem'.digest <= clock' \div DayLength /\ durable'.digest <= clock' \div DayLength
    BY <2>1 DEF DigestsCaused
  <2> QED BY <2>2, <2>4, <2>5 DEF DigestsCaused
<1>11. CASE SendDigest
  <2>1. loop.pc = "digest" /\ UNCHANGED <<up, mem, durable, worldVars, stops>>
    BY <1>11 DEF SendDigest
  <2>2. /\ Goto("saveDigest").pc = "saveDigest" /\ Goto("saveDigest").now = loop.now
        /\ Goto("failure").pc = "failure" /\ IdleLoop.pc = "idle"
    BY <1>1, GotoType, IdleLoopType DEF Labels
  <2>3. mem.digest <= Day /\ Day \in Days
    BY <1>1, <2>1, DayType DEF DigestsCaused, InDay, ServiceTypes
  <2>4. CASE UNCHANGED <<digests, faults>> /\ loop' = IdleLoop
    <3>1. ~InDay(loop')
      BY <2>2, <2>4 DEF InDay
    <3> QED BY <1>4, <2>1, <2>4, <3>1
  <2>5. CASE UNCHANGED digests /\ faults' = faults + 1 /\ loop' = Goto("failure")
    <3>1. ~InDay(loop')
      BY <2>2, <2>5 DEF InDay
    <3> QED BY <1>4, <2>1, <2>5, <3>1
  <2>6. CASE /\ DigestDue /\ digests' = [digests EXCEPT ![Day] = @ + 1]
             /\ \/ loop' = Goto("saveDigest") /\ faults' = faults
                \/ loop' = Goto("failure") /\ faults' = faults + 1
    <3>1. ~(Day <= mem.digest) /\ up
      BY <2>1, <2>3, <2>6, CountTypes, IdleLoopType DEF DigestDue, AtRest
    <3>2. Day' = IF loop' = Goto("saveDigest") THEN Day ELSE Day'
      BY <2>2 DEF Day
    <3>3. \A d \in Days :
            digests'[d] = IF d = Day THEN digests[d] + 1 ELSE digests[d]
      BY <2>6 DEF ServiceTypes, TypeOK
    <3>4. ASSUME NEW d \in Days
          PROVE  /\ digests'[d] <= 1 + faults' + stops'
                 /\ digests'[d] <= faults' + stops'
                      \/ (up' /\ (d <= mem'.digest \/ (loop'.pc = "saveDigest" /\ d = Day')))
      <4>1. /\ digests[d] \in Nat /\ faults \in Nat /\ stops \in Nat
            /\ digests[d] <= 1 + faults + stops
            /\ digests[d] <= faults + stops \/ d <= mem.digest
        BY <2>1, CountTypes DEF DigestsCaused
      <4>2. CASE d # Day
        <5>1. digests'[d] = digests[d] /\ stops' = stops /\ faults' \in {faults, faults + 1}
          BY <2>1, <2>6, <3>3, <4>2
        <5> QED BY <2>1, <3>1, <4>1, <5>1
      <4>3. CASE d = Day
        <5>1. digests'[d] = digests[d] + 1 /\ digests[d] <= faults + stops /\ stops' = stops
          BY <2>1, <3>1, <3>3, <4>1, <4>3
        <5>2. CASE loop' = Goto("saveDigest") /\ faults' = faults
          BY <2>1, <2>2, <3>1, <3>2, <4>1, <4>3, <5>1, <5>2
        <5>3. CASE faults' = faults + 1
          BY <4>1, <5>1, <5>3
        <5> QED BY <2>6, <5>2, <5>3
      <4> QED BY <4>2, <4>3
    <3>5. InDay(loop') => mem'.digest <= Day'
      BY <2>1, <2>2, <2>3, <2>6, <3>2 DEF InDay
    <3>6. mem'.digest <= clock' \div DayLength /\ durable'.digest <= clock' \div DayLength
      BY <2>1 DEF DigestsCaused, worldVars
    <3> QED BY <3>4, <3>5, <3>6 DEF DigestsCaused
  <2>7. CASE DigestDue
    <3>1. Deliver(digests' = [digests EXCEPT ![Day] = @ + 1], UNCHANGED digests,
                  Goto("saveDigest"), Goto("failure"))
      BY <1>11, <2>7 DEF SendDigest
    <3> QED BY <2>5, <2>6, <2>7, <3>1, Zenon DEF Deliver, Fails
  <2>8. CASE ~DigestDue
    BY <1>11, <2>4, <2>8 DEF SendDigest
  <2> QED BY <2>7, <2>8
<1>12. CASE SaveDigest
  <2>1. /\ loop.pc = "saveDigest" /\ UNCHANGED <<up, worldVars, stops, digests>>
        /\ mem' = [mem EXCEPT !.digest = Day]
        /\ durable' \in {durable, [mem EXCEPT !.digest = Day]}
        /\ faults' \in {faults, faults + 1} /\ loop' \in {IdleLoop, Goto("failure")}
    BY <1>12 DEF SaveDigest, Save, SaveFails, Fails
  <2>2. ~InDay(loop')
    BY <1>1, <2>1, GotoType, IdleLoopType DEF InDay, Labels
  <2>3. mem'.digest = Day /\ durable'.digest \in {durable.digest, Day}
    BY <1>1, <2>1 DEF State
  <2>4. /\ mem.digest <= Day /\ Day \in Nat /\ Day <= clock \div DayLength
        /\ clock' \div DayLength = clock \div DayLength
    <3>1. /\ loop.now \in Nat /\ loop.now <= clock /\ DayLength \in Nat \ {0}
      BY <1>1, ServiceAssumption DEF Loop, ServiceTypes, InStep, Placed
    <3>2. Day \in Nat /\ Day <= clock \div DayLength
      BY <1>1, <3>1, DivMonotone DEF Day
    <3> QED BY <2>1, <3>2 DEF DigestsCaused, InDay, worldVars
  <2>5. ASSUME NEW d \in Days
        PROVE  /\ digests'[d] <= 1 + faults' + stops'
               /\ digests'[d] <= faults' + stops' \/ (up' /\ d <= mem'.digest)
    <3>1. /\ digests[d] \in Nat /\ faults \in Nat /\ stops \in Nat /\ d \in Nat
          /\ digests[d] <= 1 + faults + stops
          /\ digests[d] <= faults + stops \/ (up /\ (d <= mem.digest \/ d = Day))
          /\ mem.digest \in Int
      BY CountTypes DEF DigestsCaused
    <3>2. /\ digests'[d] = digests[d] /\ stops' = stops
          /\ faults' \in {faults, faults + 1} /\ (up => up')
      BY <2>1
    <3> QED BY <2>3, <2>4, <3>1, <3>2
  <2> QED BY <2>2, <2>3, <2>4, <2>5 DEF DigestsCaused
<1> QED BY <1>2, <1>3, <1>5, <1>7, <1>8, <1>9, <1>10, <1>11, <1>12, ApartSteps

LEMMA AlertsCausedStep ==
  ASSUME ServiceTypes, AtRest, AlertsCaused, [Next]_vars
  PROVE  AlertsCaused'
<1>1. loop \in Loop /\ mem \in State /\ alerts \in Nat /\ stops \in Nat
  BY DEF ServiceTypes, TypeOK
<1>2. CASE Apart
  <2>1. CASE UNCHANGED <<up, stops>>
    BY <1>2, <2>1 DEF Apart, AlertsCaused
  <2>2. CASE ~up' /\ stops' = stops + 1
    BY <1>1, <1>2, <2>2 DEF Apart, AlertsCaused
  <2> QED BY <1>2, <2>1, <2>2 DEF Apart
<1>3. CASE CheckMonitor
  <2>1. loop'.pc # "alert"
    BY <1>3, IdleLoopType DEF CheckMonitor, Loop
  <2> QED BY <1>3, <2>1 DEF CheckMonitor, AlertsCaused, seenVars
<1>4. CASE PollEspn
  <2>1. mem'.unhealthy = mem.unhealthy /\ UNCHANGED <<up, stops, alerts>>
    BY <1>1, <1>4 DEF PollEspn, State, seenVars
  <2>2. loop'.pc = "alert" => ~mem.unhealthy
    <3>1. \/ \E label \in {"recover", "saveCycle"}, read \in {0, league} :
               loop' = [loop EXCEPT !.pc = label, !.readAt = clock, !.read = read]
          \/ ~mem.unhealthy
          \/ loop' = Goto("failure")
      BY <1>4 DEF PollEspn
    <3>2. ASSUME NEW label \in {"recover", "saveCycle"}, NEW read,
                 loop' = [loop EXCEPT !.pc = label, !.readAt = clock, !.read = read]
          PROVE  loop'.pc # "alert"
      BY <1>1, <3>2 DEF Loop
    <3>3. Goto("failure").pc = "failure"
      BY <1>1, GotoType DEF Labels
    <3> QED BY <3>1, <3>2, <3>3
  <2> QED BY <2>1, <2>2 DEF AlertsCaused
<1>5. ASSUME NEW label \in {"saveCycle", "saveFailure"}, Alert(Goto(label)), ~mem.unhealthy, up
      PROVE  AlertsCaused'
  <2>1. Goto(label).pc = label
    BY <1>1, GotoType DEF Labels
  <2>2. /\ alerts' \in {alerts, alerts + 1} /\ loop' = Goto(label)
        /\ UNCHANGED <<up, stops>>
    BY <1>5 DEF Alert, Deliver
  <2>3. mem'.unhealthy = TRUE
    BY <1>1, <1>5 DEF Alert, State
  <2>4. alerts <= stops
    BY <1>1, <1>5 DEF AlertsCaused
  <2> QED BY <1>1, <1>5, <2>1, <2>2, <2>3, <2>4 DEF AlertsCaused
<1>6. CASE LostAccess
  <2>1. up
    BY <1>6, IdleLoopType DEF LostAccess, AtRest
  <2> QED BY <1>5, <1>6, <2>1 DEF LostAccess, AlertsCaused
<1>7. CASE Failure
  <2>1. up
    BY <1>7, IdleLoopType DEF Failure, AtRest
  <2>2. CASE ~mem.unhealthy
    BY <1>5, <1>7, <2>1, <2>2 DEF Failure
  <2>3. CASE mem.unhealthy
    <3>1. loop' = IdleLoop /\ UNCHANGED <<up, mem, seenVars, stops>>
      BY <1>7, <2>3 DEF Failure
    <3> QED BY <3>1, IdleLoopType DEF AlertsCaused, seenVars
  <2> QED BY <2>2, <2>3
<1>8. CASE Recover
  <2>1. loop'.pc = "saveCycle"
    BY <1>1, <1>8, GotoType DEF Recover, Labels
  <2>2. alerts' = 0 /\ stops' = stops
    BY <1>8 DEF Recover
  <2> QED BY <1>1, <2>1, <2>2 DEF AlertsCaused
<1>9. CASE SendDigest
  <2>1. UNCHANGED <<up, mem, alerts, stops>> /\ loop' \in {IdleLoop, Goto("saveDigest"), Goto("failure")}
    BY <1>9 DEF SendDigest, Deliver
  <2>2. loop'.pc # "alert"
    BY <1>1, <2>1, GotoType, IdleLoopType DEF Labels
  <2> QED BY <2>1, <2>2 DEF AlertsCaused
<1>10. CASE SaveDigest
  <2>1. /\ UNCHANGED <<up, alerts, stops>> /\ mem' = [mem EXCEPT !.digest = Day]
        /\ loop' \in {IdleLoop, Goto("failure")}
    BY <1>10 DEF SaveDigest, Save
  <2>2. loop'.pc # "alert" /\ mem'.unhealthy = mem.unhealthy
    BY <1>1, <2>1, GotoType, IdleLoopType DEF Labels, State
  <2> QED BY <2>1, <2>2 DEF AlertsCaused
<1>11. CASE Restart
  <2>1. ~up /\ loop' = IdleLoop /\ UNCHANGED <<alerts, stops>>
    BY <1>11 DEF Restart, AtRest, seenVars
  <2>2. alerts <= stops
    BY <2>1 DEF AlertsCaused
  <2> QED BY <1>1, <2>1, <2>2, IdleLoopType DEF AlertsCaused
<1> QED BY <1>2, <1>3, <1>4, <1>6, <1>7, <1>8, <1>9, <1>10, <1>11, ApartSteps

LEMMA CausedInit == Init => CommandsCaused /\ DigestsCaused /\ AlertsCaused
<1> SUFFICES ASSUME Init PROVE CommandsCaused /\ DigestsCaused /\ AlertsCaused
  OBVIOUS
<1>1. FreshState.digest = -1 /\ FreshState.unhealthy = FALSE
  BY DEF FreshState, Never
<1>2. 0 \div DayLength \in Nat
  BY ServiceAssumption, DivMonotone
<1>3. CommandsCaused
  BY DEF Init, CommandsCaused
<1>4. DigestsCaused
  BY <1>1, <1>2, IdleLoopType DEF Init, DigestsCaused, InDay
<1>5. AlertsCaused
  BY <1>1, IdleLoopType DEF Init, AlertsCaused
<1> QED BY <1>3, <1>4, <1>5

\* If Telegram takes every reply, no command, digest or alert is repeated without
\* a failure or a stop of its own (_poll_telegram, _maybe_send_digest,
\* _record_service_failure).
THEOREM RepeatsAreCaused == Refused = {} => (Spec => []RepeatsHaveCause)
<1> SUFFICES ASSUME Refused = {} PROVE Spec => []RepeatsHaveCause
  OBVIOUS
<1> DEFINE Caused == CommandsCaused /\ DigestsCaused /\ AlertsCaused
<1>1. ServiceTypes /\ ServiceTypes' /\ AtRest /\ Caused /\ [Next]_vars => Caused'
  BY CommandsCausedStep, DigestsCausedStep, AlertsCausedStep
<1>2. Caused => RepeatsHaveCause
  BY DEF CommandsCaused, DigestsCaused, AlertsCaused, RepeatsHaveCause
<1>3. Init => Caused
  BY CausedInit
<1> HIDE DEF Caused
<1>4. Spec => []Caused
  BY <1>1, <1>3, ServiceInStep, PTL DEF Spec
<1> QED BY <1>2, <1>4, PTL
=============================================================================
