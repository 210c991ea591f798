------------------------- MODULE OwnerOnlyFileProofs -------------------------
(***************************************************************************)
(* For any writers, readers and payloads: the private file, written in     *)
(* steps that may fail or be cut short anywhere, is a register.            *)
(***************************************************************************)
EXTENDS OwnerOnlyFile, TLAPS

\* A file whose data are on disk, and are the whole of a payload.
Whole == {f \in File : f.value \in Values /\ f.synced}

Labels == {"done", "create", "fill", "sync", "replace", "chmod", "cleanup"}

Outcomes == {"idle", "begun", "stored", "failed"}

\* Where _write is, and what it has not done yet, go together.
ProgressOK(w) ==
  /\ writer[w] \in {"create", "fill", "sync", "replace"}
       => outcome[w] = "begun" /\ put[w] \in Values
  /\ writer[w] \notin {"create", "fill", "sync", "replace"} => put[w] = NoFile
  /\ writer[w] = "chmod" => outcome[w] = "begun"
  /\ writer[w] = "cleanup" => outcome[w] \in {"stored", "failed"}
  /\ writer[w] = "done" => outcome[w] \in {"idle", "stored", "failed"}

\* The temporary file that is about to be renamed is whole.
TempOK(w) ==
  /\ writer[w] = "fill" => temp[w] \in File
  /\ writer[w] = "sync" => temp[w] \in File /\ temp[w].value = put[w]
  /\ writer[w] = "replace" => temp[w] \in Whole /\ temp[w].value = put[w]

StoreInv ==
  /\ path \in Whole \cup {NoFile} /\ disk \subseteq Whole \cup {NoFile}
  /\ writer \in [Writers -> Labels] /\ outcome \in [Writers -> Outcomes]
  /\ put \in [Writers -> Values \cup {NoFile}]
  /\ temp \in [Writers -> File \cup {NoFile}]
  /\ got \in [Readers -> Values \cup {"nothing", "unavailable"}]
  /\ \A w \in Writers : ProgressOK(w) /\ TempOK(w)

\* A loss of power does no harm to a file that was on disk.
LEMMA WholeSurvives ==
  /\ NoFile \notin Whole
  /\ \A f \in Whole \cup {NoFile} : Survivor(f) = f
BY FileAssumption DEF Whole, Survivor

LEMMA StoreInit_Inv == StoreInit => StoreInv
BY DEF StoreInit, StoreInv, ProgressOK, TempOK, Labels, Outcomes

\* A step of one writer leaves the others where they are.
LEMMA WriteStepKeepsInv ==
  ASSUME StoreInv, NEW w \in Writers, WriteStep(w) \/ \E v \in Values : Begin(w, v)
  PROVE  StoreInv'
<1> USE DEF StoreInv, Labels, Outcomes
<1>1. CASE \E v \in Values : Begin(w, v)
  BY <1>1, FileAssumption DEF Begin, Writes, ProgressOK, TempOK, fileVars, readVars
<1>2. CASE Create(w)
  BY <1>2 DEF Create, Writes, ProgressOK, TempOK, fileVars, readVars, File
<1>3. CASE Fill(w)
  BY <1>3 DEF Fill, Writes, ProgressOK, TempOK, fileVars, readVars, File
<1>4. CASE Sync(w)
  <2>1. temp[w] \in File /\ temp[w].value = put[w] /\ put[w] \in Values
        /\ writer[w] = "sync"
    BY <1>4 DEF Sync, Writes, ProgressOK, TempOK
  <2>2. [temp[w] EXCEPT !.synced = TRUE] \in Whole
        /\ [temp[w] EXCEPT !.synced = TRUE].value = put[w]
    BY <2>1 DEF File, Whole
  <2>3. temp'[w] \in Whole /\ temp'[w].value = put'[w]
        /\ temp' \in [Writers -> File \cup {NoFile}]
    BY <1>4, <2>2 DEF Sync, Writes, Whole
  <2> QED BY <1>4, <2>1, <2>3 DEF Sync, Writes, ProgressOK, TempOK, fileVars, readVars
<1>5. CASE Replace(w)
  BY <1>5 DEF Replace, Writes, ProgressOK, TempOK, readVars
<1>6. CASE Chmod(w)
  <2>1. \A f \in Whole : [f EXCEPT !.private = TRUE] \in Whole
    BY DEF Whole, File
  <2>2. path' \in Whole \cup {NoFile}
    BY <1>6, <2>1 DEF Chmod
  <2> QED BY <1>6, <2>2 DEF Chmod, Writes, ProgressOK, TempOK, readVars
<1>7. CASE WriteFails(w)
  BY <1>7 DEF WriteFails, ProgressOK, TempOK, fileVars, readVars
<1>8. CASE Cleanup(w)
  BY <1>8 DEF Cleanup, Writes, ProgressOK, TempOK, readVars
<1>9. CASE Kill(w)
  BY <1>9 DEF Kill, ProgressOK, TempOK, readVars
<1> QED BY <1>1, <1>2, <1>3, <1>4, <1>5, <1>6, <1>7, <1>8, <1>9 DEF WriteStep

LEMMA StoreNext_Inv == StoreInv /\ [StoreNext]_storeVars => StoreInv'
<1> SUFFICES ASSUME StoreInv, [StoreNext]_storeVars PROVE StoreInv'
  OBVIOUS
<1>1. CASE \E w \in Writers : (\E v \in Values : Begin(w, v)) \/ WriteStep(w)
  BY <1>1, WriteStepKeepsInv
<1>2. CASE \E r \in Readers : Stat(r) \/ Open(r) \/ Forget(r)
  <2>1. path.value # Torn /\ path # NoFile => path.value \in Values
    BY DEF StoreInv, Whole
  <2> QED BY <1>2, <2>1 DEF Stat, Open, Forget, StoreInv, ProgressOK, TempOK, fileVars, writeVars
<1>3. CASE Clear
  BY <1>3 DEF Clear, StoreInv, ProgressOK, TempOK, writeVars, readVars
<1>4. CASE Broaden
  <2>1. path' \in Whole BY <1>4 DEF Broaden, StoreInv, Whole, File
  <2> QED BY <1>4, <2>1 DEF Broaden, StoreInv, ProgressOK, TempOK, writeVars, readVars
<1>5. CASE Settle
  BY <1>5 DEF Settle, StoreInv, ProgressOK, TempOK, writeVars, readVars
<1>6. CASE LosePower
  <2>1. PICK f \in disk : path' = f /\ disk' = {f}
    BY <1>6, WholeSurvives DEF LosePower, StoreInv
  <2> QED BY <1>6, <2>1 DEF LosePower, StoreInv, ProgressOK, TempOK, Labels, Outcomes
<1>7. CASE UNCHANGED storeVars
  BY <1>7 DEF storeVars, fileVars, writeVars, readVars, StoreInv, ProgressOK, TempOK
<1> QED BY <1>1, <1>2, <1>3, <1>4, <1>5, <1>6, <1>7 DEF StoreNext

\* Whatever the writers do and however they end, the path names a whole payload
\* or nothing, now and after a loss of power.
THEOREM FileIsWhole == StoreSpec => []StoreInv
BY StoreInit_Inv, StoreNext_Inv, PTL DEF StoreSpec

-----------------------------------------------------------------------------
\* What the file means for the register (StageOf and ValueOf are the mapping).
Kept == {ValueOf(Survivor(f)) : f \in disk}

Stage == [w \in Writers |-> StageOf(w)]

\* A writer's step changes its own stage, and the others keep theirs.
LEMMA OthersKeepStage ==
  ASSUME NEW w \in Writers, StoreInv, StoreInv',
         \A u \in Writers \ {w} : writer'[u] = writer[u] /\ outcome'[u] = outcome[u]
  PROVE  Stage' = [Stage EXCEPT ![w] = StageOf(w)']
BY DEF Stage, StageOf

LEMMA WriteStepRefines ==
  ASSUME StoreInv, StoreInv', NEW w \in Writers,
         WriteStep(w) \/ \E v \in Values : Begin(w, v)
  PROVE  Register!Next \/ UNCHANGED Register!vars
<1> USE DEF StoreInv, Labels, Outcomes
<1> DEFINE same == path' = path /\ disk' = disk
<1>1. same => ValueOf(path)' = ValueOf(path) /\ Kept' = Kept
  BY DEF Kept, ValueOf, Survivor
<1>2. \A u \in Writers \ {w} : writer'[u] = writer[u] /\ outcome'[u] = outcome[u]
  BY DEF WriteStep, Begin, Create, Fill, Sync, Replace, Chmod, WriteFails, Cleanup, Kill, Writes
<1>3. Stage' = [Stage EXCEPT ![w] = StageOf(w)'] BY <1>2, OthersKeepStage
<1>4. ProgressOK(w) /\ TempOK(w) OBVIOUS
<1>5. CASE \E v \in Values : Begin(w, v)
  <2>1. Register!Begin(w)
    BY <1>1, <1>3, <1>4, <1>5
       DEF Begin, Writes, fileVars, readVars, ProgressOK, Register!Begin, Stage, StageOf, Kept
  <2> QED BY <2>1 DEF Register!Next
<1>6. CASE Create(w) \/ Fill(w) \/ Sync(w) \/ Cleanup(w)
  <2>1. same /\ put' = put /\ got' = got
    BY <1>6 DEF Create, Fill, Sync, Cleanup, fileVars, readVars
  <2>2. StageOf(w)' = StageOf(w)
    BY <1>4, <1>6 DEF Create, Fill, Sync, Cleanup, Writes, StageOf, ProgressOK
  <2>3. Stage' = Stage BY <1>3, <2>2 DEF Stage
  <2> QED BY <1>1, <2>1, <2>3 DEF Register!vars, Stage, Kept
<1>7. CASE Replace(w)
  <2>1. StageOf(w) = "begun" /\ StageOf(w)' = "placed"
    BY <1>4, <1>7 DEF Replace, Writes, StageOf, ProgressOK
  <2>2. temp[w] \in Whole /\ temp[w].value = put[w] /\ temp[w] # NoFile
    BY <1>4, <1>7, WholeSurvives DEF Replace, Writes, TempOK
  <2>3. ValueOf(path)' = put[w] BY <1>7, <2>2 DEF Replace, ValueOf
  <2>4. Kept' = Kept \cup {put[w]}
    BY <1>7, <2>2, WholeSurvives DEF Replace, Kept, ValueOf
  <2>5. put' = [put EXCEPT ![w] = NoFile] /\ got' = got BY <1>7 DEF Replace, readVars
  <2>6. Register!Place(w)
    BY <1>3, <2>1, <2>3, <2>4, <2>5 DEF Register!Place, Stage, Kept
  <2> QED BY <2>6 DEF Register!Next
<1>8. CASE Chmod(w) \/ WriteFails(w)
  <2>1. disk' = disk /\ got' = got BY <1>8 DEF Chmod, WriteFails, fileVars, readVars
  <2>2. ValueOf(path)' = ValueOf(path)
    <3>1. CASE path' = path BY <3>1 DEF ValueOf
    <3>2. CASE path # NoFile /\ path' = [path EXCEPT !.private = TRUE]
      <4>1. path' \in Whole /\ path'.value = path.value BY <3>2 DEF Whole, File
      <4> QED BY <3>2, <4>1, WholeSurvives DEF ValueOf
    <3> QED BY <1>8, <3>1, <3>2 DEF Chmod, WriteFails, fileVars
  <2>3. Kept' = Kept BY <2>1 DEF Kept, ValueOf, Survivor
  <2>4. put' = [put EXCEPT ![w] = NoFile]
    BY <1>4, <1>8 DEF Chmod, WriteFails, Writes, ProgressOK
  <2>5. \/ StageOf(w) = "placed" /\ StageOf(w)' = "stored"
        \/ StageOf(w) \in {"begun", "placed"} /\ StageOf(w)' = "failed"
    BY <1>4, <1>8 DEF Chmod, WriteFails, Writes, StageOf, ProgressOK
  <2>6. Register!Answer(w)
    BY <1>3, <2>1, <2>2, <2>3, <2>4, <2>5 DEF Register!Answer, Stage, Kept
  <2> QED BY <2>6 DEF Register!Next
<1>9. CASE Kill(w)
  <2>1. Register!Die(w)
    BY <1>1, <1>3, <1>9 DEF Kill, readVars, Register!Die, Stage, StageOf, Kept
  <2> QED BY <2>1 DEF Register!Next
<1> QED BY <1>5, <1>6, <1>7, <1>8, <1>9 DEF WriteStep

LEMMA ReadStepRefines ==
  ASSUME StoreInv, NEW r \in Readers, Stat(r) \/ Open(r) \/ Forget(r)
  PROVE  Register!Next \/ UNCHANGED Register!vars
<1>1. path' = path /\ disk' = disk /\ put' = put /\ Kept' = Kept /\ Stage' = Stage
  BY DEF Stat, Open, Forget, fileVars, writeVars, Kept, Stage, StageOf, ValueOf, Survivor
<1>2. ValueOf(path)' = ValueOf(path) BY <1>1 DEF ValueOf
<1>3. path # NoFile => ValueOf(path) = path.value /\ path.value \in Values
  BY DEF StoreInv, Whole, ValueOf
<1>4. CASE got' = got
  BY <1>1, <1>2, <1>4 DEF Register!vars, Kept, Stage
<1>5. CASE \E v \in {ValueOf(path), "unavailable", "nothing"} \ {NoFile} :
             got' = [got EXCEPT ![r] = v]
  <2>1. Register!Get(r) BY <1>1, <1>2, <1>5 DEF Register!Get, Kept, Stage
  <2> QED BY <2>1 DEF Register!Next
<1> QED BY <1>3, <1>4, <1>5, FileAssumption DEF Stat, Open, Forget

LEMMA StepRefines ==
  StoreInv /\ StoreInv' /\ [StoreNext]_storeVars => [Register!Next]_(Register!vars)
<1> SUFFICES ASSUME StoreInv, StoreInv', [StoreNext]_storeVars
             PROVE  Register!Next \/ UNCHANGED Register!vars
  OBVIOUS
<1>1. CASE \E w \in Writers : (\E v \in Values : Begin(w, v)) \/ WriteStep(w)
  BY <1>1, WriteStepRefines
<1>2. CASE \E r \in Readers : Stat(r) \/ Open(r) \/ Forget(r)
  BY <1>2, ReadStepRefines
<1>3. CASE Clear
  <2>1. Stage' = Stage /\ put' = put /\ got' = got
    BY <1>3 DEF Clear, writeVars, readVars, Stage, StageOf
  <2>2. ValueOf(path)' = NoFile /\ Kept' = Kept \cup {NoFile}
    BY <1>3 DEF Clear, Kept, ValueOf, Survivor
  <2>3. Register!Remove BY <2>1, <2>2 DEF Register!Remove, Stage, Kept
  <2> QED BY <2>3 DEF Register!Next
<1>4. CASE Broaden
  <2>1. ValueOf(path)' = ValueOf(path)
    <3>1. \A f \in Whole : [f EXCEPT !.private = FALSE] \in Whole
                           /\ [f EXCEPT !.private = FALSE].value = f.value
      BY DEF Whole, File
    <3>2. path \in Whole /\ path' = [path EXCEPT !.private = FALSE]
      BY <1>4 DEF Broaden, StoreInv
    <3> QED BY <3>1, <3>2, WholeSurvives DEF ValueOf
  <2>2. Kept' = Kept /\ Stage' = Stage /\ put' = put /\ got' = got
    BY <1>4 DEF Broaden, writeVars, readVars, Kept, ValueOf, Survivor, Stage, StageOf
  <2> QED BY <2>1, <2>2 DEF Register!vars, Kept, Stage
<1>5. CASE Settle
  <2>1. Stage' = Stage /\ put' = put /\ got' = got /\ ValueOf(path)' = ValueOf(path)
    BY <1>5 DEF Settle, writeVars, readVars, Stage, StageOf, ValueOf
  <2>2. Kept' = {ValueOf(path)}
    <3>1. disk' = {path} /\ path' = path BY <1>5 DEF Settle
    <3>2. Kept' = {ValueOf(Survivor(path))} BY <3>1 DEF Kept, ValueOf, Survivor
    <3> QED BY <3>2, WholeSurvives DEF StoreInv
  <2>3. Register!Settle BY <2>1, <2>2 DEF Register!Settle, Stage, Kept
  <2> QED BY <2>3 DEF Register!Next
<1>6. CASE LosePower
  <2>1. PICK f \in disk : path' = f /\ disk' = {f} /\ Survivor(f) = f
    BY <1>6, WholeSurvives DEF LosePower, StoreInv
  <2>2. ValueOf(path)' = ValueOf(f) /\ ValueOf(f) \in Kept
    BY <2>1 DEF Kept, ValueOf
  <2>3. Kept' = {ValueOf(path)'} BY <2>1 DEF Kept, ValueOf, Survivor
  <2>4. Stage' = [w \in Writers |-> "idle"]
    BY <1>6 DEF LosePower, Stage, StageOf
  <2>5. Register!LosePower
    BY <1>6, <2>2, <2>3, <2>4 DEF LosePower, Register!LosePower, Stage, Kept
  <2> QED BY <2>5 DEF Register!Next
<1>7. CASE UNCHANGED storeVars
  BY <1>7 DEF storeVars, fileVars, writeVars, readVars, Register!vars, ValueOf, Survivor,
              StageOf
<1> QED BY <1>1, <1>2, <1>3, <1>4, <1>5, <1>6, <1>7 DEF StoreNext

\* Nobody can tell the file from a register: a write that interleaves with
\* others, fails, is killed or loses power takes effect as a whole or not at
\* all, and success is reported only of one that did.
THEOREM FileIsRegister == StoreSpec => RegisterSpec
<1>1. StoreInit => Register!Init
  BY FileAssumption DEF StoreInit, Register!Init, ValueOf, Survivor, StageOf
<1> QED BY <1>1, StepRefines, StoreInit_Inv, StoreNext_Inv, PTL
        DEF StoreSpec, RegisterSpec, Register!Spec
=============================================================================
