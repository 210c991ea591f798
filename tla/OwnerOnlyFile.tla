---------------------------- MODULE OwnerOnlyFile ----------------------------
(***************************************************************************)
(* The way the program keeps a private file, here that of the ESPN session *)
(* (session.py: ESPNSessionStore): a writer fills a temporary file beside  *)
(* it, forces it to disk and renames it over the old one; a reader looks   *)
(* at the permissions, then opens what the path names; the owner may       *)
(* remove the file at any time.                                            *)
(*                                                                         *)
(* JsonOperationalStateStore (service.py) and _write_metadata              *)
(* (onboarding.py) write their files by the same steps.                    *)
(*                                                                         *)
(* A file that a path names never changes its content; so an open file is  *)
(* the content it had when it was opened, and needs no identity.           *)
(***************************************************************************)
EXTENDS Integers, FiniteSets

CONSTANTS
  Writers, Readers,
  Values,      \* the payloads there are
  NoFile,      \* the path names nothing
  Torn,        \* a part of a payload
  MaxFaults,   \* bound on calls of the system that fail, and on meddling
  MaxCrashes   \* bound on killed writers and losses of power

File == [value : Values \cup {Torn}, private : BOOLEAN, synced : BOOLEAN]

ASSUME FileAssumption ==
  /\ NoFile \notin File /\ NoFile \notin Values /\ Torn \notin Values
  /\ NoFile # "nothing" /\ NoFile # "unavailable"
  /\ MaxFaults \in Nat /\ MaxCrashes \in Nat

VARIABLES
  path,     \* the file at the path
  disk,     \* what a loss of power may leave at the path
  writer,       \* per writer: where _write is
  put,      \* per writer: the payload it has not put at the path yet, or NoFile
  temp,     \* per writer: its temporary file
  outcome,   \* per writer: "idle", "begun", "stored" or "failed"
  strays,   \* temporary files nothing will ever remove
  reading,  \* per reader: "no" or "open"
  got,      \* per reader: "nothing" yet, a payload, or "unavailable"
  storeFaults, crashes

fileVars == <<path, disk, strays>>
writeVars == <<writer, put, temp, outcome>>
readVars == <<reading, got>>
storeVars == <<fileVars, writeVars, readVars, storeFaults, crashes>>

-----------------------------------------------------------------------------
StoreInit ==
  /\ path = NoFile /\ disk = {NoFile} /\ strays = 0
  /\ writer = [w \in Writers |-> "done"]
  /\ put = [w \in Writers |-> NoFile]
  /\ temp = [w \in Writers |-> NoFile]
  /\ outcome = [w \in Writers |-> "idle"]
  /\ reading = [r \in Readers |-> "no"]
  /\ got = [r \in Readers |-> "nothing"]
  /\ storeFaults = 0 /\ crashes = 0

\* A step of the writer: it goes on at label with the temporary file t.
Writes(w, from, to, t) ==
  /\ writer[w] = from
  /\ writer' = [writer EXCEPT ![w] = to]
  /\ temp' = [temp EXCEPT ![w] = t]

\* capture, of cookies that are complete (others change nothing).
Begin(w, v) ==
  /\ Writes(w, "done", "create", NoFile)
  /\ put' = [put EXCEPT ![w] = v]
  /\ outcome' = [outcome EXCEPT ![w] = "begun"]
  /\ UNCHANGED <<fileVars, readVars, storeFaults, crashes>>

Create(w) ==
  /\ Writes(w, "create", "fill", [value |-> Torn, private |-> TRUE, synced |-> FALSE])
  /\ UNCHANGED <<fileVars, put, outcome, readVars, storeFaults, crashes>>

\* Mutation: the data are left to the system's own time.
Fill_Unsynced(w) ==
  /\ Writes(w, "fill", "replace", [temp[w] EXCEPT !.value = put[w]])
  /\ UNCHANGED <<fileVars, put, outcome, readVars, storeFaults, crashes>>

Fill(w) ==
  /\ Writes(w, "fill", "sync", [temp[w] EXCEPT !.value = put[w]])
  /\ UNCHANGED <<fileVars, put, outcome, readVars, storeFaults, crashes>>

Sync(w) ==
  /\ Writes(w, "sync", "replace", [temp[w] EXCEPT !.synced = TRUE])
  /\ UNCHANGED <<fileVars, put, outcome, readVars, storeFaults, crashes>>

\* os.replace.  Nothing forces the directory to disk.
Replace(w) ==
  /\ path' = temp[w] /\ disk' = disk \cup {temp[w]}
  /\ Writes(w, "replace", "chmod", NoFile)
  /\ put' = [put EXCEPT ![w] = NoFile]
  /\ UNCHANGED <<strays, outcome, readVars, storeFaults, crashes>>

\* os.chmod of the path, whoever's file is there by now, or none.
Chmod(w) ==
  /\ Writes(w, "chmod", "cleanup", NoFile)
  /\ IF path = NoFile
     THEN outcome' = [outcome EXCEPT ![w] = "failed"] /\ UNCHANGED path
     ELSE /\ outcome' = [outcome EXCEPT ![w] = "stored"]
          /\ path' = [path EXCEPT !.private = TRUE]
  /\ UNCHANGED <<disk, strays, put, readVars, storeFaults, crashes>>

\* A call of the system in _write raises.
WriteFails(w) ==
  /\ writer[w] \in {"create", "fill", "sync", "replace", "chmod"} /\ storeFaults < MaxFaults
  /\ storeFaults' = storeFaults + 1
  /\ writer' = [writer EXCEPT ![w] = "cleanup"]
  /\ outcome' = [outcome EXCEPT ![w] = "failed"]
  /\ put' = [put EXCEPT ![w] = NoFile]
  /\ UNCHANGED <<fileVars, temp, readVars, crashes>>

\* The finally clause, which never raises.
Cleanup(w) ==
  /\ \/ strays' = strays /\ UNCHANGED storeFaults
     \/ temp[w] # NoFile /\ storeFaults < MaxFaults
        /\ strays' = strays + 1 /\ storeFaults' = storeFaults + 1
  /\ Writes(w, "cleanup", "done", NoFile)
  /\ UNCHANGED <<path, disk, put, outcome, readVars, crashes>>

\* clear.
Clear ==
  /\ path' = NoFile /\ disk' = disk \cup {NoFile}
  /\ UNCHANGED <<strays, writeVars, readVars, storeFaults, crashes>>

\* Someone opens the file to others, as a restored backup may.
Broaden ==
  /\ path # NoFile /\ storeFaults < MaxFaults
  /\ storeFaults' = storeFaults + 1
  /\ path' = [path EXCEPT !.private = FALSE]
  /\ UNCHANGED <<disk, strays, writeVars, readVars, crashes>>

-----------------------------------------------------------------------------
(* _read *)

\* The permissions of what the path names.
Stat(r) ==
  /\ reading[r] = "no" /\ got[r] = "nothing"
  /\ IF path # NoFile /\ path.private
     THEN reading' = [reading EXCEPT ![r] = "open"] /\ UNCHANGED got
     ELSE got' = [got EXCEPT ![r] = "unavailable"] /\ UNCHANGED reading
  /\ UNCHANGED <<fileVars, writeVars, storeFaults, crashes>>

\* What the path names now, which must be whole to be of use.
Open(r) ==
  /\ reading[r] = "open"
  /\ reading' = [reading EXCEPT ![r] = "no"]
  /\ got' = [got EXCEPT ![r] =
       IF path # NoFile /\ path.value # Torn THEN path.value ELSE "unavailable"]
  /\ UNCHANGED <<fileVars, writeVars, storeFaults, crashes>>

\* The caller has used what it got, or dies.
Forget(r) ==
  /\ reading' = [reading EXCEPT ![r] = "no"]
  /\ got' = [got EXCEPT ![r] = "nothing"]
  /\ UNCHANGED <<fileVars, writeVars, storeFaults, crashes>>

-----------------------------------------------------------------------------
(* The system *)

Abandoned(W) == strays + Cardinality({w \in W : temp[w] # NoFile})

\* A writer is killed.
Kill(w) ==
  /\ writer[w] # "done" /\ crashes < MaxCrashes
  /\ crashes' = crashes + 1
  /\ strays' = Abandoned({w})
  /\ writer' = [writer EXCEPT ![w] = "done"]
  /\ temp' = [temp EXCEPT ![w] = NoFile]
  /\ outcome' = [outcome EXCEPT ![w] = "idle"]
  /\ put' = [put EXCEPT ![w] = NoFile]
  /\ UNCHANGED <<path, disk, readVars, storeFaults>>

\* What is left of a file whose data were not on disk.
Survivor(f) ==
  IF f = NoFile \/ f.synced THEN f ELSE [f EXCEPT !.value = Torn]

\* The directory reaches the disk.
Settle ==
  /\ disk # {path}
  /\ disk' = {path}
  /\ UNCHANGED <<path, strays, writeVars, readVars, storeFaults, crashes>>

LosePower ==
  /\ crashes < MaxCrashes
  /\ crashes' = crashes + 1
  /\ strays' = Abandoned(Writers)
  /\ \E f \in disk : path' = Survivor(f) /\ disk' = {Survivor(f)}
  /\ writer' = [w \in Writers |-> "done"]
  /\ temp' = [w \in Writers |-> NoFile]
  /\ outcome' = [w \in Writers |-> "idle"]
  /\ reading' = [r \in Readers |-> "no"]
  /\ put' = [w \in Writers |-> NoFile]
  /\ got' = [r \in Readers |-> "nothing"]
  /\ UNCHANGED storeFaults

WriteStep(w) ==
  \/ Create(w) \/ Fill(w) \/ Sync(w) \/ Replace(w) \/ Chmod(w) \/ WriteFails(w)
  \/ Cleanup(w) \/ Kill(w)

StoreNext ==
  \/ \E w \in Writers : (\E v \in Values : Begin(w, v)) \/ WriteStep(w)
  \/ \E r \in Readers : Stat(r) \/ Open(r) \/ Forget(r)
  \/ Clear \/ Broaden \/ Settle \/ LosePower

StoreSpec == StoreInit /\ [][StoreNext]_storeVars

-----------------------------------------------------------------------------
(* Properties *)

ValueOf(f) == IF f = NoFile THEN NoFile ELSE f.value

StageOf(w) == IF outcome[w] = "begun" /\ writer[w] = "chmod" THEN "placed" ELSE outcome[w]

Register == INSTANCE WholeFile WITH
  value <- ValueOf(path),
  kept <- {ValueOf(Survivor(f)) : f \in disk},
  stage <- [w \in Writers |-> StageOf(w)]

\* Writers that interleave, fail, are killed or lose power, and readers and
\* removals in between, cannot be told from a register: nobody reads a part of
\* a payload or a mix of two, and a capture that reports success was there.
RegisterSpec == Register!Spec
=============================================================================
