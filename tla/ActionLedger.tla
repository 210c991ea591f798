---------------------------- MODULE ActionLedger ----------------------------
(***************************************************************************)
(* The entries of the action ledger (execution.py, InMemoryActionLedger    *)
(* and JsonlActionLedger) and what a reload reconstructs from the file.    *)
(* The file is a sequence of lines: entries, or torn fragments left by an  *)
(* interrupted write.  Timestamps and payloads are abstracted away.        *)
(***************************************************************************)
EXTENDS Integers, Sequences

CONSTANTS
  Keys,     \* idempotency keys
  NoEntry,  \* "find" found nothing (None)
  NoKey     \* stands for the key of a torn line

\* ActionState: the terminal states and the internal reservation state.
TerminalStates ==
  {"rejected", "verified", "failed", "unknown_outcome", "needs_human_review"}

States == TerminalStates \cup {"in_flight"}

\* "reserved" is the event of reserve(); "phase:..." are the phase events.
Phases == {"phase:reserved", "phase:before_dispatch", "phase:dispatched",
           "phase:refreshed"}

Events == {"reserved", "authorization", "result"} \cup Phases

\* LedgerEntry.  Its result field is present exactly on "result" events,
\* whose state is that of the result.
Entry == [seq : Nat, key : Keys, event : Events, state : States]

\* A partial line: no JSON object, so no sequence number and no key.
TornLine == [seq |-> 0, key |-> NoKey, event |-> "torn", state |-> "torn"]

Line == Entry \cup {TornLine}

ASSUME SentinelsAssumption == NoKey \notin Keys /\ NoEntry \notin Entry

\* Mutations: any record, or only a confirmed write, counts as a result.
HasResult_AnyRecord(e) == e.event \in Events

HasResult_OnlyVerified(e) == e.event = "result" /\ e.state = "verified"

\* The guard of find() and reserve(): a result, in a terminal state.  The
\* "authorization" entry of a denied request is "rejected" without a result.
HasResult(e) == e.event = "result" /\ e.state \in TerminalStates

-----------------------------------------------------------------------------
\* Loading checks each line against the number of lines before it, and gives
\* up on the whole ledger at the first one that does not parse or fit.
Readable(f) == \A i \in 1 .. Len(f) : f[i] # TornLine /\ f[i].seq = i

LinesOf(f, k) == {i \in 1 .. Len(f) : f[i].key = k}

LastLine(f, k) ==
  IF LinesOf(f, k) = {} THEN NoEntry
  ELSE f[CHOOSE i \in LinesOf(f, k) : \A j \in LinesOf(f, k) : j <= i]

\* The file has such a line of the key.
Logged(f, k, event, state) ==
  \E i \in LinesOf(f, k) : f[i].event = event /\ f[i].state = state

\* The _latest index a reload of a readable file builds.
Reload(f) == [k \in Keys |-> LastLine(f, k)]

\* A write that fails leaves nothing, the whole line (flush, fsync or chmod
\* failed) or a fragment of it in the file.
AfterFailedWrite(f, line) == {f, Append(f, line), Append(f, TornLine)}
=============================================================================
