---------------------------- MODULE JournalSync ----------------------------
(***************************************************************************)
(* The journal replay library: sync_batch exports a run of the device's    *)
(* mutation_journal and replays it on a replica, process_sync_request      *)
(* replays the rows of an HTTP body, and both go through                   *)
(* ReplicaApplier::apply_entry, which looks a sequence up before it opens  *)
(* the transaction that replays the row and records it.  Several callers   *)
(* work on one replica; each apply opens its own connection.               *)
(*                                                                         *)
(* One device and one store.  A payload is a value, compared by equality   *)
(* where the code compares SHA-256 digests.  The route that would call     *)
(* process_sync_request is disabled in the server: the callers' use of     *)
(* next_sequence is modelled as a loop that advances after a clean reply.  *)
(*                                                                         *)
(* Definitions marked "Mutant" are faulty variants of the definition after *)
(* them: they are in no specification, and show that a property can fail.  *)
(***************************************************************************)
EXTENDS Integers, Sequences, FiniteSets

CONSTANTS
  Payloads,    \* bytes of journal rows
  Garbled,     \* what stands for text that is not hexadecimal
  Callers,     \* threads calling sync_batch or process_sync_request
  MaxBatch,    \* SyncBatchRequest.max_batch
  MaxSeq,      \* bound: rows of the journal
  MaxFail,     \* bound: failed replays, crashes and damage to the journal
  None

ASSUME BatchAssumption == MaxBatch \in Nat \ {0}
ASSUME BoundAssumption == MaxSeq \in Nat /\ MaxFail \in Nat
ASSUME SentinelAssumption == None \notin Payloads /\ Garbled \notin Payloads \cup {None}

VARIABLES
  source,   \* mutation_journal of the device
  rows,     \* mutation_journal of the replica
  effects,  \* how often the replay of a sequence was committed
  pc, call, pos, synced, errors,   \* each caller: a call under way
  cursor,   \* where each caller starts its next sync_batch
  fails     \* how much of MaxFail is used

replicaVars == <<rows, effects>>
callVars == <<pc, call, pos, synced, errors>>
vars == <<source, replicaVars, callVars, cursor, fails>>

Seqs == 1..MaxSeq
Entry == [seq: Seqs, payload: Payloads \cup {Garbled}]
Call == [kind: {"batch", "request"}, start: Nat, entries: Seq(Entry)]

Init ==
  /\ source = [s \in Seqs |-> None]
  /\ rows = [s \in Seqs |-> None]
  /\ effects = [s \in Seqs |-> 0]
  /\ pc = [c \in Callers |-> "idle"]
  /\ call = [c \in Callers |-> None]
  /\ pos = [c \in Callers |-> 0]
  /\ synced = [c \in Callers |-> 0]
  /\ errors = [c \in Callers |-> 0]
  /\ cursor = [c \in Callers |-> 1]
  /\ fails = 0

Fail == fails < MaxFail /\ fails' = fails + 1

-----------------------------------------------------------------------------
\* The device's own journal.
RecordRow(s, p) ==
  /\ source[s] = None /\ (s > 1 => source[s - 1] # None)
  /\ source' = [source EXCEPT ![s] = p]
  /\ UNCHANGED <<replicaVars, callVars, cursor, fails>>

\* A row is missing, or the device was restored and wrote other rows.
DamageJournal(s, p) ==
  /\ Fail
  /\ source[s] # None /\ p # source[s]
  /\ source' = [source EXCEPT ![s] = p]
  /\ UNCHANGED <<replicaVars, callVars, cursor>>

-----------------------------------------------------------------------------
\* The export goes on from row to row until one is missing or the batch is full.
StopsAfter(from, n) ==
  /\ \A k \in 0..(n - 1) : from + k \in Seqs /\ source[from + k] # None
  /\ n < MaxBatch /\ from + n \in Seqs => source[from + n] = None

Export(from, n) ==
  [k \in 1..n |-> [seq |-> from + k - 1, payload |-> source[from + k - 1]]]

Start(c, new) ==
  /\ pc[c] = "idle"
  /\ call' = [call EXCEPT ![c] = new]
  /\ pc' = [pc EXCEPT ![c] = "next"]
  /\ pos' = [pos EXCEPT ![c] = 1]
  /\ synced' = [synced EXCEPT ![c] = 0]
  /\ errors' = [errors EXCEPT ![c] = 0]
  /\ UNCHANGED <<source, replicaVars, cursor, fails>>

SyncBatch(c) ==
  \E n \in 0..MaxBatch :
    /\ StopsAfter(cursor[c], n)
    /\ Start(c, [kind |-> "batch", start |-> cursor[c], entries |-> Export(cursor[c], n)])

\* The body of a POST: rows of the journal, one of them perhaps not decodable,
\* in an order and with a start_sequence of the caller's choice.
ProcessSyncRequest(c, start, seqs, bad) ==
  /\ \A k \in DOMAIN seqs : source[seqs[k]] # None
  /\ Start(c, [kind |-> "request", start |-> start,
               entries |-> [k \in DOMAIN seqs |->
                 [seq |-> seqs[k], payload |-> IF bad = k THEN Garbled ELSE source[seqs[k]]]]])

Current(c) == call[c].entries[pos[c]]
Working(c) == pc[c] = "next" /\ pos[c] <= Len(call[c].entries)

\* Mutant: a failed entry is skipped without an error.
CountedSilently(c, ok) ==
  /\ synced' = IF ok THEN [synced EXCEPT ![c] = @ + 1] ELSE synced
  /\ pos' = [pos EXCEPT ![c] = @ + 1]
  /\ pc' = [pc EXCEPT ![c] = "next"]
  /\ UNCHANGED <<errors, call, source, cursor>>

Counted(c, ok) ==
  /\ synced' = IF ok THEN [synced EXCEPT ![c] = @ + 1] ELSE synced
  /\ errors' = IF ok THEN errors ELSE [errors EXCEPT ![c] = @ + 1]
  /\ pos' = [pos EXCEPT ![c] = @ + 1]
  /\ pc' = [pc EXCEPT ![c] = "next"]
  /\ UNCHANGED <<call, source, cursor>>

DecodeFails(c) ==
  /\ Working(c) /\ Current(c).payload = Garbled
  /\ Counted(c, FALSE)
  /\ UNCHANGED <<replicaVars, fails>>

\* Mutant: a row that is there counts as applied, whatever its payload.
CheckAnyPayload(c) ==
  LET e == Current(c) IN
  /\ Working(c) /\ e.payload # Garbled
  /\ IF rows[e.seq] = None
       THEN pc' = [pc EXCEPT ![c] = "apply"] /\ UNCHANGED <<call, pos, synced, errors, source, cursor>>
       ELSE Counted(c, TRUE)
  /\ UNCHANGED <<replicaVars, fails>>

\* apply_entry, before its transaction: AlreadyApplied, or a payload mismatch.
CheckApplied(c) ==
  LET e == Current(c) IN
  /\ Working(c) /\ e.payload # Garbled
  /\ IF rows[e.seq] = None
       THEN pc' = [pc EXCEPT ![c] = "apply"] /\ UNCHANGED <<call, pos, synced, errors, source, cursor>>
       ELSE Counted(c, rows[e.seq] = e.payload)
  /\ UNCHANGED <<replicaVars, fails>>

\* Mutant: the replay is committed on its own, before the row is recorded.
ReplayOutsideTransaction(c) ==
  LET e == Current(c) IN
  /\ pc[c] = "apply"
  /\ effects' = [effects EXCEPT ![e.seq] = @ + 1]
  /\ rows' = IF rows[e.seq] = None THEN [rows EXCEPT ![e.seq] = e.payload] ELSE rows
  /\ Counted(c, rows[e.seq] = None)
  /\ UNCHANGED fails

\* apply_entry's transaction: replay and INSERT commit together.  When another
\* caller recorded the sequence since CheckApplied, the unique index on
\* (device, store, sequence) makes the INSERT fail and the replay is undone.
ApplyTransaction(c) ==
  LET e == Current(c) IN
  /\ pc[c] = "apply"
  /\ IF rows[e.seq] = None
       THEN /\ rows' = [rows EXCEPT ![e.seq] = e.payload]
            /\ effects' = [effects EXCEPT ![e.seq] = @ + 1]
       ELSE UNCHANGED replicaVars
  /\ Counted(c, rows[e.seq] = None)
  /\ UNCHANGED fails

\* The replay, the INSERT or the COMMIT fails: the transaction is rolled back.
ApplyFails(c) ==
  /\ Fail
  /\ pc[c] = "apply"
  /\ Counted(c, FALSE)
  /\ UNCHANGED replicaVars

\* Mutant: one past the sequence that follows the last entry.
NextSequenceOffByOne(c) ==
  LET n == Len(call[c].entries) IN call[c].start + (IF n = 0 THEN 0 ELSE n + 1)

\* sync_batch returns the sequence after the last one of its export.  What
\* process_sync_request returns is for its own caller, who is not modelled.
NextSequence(c) == call[c].start + Len(call[c].entries)

Finished(c) == pc[c] = "next" /\ pos[c] > Len(call[c].entries)

Leave(c) ==
  /\ pc' = [pc EXCEPT ![c] = "idle"]
  /\ call' = [call EXCEPT ![c] = None]
  /\ pos' = [pos EXCEPT ![c] = 0]
  /\ synced' = [synced EXCEPT ![c] = 0]
  /\ errors' = [errors EXCEPT ![c] = 0]
  /\ UNCHANGED <<source, replicaVars>>

\* The caller of sync_batch goes on from next_sequence after a clean result
\* and otherwise repeats the batch.
Return(c) ==
  /\ Finished(c)
  /\ cursor' = IF call[c].kind = "batch" /\ errors[c] = 0
                 THEN [cursor EXCEPT ![c] = NextSequence(c)] ELSE cursor
  /\ Leave(c)
  /\ UNCHANGED fails

\* The caller's process dies; what its transactions committed stays.
Crash(c) ==
  /\ Fail
  /\ pc[c] # "idle"
  /\ Leave(c)
  /\ UNCHANGED cursor

-----------------------------------------------------------------------------
Step(c) == DecodeFails(c) \/ CheckApplied(c) \/ ApplyTransaction(c) \/ Return(c)

Request(c) ==
  \E a, b \in Seqs, bad \in 0..2 : a < b /\ ProcessSyncRequest(c, a, <<a, b>>, bad)

Next ==
  \/ \E s \in Seqs, p \in Payloads : RecordRow(s, p)
  \/ \E s \in Seqs, p \in Payloads \cup {None} : DamageJournal(s, p)
  \/ \E c \in Callers : SyncBatch(c) \/ Request(c) \/ Step(c) \/ ApplyFails(c) \/ Crash(c)

Spec == Init /\ [][Next]_vars

\* A call that was made runs to its end, and sync_batch is called again and
\* again: the calls are synchronous, and a device's loop repeats them.
FairSpec == Spec /\ \A c \in Callers : WF_vars(Step(c)) /\ SF_vars(SyncBatch(c))

-----------------------------------------------------------------------------
TypeOK ==
  /\ source \in [Seqs -> Payloads \cup {None}]
  /\ rows \in [Seqs -> Payloads \cup {None}]
  /\ effects \in [Seqs -> Nat]
  /\ pc \in [Callers -> {"idle", "next", "apply"}]
  /\ call \in [Callers -> Call \cup {None}]
  /\ pos \in [Callers -> Nat] /\ synced \in [Callers -> Nat] /\ errors \in [Callers -> Nat]
  /\ cursor \in [Callers -> Nat \ {0}]
  /\ fails \in 0..MaxFail
  /\ \A c \in Callers : pc[c] # "idle" =>
       /\ call[c] \in Call
       /\ pos[c] \in 1..(Len(call[c].entries) + (IF pc[c] = "next" THEN 1 ELSE 0))
       /\ synced[c] + errors[c] = pos[c] - 1

\* A recorded sequence was replayed exactly once and no other was replayed,
\* although callers race between the lookup and the transaction of apply_entry.
ReplayedOnce == \A s \in Seqs : effects[s] = IF rows[s] = None THEN 0 ELSE 1

\* What callers were told is durable.  The entries a call has counted as synced
\* are on the replica with the payload they were sent with, also when the device
\* was restored and another caller sent another payload for one of them; and a
\* caller of sync_batch that goes on after clean results only leaves no sequence
\* out: everything before its cursor is on the replica.
SyncedIsDurable ==
  /\ \A c \in Callers : pc[c] # "idle" =>
       synced[c] <= Cardinality({k \in 1..(pos[c] - 1) :
                                   LET e == call[c].entries[k] IN rows[e.seq] = e.payload})
  /\ \A c \in Callers : \A s \in Seqs : s < cursor[c] => rows[s] # None

\* Once the journal has no gap and agrees with the replica, all of it is
\* replayed in the end, through failed replays, crashes and racing callers.
EventuallySynced ==
  <>[](\A s \in Seqs :
         /\ source[s] # None /\ s > 1 => source[s - 1] # None
         /\ rows[s] # None => rows[s] = source[s])
  => <>[](\A s \in Seqs : source[s] # None => rows[s] = source[s])
-----------------------------------------------------------------------------
\* The inductive invariant: a transaction is entered with bytes, and a batch is
\* the run of rows that starts at its caller's cursor.
CallInv ==
  \A c \in Callers : pc[c] # "idle" =>
    /\ pc[c] = "apply" => Current(c).payload # Garbled
    /\ call[c].kind = "batch" =>
         /\ call[c].start = cursor[c]
         /\ \A k \in 1..Len(call[c].entries) : call[c].entries[k].seq = cursor[c] + k - 1

IInv == TypeOK /\ ReplayedOnce /\ CallInv /\ SyncedIsDurable
=============================================================================
