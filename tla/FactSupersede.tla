---------------------------- MODULE FactSupersede ----------------------------
(***************************************************************************)
(* The stream of one device-owned store when both families of mutations    *)
(* are served: fact_create_handler and, in the staged router,              *)
(* fact_supersede_handler.  The owner's journal is one sequence of records *)
(* of both kinds and the shard has one inbox for it, but each family has a *)
(* gate, an admission table and an acknowledgement table of its own, so    *)
(* that a request of one family runs beside a request of the other.        *)
(*                                                                         *)
(* As in FactCreateReplication a record is represented by the chain that   *)
(* ends with it, a request that does not decode or verify is left out, and *)
(* a row of an admission table is named by its key version.  The writer    *)
(* generation of a row stands for its public key and fencing token, and in *)
(* the supersede family for its store and writer epochs too.               *)
(* Authentication, the first thing both handlers do, is left to that       *)
(* module: here every request is one of an active device.                  *)
(*                                                                         *)
(* Definitions marked "Mutant" are faulty variants of the definition after *)
(* them: they are in no specification, and show that a property can fail.  *)
(***************************************************************************)
EXTENDS Integers, Sequences, FiniteSets

CONSTANTS
  Facts,            \* fact ids the owner draws
  Epochs,           \* owner stream epochs
  Keys,             \* signer key versions
  Generations,      \* writer generations a key was admitted for
  Times,            \* observed_at values and admission windows
  Rows,             \* what the operator writes in an admission table
  BatchIds,
  MaxRecords,       \* bound: length of a chain
  MaxPosted,        \* bound: different batches
  MaxIrregular,     \* bound: batches that are not the next ones of one journal
  MaxDisturb,       \* bound: failures and operator actions
  CliWhileServing,  \* mnemes-admin is run on the data of a live server
  None

ASSUME EpochAssumption == Epochs \subseteq Nat \ {0}
ASSUME TimeAssumption == Times \subseteq Nat
ASSUME BoundAssumption == MaxRecords \in Nat /\ MaxPosted \in Nat
                          /\ MaxIrregular \in Nat /\ MaxDisturb \in Nat
ASSUME CliAssumption == CliWhileServing \in BOOLEAN

Families == {"create", "supersede"}
Record == [kind: {"create"}, fact: Facts, old: {None}]
            \cup [kind: {"supersede"}, fact: Facts, old: Facts]
Batch == [id: BatchIds, epoch: Epochs, chain: Seq(Record) \ {<<>>}, key: Keys,
          generation: Generations, at: Times]
Ack == [id: BatchIds, digest: Batch, epoch: Epochs, head: Nat]
Admission == [generation: Generations, epoch: Epochs, activated: Times, cutoff: Times,
              revoked: BOOLEAN]

ASSUME RowAssumption ==
  Rows \subseteq {r \in Admission : r.activated <= r.cutoff /\ ~r.revoked}

Task == [pc: {"admitted", "applied", "refreshed"}, batch: Batch]

ASSUME SentinelAssumption == None \notin Facts \cup Epochs \cup Task

VARIABLES
  posted,           \* every batch that was ever sent: any of them may arrive at any
                    \*   time, again and again
  task,             \* the handler task that holds fact_create_gate, and the one
                    \*   that holds fact_supersede_gate
  acks,             \* fact_create_acks and fact_supersede_acks
  admissions,       \* fact_create_admissions and fact_supersede_admissions
  streamEpoch, replica,   \* the shard's inbox: its epoch and accepted chain
  factCount,        \* device_shards.fact_count
  conflicts,        \* history: batches answered with a conflict other than a gap
  late,             \* history: writes of a family since its admissions changed that
                    \*   the changed table does not admit
  irregular, disturb   \* how much of MaxIrregular and of MaxDisturb is used

shardVars  == <<streamEpoch, replica>>
histVars   == <<conflicts, late>>
vars == <<posted, task, acks, admissions, shardVars,
          factCount, histVars, irregular, disturb>>

Extends(c, d) == Len(d) <= Len(c) /\ \A i \in 1..Len(d) : c[i] = d[i]
Cut(c, n) == [i \in 1..n |-> c[i]]
LastOf(c) == c[Len(c)]
FactsOf(c) == {c[i].fact : i \in 1..Len(c)}
Superseded(c) == {c[i].old : i \in 1..Len(c)}

\* The route a batch is posted to accepts records of its own kind only.
Family(b) == LastOf(b.chain).kind

\* The operator has set the device up.
Init ==
  /\ posted = {}
  /\ task = [f \in Families |-> None]
  /\ acks = [f \in Families |-> {}]
  /\ admissions \in [Families -> [Keys -> Rows]]
  /\ streamEpoch = None /\ replica = <<>>
  /\ factCount = 0
  /\ conflicts = {} /\ late = [f \in Families |-> 0]
  /\ irregular = 0 /\ disturb = 0

Disturb == disturb < MaxDisturb /\ disturb' = disturb + 1

-----------------------------------------------------------------------------
\* The records the owner's semantic-memory can add to a journal: it draws fresh
\* fact ids and supersedes only what is current there.
Creates(c) == [kind: {"create"}, fact: Facts \ FactsOf(c), old: {None}]
Supersedes(c, olds) == [kind: {"supersede"}, fact: Facts \ FactsOf(c), old: olds]
OwnerRecords(c) == Creates(c) \cup Supersedes(c, FactsOf(c) \ Superseded(c))

\* (SubSeq only makes TLC hold a chain as a tuple.)
Chains == UNION {{SubSeq(c, 1, n) : c \in [1..n -> Record]} : n \in 1..MaxRecords}
OwnersUpTo(c, n) == \A i \in 1..n : c[i] \in OwnerRecords(Cut(c, i - 1))

OwnerChains == {c \in Chains : OwnersUpTo(c, Len(c))}

\* A caller with the key can change the predecessor fact of a record and seal it
\* again, as the tests of the repository do.
AlteredChains ==
  {c \in Chains :
     /\ OwnersUpTo(c, Len(c) - 1)
     /\ LastOf(c) \in LET d == Cut(c, Len(c) - 1) IN
          Supersedes(d, Superseded(d) \ {None})}

\* A create row fixes the stream epoch; a supersede row does not.
Admitted(b) ==
  LET row == admissions[Family(b)][b.key] IN
  /\ ~row.revoked
  /\ row.generation = b.generation
  /\ row.activated <= b.at /\ b.at <= row.cutoff
  /\ Family(b) = "create" => row.epoch = b.epoch

\* The device posts the records of its journal in one stream epoch, each under a
\* batch id of its own, with the key it was admitted for.
Regular(b) ==
  /\ b.chain \in OwnerChains
  /\ Admitted(b)
  /\ \A c \in posted :
       /\ Family(c) = Family(b) => c.id # b.id
       /\ c.epoch = b.epoch
       /\ Extends(c.chain, b.chain) \/ Extends(b.chain, c.chain)

\* What is not regular: the journal was restored from a backup and goes on in
\* another way, the record is altered, the epoch changes, an id is used again or
\* the key is not admitted.  A batch of a generation that is not the admitted one
\* is refused until it is, which is as if it were sent then.
Post(b) ==
  /\ b \notin posted
  /\ b.generation = admissions[Family(b)][b.key].generation
  /\ irregular' = irregular + (IF Regular(b) THEN 0 ELSE 1)
  /\ irregular' <= MaxIrregular
  /\ posted' = posted \cup {b}
  /\ UNCHANGED <<task, acks, admissions, shardVars, factCount, histVars, disturb>>

-----------------------------------------------------------------------------
\* mnemes-server.  A task that waits for the gate has read nothing yet that it
\* goes on to use, so the holder of each gate is all there is to know of the tasks.
\* Mutant: the gate is not given back.
DoneKeepsGate(f) == task' = [task EXCEPT ![f].pc = "done"]

Done(f) == task' = [task EXCEPT ![f] = None]
Advance(f, pc) == task' = [task EXCEPT ![f].pc = pc]

\* Mutant: the admission is not read.
AdmitUnchecked(b) ==
  /\ task[Family(b)] = None
  /\ \A a \in acks[Family(b)] : a.id # b.id
  /\ task' = [task EXCEPT ![Family(b)] = [pc |-> "admitted", batch |-> b]]
  /\ UNCHANGED <<posted, acks, admissions, shardVars, factCount, histVars, irregular, disturb>>

\* Takes the gate of the family, looks the batch id up and reads the admission.
\* A batch that was acknowledged gets that ack, another batch with its id is
\* refused as a digest collision and a batch that is not admitted is refused:
\* none of these changes anything.  The two reads are sections of their own, but
\* only the holder of the gate writes what the first one reads.
LookupAndAdmit(b) ==
  /\ task[Family(b)] = None
  /\ \A a \in acks[Family(b)] : a.id # b.id
  /\ Admitted(b)
  /\ task' = [task EXCEPT ![Family(b)] = [pc |-> "admitted", batch |-> b]]
  /\ UNCHANGED <<posted, acks, admissions, shardVars, factCount, histVars, irregular, disturb>>

\* Mutant: whatever the owner once wrote may be superseded, again too.
OldIsKnown(r) == r.kind = "supersede" => r.old \in FactsOf(replica)

\* The fact a record supersedes is the head of its lineage in the shard.
OldIsHead(r) == r.kind = "supersede" => r.old \in FactsOf(replica) \ Superseded(replica)

\* Mutant: the lineage is compared before the position in the stream.
OutcomeLineageFirst(b) ==
  IF streamEpoch \notin {None, b.epoch} THEN "EpochConflict"
  ELSE IF Len(b.chain) > Len(replica) + 1 THEN "Gap"
  ELSE IF ~OldIsHead(LastOf(b.chain)) THEN "StalePredecessor"
  ELSE IF Len(b.chain) <= Len(replica)
       THEN IF Extends(replica, b.chain) THEN "Duplicate" ELSE "Fork"
  ELSE IF Extends(b.chain, replica) THEN "Applied" ELSE "StalePredecessor"

\* Mutant: only the sequence is compared, not the predecessor.
OutcomeBySequence(b) ==
  IF streamEpoch \notin {None, b.epoch} THEN "EpochConflict"
  ELSE IF Len(b.chain) > Len(replica) + 1 THEN "Gap"
  ELSE IF Len(b.chain) <= Len(replica)
       THEN IF Extends(replica, b.chain) THEN "Duplicate" ELSE "Fork"
  ELSE IF OldIsHead(LastOf(b.chain)) THEN "Applied" ELSE "StalePredecessor"

\* What the shard decides in its own transaction, for both families.
ApplyOutcome(b) ==
  IF streamEpoch \notin {None, b.epoch} THEN "EpochConflict"
  ELSE IF Len(b.chain) > Len(replica) + 1 THEN "Gap"
  ELSE IF Len(b.chain) <= Len(replica)
       THEN IF Extends(replica, b.chain) THEN "Duplicate" ELSE "Fork"
  ELSE IF Extends(b.chain, replica) /\ OldIsHead(LastOf(b.chain))
       THEN "Applied" ELSE "StalePredecessor"

Apply(f) ==
  LET b == task[f].batch
      outcome == ApplyOutcome(b)
  IN
  /\ task[f] # None /\ task[f].pc = "admitted"
  /\ IF outcome = "Applied"
       THEN /\ replica' = b.chain /\ streamEpoch' = b.epoch
            /\ late' = [late EXCEPT ![f] = IF Admitted(b) THEN @ ELSE @ + 1]
       ELSE UNCHANGED <<shardVars, late>>
  /\ IF outcome \in {"Applied", "Duplicate"} THEN Advance(f, "applied") ELSE Done(f)
  /\ conflicts' = IF outcome \in {"EpochConflict", "StalePredecessor", "Fork"}
                    THEN conflicts \cup {b} ELSE conflicts
  /\ UNCHANGED <<posted, acks, admissions, factCount, irregular, disturb>>

\* Only the create path refreshes the catalog's counts.  It reads the shard's
\* statistics and stores them in a later section: any length the shard has had since
\* the batch was applied, for the other family's gate is another one.
RefreshShardCounts ==
  /\ task["create"] # None /\ task["create"].pc = "applied"
  /\ factCount' \in Len(task["create"].batch.chain)..Len(replica)
  /\ Advance("create", "refreshed")
  /\ UNCHANGED <<posted, acks, admissions, shardVars, histVars, irregular, disturb>>

\* Another refresh of the catalog row, which takes no gate, stores statistics that it
\* read at any moment before.
RefreshOutsideGate(n) ==
  /\ Disturb
  /\ factCount' = n
  /\ UNCHANGED <<posted, task, acks, admissions, shardVars, histVars, irregular>>

AckFor(b) == [id |-> b.id, digest |-> b, epoch |-> b.epoch, head |-> Len(b.chain)]

PersistAck(f) ==
  /\ task[f] # None
  /\ task[f].pc = IF f = "create" THEN "refreshed" ELSE "applied"
  /\ acks' = [acks EXCEPT ![f] = @ \cup {AckFor(task[f].batch)}]
  /\ Done(f)
  /\ UNCHANGED <<posted, admissions, shardVars, factCount, histVars, irregular, disturb>>

\* An error of a database, or the connection is closed and the future dropped.
HandlerFails(f) ==
  /\ Disturb
  /\ task[f] # None
  /\ Done(f)
  /\ UNCHANGED <<posted, acks, admissions, shardVars, factCount, histVars, irregular>>

\* The server dies and restarts: the databases are all that is left.
ServerCrash ==
  /\ Disturb
  /\ \E f \in Families : task[f] # None
  /\ task' = [f \in Families |-> None]
  /\ UNCHANGED <<posted, acks, admissions, shardVars, factCount, histVars, irregular>>

-----------------------------------------------------------------------------
\* The operator.  A call in the server's process takes the gate of the family;
\* mnemes-admin, which can revoke in both and admit creators only, takes a gate
\* of its own process.
SetAdmission(f, k, row) ==
  /\ admissions' = [admissions EXCEPT ![f][k] = row]
  /\ late' = [late EXCEPT ![f] = 0]
  /\ UNCHANGED <<posted, task, acks, shardVars,
                 factCount, conflicts, irregular>>

AdmitKey(f, k, row) ==
  /\ Disturb
  /\ task[f] = None \/ (CliWhileServing /\ f = "create")
  /\ SetAdmission(f, k, row)

RevokeKey(f, k) ==
  /\ Disturb
  /\ task[f] = None \/ CliWhileServing
  /\ SetAdmission(f, k, [admissions[f][k] EXCEPT !.revoked = TRUE])

-----------------------------------------------------------------------------
Signable == [id: BatchIds, epoch: Epochs, chain: OwnerChains \cup AlteredChains,
             key: Keys, generation: Generations, at: Times]

HandlerStep ==
  \/ \E b \in posted : LookupAndAdmit(b)
  \/ RefreshShardCounts
  \/ \E f \in Families : Apply(f) \/ PersistAck(f)

OperatorStep ==
  \E f \in Families, k \in Keys :
    RevokeKey(f, k) \/ \E row \in Rows : AdmitKey(f, k, row)

Next ==
  \/ Cardinality(posted) < MaxPosted /\ \E b \in Signable : Post(b)
  \/ HandlerStep
  \/ \E f \in Families : HandlerFails(f)
  \/ ServerCrash
  \/ \E n \in 0..Len(replica) : RefreshOutsideGate(n)
  \/ OperatorStep

Spec == Init /\ [][Next]_vars
-----------------------------------------------------------------------------
TypeOK ==
  /\ posted \subseteq Batch
  /\ task \in [Families -> Task \cup {None}]
  /\ acks \in [Families -> SUBSET Ack]
  /\ admissions \in [Families -> [Keys -> Admission]]
  /\ streamEpoch \in Epochs \cup {None}
  /\ replica \in Seq(Record)
  /\ factCount \in Nat
  /\ conflicts \subseteq Batch
  /\ late \in [Families -> Nat]
  /\ irregular \in Nat /\ disturb \in Nat
  /\ streamEpoch = None => replica = <<>>
  /\ \A f \in Families : task[f] # None => Family(task[f].batch) = f

OnShard(b) == streamEpoch = b.epoch /\ Extends(replica, b.chain)

\* Both families' acknowledgements are about one stream: each names the record
\* that is in the shard at the acknowledged head, which is of its own family,
\* and no two of them acknowledge different replacements of one fact.
OneSuccessor ==
  /\ \A f \in Families : \A a \in acks[f] :
       a = AckFor(a.digest) /\ OnShard(a.digest) /\ replica[a.head].kind = f
  /\ \A a, b \in acks["supersede"] :
       replica[a.head].old = replica[b.head].old => a.head = b.head

\* tests/server.rs: "an exact stale replay must remain a conflict".  A batch that
\* was refused for its place in the stream or in the lineage, and not for a gap
\* before it, is not on the shard and never gets there; so a record that was
\* applied before a crash is not refused when the same batch is sent again.
ConflictIsFinal == \A b \in conflicts : ~OnShard(b)

\* An admission changed by mnemes-admin beside a running server, whose gate it
\* does not take, is outrun by one request of the family at most; changed in
\* the server's process, by none.
OneLateWrite ==
  \A f \in Families : late[f] <= IF CliWhileServing THEN 1 ELSE 0

\* The two families together implement one replicated log.
Log == INSTANCE ReplicatedLog WITH
  Facts <- Record,
  log <- replica,
  promised <- {a.digest.chain : a \in UNION {acks[f] : f \in Families}},
  known <- 0

ImplementsLog == Log!Init /\ [][Log!Next]_(Log!vars)
-----------------------------------------------------------------------------
\* The inductive invariant.  Each record of the shard superseded, when it was
\* applied, a fact that was current;
HeadAt(c, i) ==
  c[i].kind = "supersede" =>
    /\ \E j \in 1..(i - 1) : c[j].fact = c[i].old
    /\ \A j \in 1..(i - 1) : c[j].old # c[i].old

LineageInv == \A i \in 1..Len(replica) : HeadAt(replica, i)

\* what is acknowledged, or about to be, is on the shard;
AckInv ==
  \A f \in Families :
    /\ task[f] # None /\ task[f].pc # "admitted" => OnShard(task[f].batch)
    /\ \A a \in acks[f] :
         a = AckFor(a.digest) /\ OnShard(a.digest) /\ Family(a.digest) = f

\* a batch that was refused as a conflict differs from the shard for good, or
\* supersedes what was not current where it stands;
Doomed(b) ==
  \/ streamEpoch \notin {None, b.epoch}
  \/ \E i \in 1..Len(b.chain) : i <= Len(replica) /\ b.chain[i] # replica[i]
  \/ ~HeadAt(b.chain, Len(b.chain))

ConflictInv == \A b \in conflicts : Doomed(b)

\* and a request past its admission check, which an admission changed since no
\* longer admits, is the first since that change.
LateInv ==
  \A f \in Families :
    task[f] # None /\ task[f].pc = "admitted" /\ ~Admitted(task[f].batch)
      => CliWhileServing /\ late[f] = 0

IInv == TypeOK /\ LineageInv /\ AckInv /\ ConflictInv /\ LateInv /\ OneLateWrite
=============================================================================
