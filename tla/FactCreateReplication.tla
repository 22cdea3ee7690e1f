----------------------- MODULE FactCreateReplication -----------------------
(***************************************************************************)
(* Device-owned fact-create replication: the journal of one home device,   *)
(* invocations of mnemes-sync-client that ship one journal record each,    *)
(* the HTTP handler of mnemes-server that admits, applies and acknowledges *)
(* a signed batch, and the operator who admits and revokes writer keys.    *)
(*                                                                         *)
(* A journal record is represented by the chain of payloads that ends with *)
(* it: its sequence is the length of the chain, its predecessor digest     *)
(* stands for the chain without its last payload and its envelope digest   *)
(* for the whole chain.  Two records with equal digests are then equal,    *)
(* which is what SHA-256 gives the code.  One device, one store and one    *)
(* namespace are modelled; a row of fact_create_admissions is named by its *)
(* key version.  A signature that does not verify never passes decode_json *)
(* and is not modelled.                                                    *)
(*                                                                         *)
(* Definitions marked "Mutant" are faulty variants of the definition after *)
(* them: they are in no specification, and show that a property can fail.  *)
(***************************************************************************)
EXTENDS Integers, Sequences

CONSTANTS
  Facts,            \* payloads of journal rows
  Creates,          \* those that are verified fact.create records
  Epochs,           \* stream epochs
  Keys,             \* signer key versions
  PublicKeys,       \* Ed25519 verifying keys
  Fences,           \* fencing tokens
  Times,            \* observed_at values and admission windows
  Invocations,      \* processes of mnemes-sync-client
  Workers,          \* tasks running fact_create_handler
  BatchIds,         \* UUIDs the clients draw (bounds the number of batches)
  MaxJournal,       \* bound: rows in the journal of one epoch
  MaxDisturb,       \* bound: failures, redeliveries and operator actions
  CliWhileServing,  \* mnemes-admin is run on the data of a live server
  None, Absent, Empty, Torn, Refused

ASSUME CreatesAssumption == Creates \subseteq Facts
ASSUME EpochAssumption == Epochs \subseteq Nat \ {0}
ASSUME TimeAssumption == Times \subseteq Nat
ASSUME BoundAssumption == MaxJournal \in Nat /\ MaxDisturb \in Nat
ASSUME CliAssumption == CliWhileServing \in BOOLEAN

Config == [epoch: Epochs, key: Keys, pk: PublicKeys, fence: Fences]
Batch == [id: BatchIds, epoch: Epochs, chain: Seq(Facts) \ {<<>>}, key: Keys,
          pk: PublicKeys, fence: Fences, at: Times]
Ack == [id: BatchIds, digest: Batch, epoch: Epochs, head: Nat]
Admission == [pk: PublicKeys, epoch: Epochs, fence: Fences,
              activated: Times, cutoff: Times, revoked: BOOLEAN]
Watermark == [epoch: Epochs, next: Nat]

\* The last five constants are sentinels: no batch, ack, row, task or file content.
ASSUME SentinelAssumption ==
  /\ None \notin Batch \cup Ack \cup Config \cup Admission \cup Workers \cup Epochs \cup {Refused}
  /\ Refused \notin Ack
  /\ {Absent, Empty, Torn} \cap Watermark = {}
  /\ Absent # Empty /\ Absent # Torn /\ Empty # Torn

VARIABLES
  journal,       \* mutation_journal of the device, one chain per epoch
  conf,          \* the arguments the device's timer passes to the client
  wm, tmp,       \* watermark.json and watermark.tmp: content and open handles
  cpc, cconf, cnext, cbatch, creply,   \* each client invocation
  posted,        \* every batch that was ever posted
  requests,      \* POSTs the server has not accepted yet
  wpc, wbatch, wstat,   \* each handler task: its step, batch and shard statistics
  gate,          \* fact_create_gate: the task that holds it
  acks,          \* fact_create_acks
  admissions,    \* fact_create_admissions
  deviceStatus,  \* devices.status
  streamEpoch, replica,   \* the shard's inbox: its epoch and accepted chain
  factCount,     \* device_shards.fact_count, of the facts of the stream
  disturb        \* how much of MaxDisturb is used

deviceVars == <<journal, conf>>
fileVars   == <<wm, tmp>>
clientVars == <<cpc, cconf, cnext, cbatch, creply>>
netVars    == <<posted, requests>>
workerVars == <<wpc, wbatch, wstat, gate>>
ctlVars    == <<acks, admissions, deviceStatus, factCount>>
shardVars  == <<streamEpoch, replica>>
vars == <<deviceVars, fileVars, clientVars, netVars, workerVars, ctlVars, shardVars, disturb>>

ClientPCs == {"idle", "loaded", "sent", "acked", "created", "written"}
WorkerPCs == {"idle", "received", "authorized", "looked", "admitted", "applied", "counted",
              "refreshed"}
InGate    == {"looked", "admitted", "applied", "counted", "refreshed"}
Statuses  == {"active", "quarantined", "revoked"}

Extends(c, d) == Len(d) <= Len(c) /\ \A i \in 1..Len(d) : c[i] = d[i]
Cut(c, n) == [i \in 1..n |-> c[i]]

File == [c: Watermark \cup {Absent, Empty, Torn}, open: SUBSET Invocations]
NoFile == [c |-> Absent, open |-> {}]

Init ==
  /\ journal = [e \in Epochs |-> <<>>]
  /\ conf \in Config
  /\ wm = NoFile /\ tmp = NoFile
  /\ cpc = [i \in Invocations |-> "idle"]
  /\ cconf = [i \in Invocations |-> None]
  /\ cnext = [i \in Invocations |-> 0]
  /\ cbatch = [i \in Invocations |-> None]
  /\ creply = [i \in Invocations |-> None]
  /\ posted = {} /\ requests = {}
  /\ wpc = [w \in Workers |-> "idle"]
  /\ wbatch = [w \in Workers |-> None]
  /\ wstat = [w \in Workers |-> 0]
  /\ gate = None
  /\ acks = {}
  /\ admissions = [k \in Keys |-> None]
  /\ deviceStatus = "active"
  /\ streamEpoch = None /\ replica = <<>>
  /\ factCount = 0
  /\ disturb = 0

\* A failure, a redelivery or an operator action uses up one unit of MaxDisturb.
Disturb == disturb < MaxDisturb /\ disturb' = disturb + 1

-----------------------------------------------------------------------------
\* The device.  semantic-memory allocates the sequence and appends the row in
\* the transaction that creates the fact.
RecordFact(e, f) ==
  /\ Len(journal[e]) < MaxJournal
  /\ journal' = [journal EXCEPT ![e] = Append(@, f)]
  /\ UNCHANGED <<conf, fileVars, clientVars, netVars, workerVars, ctlVars, shardVars, disturb>>

\* The device's memory.db is replaced by an older backup.
RestoreJournal(e, n) ==
  /\ Disturb
  /\ n < Len(journal[e])
  /\ journal' = [journal EXCEPT ![e] = Cut(@, n)]
  /\ UNCHANGED <<conf, fileVars, clientVars, netVars, workerVars, ctlVars, shardVars>>

\* The timer unit is edited: other key, fence or epoch arguments.
Reconfigure(c) ==
  /\ Disturb
  /\ c # conf /\ conf' = c
  /\ UNCHANGED <<journal, fileVars, clientVars, netVars, workerVars, ctlVars, shardVars>>

\* The watermark file is deleted, or restored from an older copy.
RestoreWatermark(n) ==
  /\ Disturb
  /\ wm.c \in Watermark
  /\ n < wm.c.next
  /\ wm' = IF n = 0 THEN NoFile ELSE [wm EXCEPT !.c.next = n]
  /\ UNCHANGED <<deviceVars, tmp, clientVars, netVars, workerVars, ctlVars, shardVars>>

-----------------------------------------------------------------------------
\* mnemes-sync-client.
Exit(i) ==
  /\ cpc' = [cpc EXCEPT ![i] = "idle"]
  /\ cconf' = [cconf EXCEPT ![i] = None]
  /\ cnext' = [cnext EXCEPT ![i] = 0]
  /\ cbatch' = [cbatch EXCEPT ![i] = None]
  /\ creply' = [creply EXCEPT ![i] = None]

\* An unreadable watermark or one of another stream ends the invocation at once.
WatermarkUsable(e) == wm.c = Absent \/ (wm.c \in Watermark /\ wm.c.epoch = e)

LoadWatermark(i) ==
  /\ cpc[i] = "idle"
  /\ WatermarkUsable(conf.epoch)
  /\ cpc' = [cpc EXCEPT ![i] = "loaded"]
  /\ cconf' = [cconf EXCEPT ![i] = conf]
  /\ cnext' = [cnext EXCEPT ![i] = IF wm.c = Absent THEN 0 ELSE wm.c.next]
  /\ UNCHANGED <<cbatch, creply, deviceVars, fileVars, netVars, workerVars, ctlVars, shardVars, disturb>>

\* Mutant: the cursor is clamped to the last row there is.
NextRowClamped(i) ==
  LET n == Len(journal[cconf[i].epoch]) IN
  IF n > 0 /\ cnext[i] > n THEN n ELSE IF cnext[i] < 1 THEN 1 ELSE cnext[i]

\* Mutant: the row after next_sequence, sequence > next_sequence.
NextRowAfter(i) == cnext[i] + 1

\* The first row with sequence >= next_sequence; sequences start at 1.
NextRow(i) == IF cnext[i] < 1 THEN 1 ELSE cnext[i]
HasCreate(i) == LET j == journal[cconf[i].epoch] IN
  NextRow(i) <= Len(j) /\ j[NextRow(i)] \in Creates

SignedBatch(c, id, chain, at) ==
  [id |-> id, epoch |-> c.epoch, chain |-> chain, key |-> c.key,
   pk |-> c.pk, fence |-> c.fence, at |-> at]

PostNextRecord(i) ==
  /\ cpc[i] = "loaded"
  /\ HasCreate(i)
  /\ \E id \in BatchIds \ {b.id : b \in posted}, at \in Times :
       LET b == SignedBatch(cconf[i], id, Cut(journal[cconf[i].epoch], NextRow(i)), at)
       IN /\ cbatch' = [cbatch EXCEPT ![i] = b]
          /\ posted' = posted \cup {b}
          /\ requests' = requests \cup {b}
  /\ cpc' = [cpc EXCEPT ![i] = "sent"]
  /\ UNCHANGED <<cconf, cnext, creply, deviceVars, fileVars, workerVars, ctlVars, shardVars, disturb>>

\* "up_to_date", or the row is not a verified fact-create record.
NothingToPost(i) ==
  /\ cpc[i] = "loaded"
  /\ ~HasCreate(i)
  /\ Exit(i)
  /\ UNCHANGED <<deviceVars, fileVars, netVars, workerVars, ctlVars, shardVars, disturb>>

\* Mutant: the reply is not examined.
AnyAck(a, b) == TRUE

ValidAck(a, b) ==
  /\ a # Refused
  /\ a.id = b.id
  /\ a.digest = b
  /\ a.epoch = b.epoch
  /\ a.head = Len(b.chain)

ReceiveReply(i) ==
  /\ cpc[i] = "sent"
  /\ creply[i] # None
  /\ IF ValidAck(creply[i], cbatch[i])
       THEN /\ cpc' = [cpc EXCEPT ![i] = "acked"]
            /\ UNCHANGED <<cconf, cnext, cbatch, creply>>
       ELSE Exit(i)
  /\ UNCHANGED <<deviceVars, fileVars, netVars, workerVars, ctlVars, shardVars, disturb>>

\* write_watermark: File::create truncates the one temporary path every
\* invocation uses; an invocation that already has it open keeps its handle.
CreateTmp(i) ==
  /\ cpc[i] = "acked"
  /\ tmp' = [c |-> Empty, open |-> tmp.open \cup {i}]
  /\ cpc' = [cpc EXCEPT ![i] = "created"]
  /\ UNCHANGED <<wm, cconf, cnext, cbatch, creply, deviceVars, netVars, workerVars, ctlVars, shardVars, disturb>>

\* Writing over a longer text leaves its tail behind.
Overwritten(old, new) == IF old \in {Empty, new} THEN {new} ELSE {new, Torn}
WriteThrough(f, i, new) ==
  IF i \in f.open THEN {[c |-> x, open |-> f.open \ {i}] : x \in Overwritten(f.c, new)} ELSE {f}

NextWatermark(b) == [epoch |-> b.epoch, next |-> Len(b.chain) + 1]

WriteTmp(i) ==
  /\ cpc[i] = "created"
  /\ tmp' \in WriteThrough(tmp, i, NextWatermark(cbatch[i]))
  /\ wm' \in WriteThrough(wm, i, NextWatermark(cbatch[i]))
  /\ cpc' = [cpc EXCEPT ![i] = "written"]
  /\ UNCHANGED <<cconf, cnext, cbatch, creply, deviceVars, netVars, workerVars, ctlVars, shardVars, disturb>>

\* set_permissions and rename fail when another invocation renamed the file.
RenameTmp(i) ==
  /\ cpc[i] = "written"
  /\ IF tmp.c = Absent THEN UNCHANGED fileVars ELSE wm' = tmp /\ tmp' = NoFile
  /\ Exit(i)
  /\ UNCHANGED <<deviceVars, netVars, workerVars, ctlVars, shardVars, disturb>>

\* A transport error, or the process is killed; its request may be lost.
ClientFails(i) ==
  /\ Disturb
  /\ cpc[i] # "idle"
  /\ requests' \in {requests, requests \ {cbatch[i]}}
  /\ wm' = [wm EXCEPT !.open = @ \ {i}]
  /\ tmp' = [tmp EXCEPT !.open = @ \ {i}]
  /\ Exit(i)
  /\ UNCHANGED <<posted, deviceVars, workerVars, ctlVars, shardVars>>

-----------------------------------------------------------------------------
\* The network and other callers of the route.  A proxy or another caller sends
\* a batch again; if the first response did not get through, the invocation
\* goes on waiting for the new one.
Redeliver(b) ==
  /\ Disturb
  /\ b \notin requests
  /\ requests' = requests \cup {b}
  /\ \/ UNCHANGED creply
     \/ creply' = [i \in Invocations |->
          IF cpc[i] = "sent" /\ cbatch[i] = b THEN None ELSE creply[i]]
  /\ UNCHANGED <<cpc, cconf, cnext, cbatch, posted, deviceVars, fileVars, workerVars, ctlVars, shardVars>>

\* A caller signs another record of the journal under a batch id already used.
ReuseBatchId(b, n) ==
  LET nb == [b EXCEPT !.chain = Cut(journal[b.epoch], n)] IN
  /\ Disturb
  /\ journal[b.epoch][n] \in Creates
  /\ nb \notin posted
  /\ posted' = posted \cup {nb}
  /\ requests' = requests \cup {nb}
  /\ UNCHANGED <<deviceVars, fileVars, clientVars, workerVars, ctlVars, shardVars>>

-----------------------------------------------------------------------------
\* mnemes-server.  Answer(b, r): the response r for batch b reaches the
\* connection of the invocation that still waits for it, if there is one.
Answer(b, r) ==
  creply' = [i \in Invocations |->
    IF cpc[i] = "sent" /\ cbatch[i] = b /\ creply[i] = None THEN r ELSE creply[i]]

\* Mutant: the task's request is not cleared.
DoneKeepsBatch(w, r) ==
  /\ wpc' = [wpc EXCEPT ![w] = "idle"]
  /\ wstat' = [wstat EXCEPT ![w] = 0]
  /\ gate' = IF gate = w THEN None ELSE gate
  /\ Answer(wbatch[w], r)
  /\ UNCHANGED <<wbatch, cpc, cconf, cnext, cbatch>>

Done(w, r) ==
  /\ wpc' = [wpc EXCEPT ![w] = "idle"]
  /\ wbatch' = [wbatch EXCEPT ![w] = None]
  /\ wstat' = [wstat EXCEPT ![w] = 0]
  /\ gate' = IF gate = w THEN None ELSE gate
  /\ Answer(wbatch[w], r)
  /\ UNCHANGED <<cpc, cconf, cnext, cbatch>>

Advance(w, pc) == wpc' = [wpc EXCEPT ![w] = pc] /\ UNCHANGED <<wbatch, wstat, clientVars>>

\* decode_json: structure, semantic record and signature are checked.
Accept(w, b) ==
  /\ wpc[w] = "idle"
  /\ requests' = requests \ {b}
  /\ wpc' = [wpc EXCEPT ![w] = "received"]
  /\ wbatch' = [wbatch EXCEPT ![w] = b]
  /\ UNCHANGED <<posted, wstat, gate, clientVars, deviceVars, fileVars, ctlVars, shardVars, disturb>>

Authorize(w) ==
  /\ wpc[w] = "received"
  /\ IF deviceStatus = "active"
       THEN Advance(w, "authorized") /\ UNCHANGED gate
       ELSE Done(w, Refused)
  /\ UNCHANGED <<deviceVars, fileVars, netVars, ctlVars, shardVars, disturb>>

Admitted(b) ==
  LET row == admissions[b.key] IN
  /\ row # None
  /\ row.pk = b.pk
  /\ ~row.revoked
  /\ row.activated <= b.at /\ b.at <= row.cutoff
  /\ row.epoch = b.epoch
  /\ row.fence = b.fence

\* Mutant: the admission is checked before the batch id is looked up.
AdmitBeforeLookup(w) ==
  LET b == wbatch[w] IN
  /\ wpc[w] = "authorized"
  /\ gate = None
  /\ \/ ~Admitted(b) /\ Done(w, Refused)
     \/ /\ Admitted(b)
        /\ \E a \in acks : a.id = b.id /\ Done(w, IF a.digest = b THEN a ELSE Refused)
     \/ /\ Admitted(b)
        /\ \A a \in acks : a.id # b.id
        /\ Advance(w, "looked")
        /\ gate' = w
  /\ UNCHANGED <<deviceVars, fileVars, netVars, ctlVars, shardVars, disturb>>

\* Takes the gate and looks the batch id up before anything else is checked.
LookupAck(w) ==
  LET b == wbatch[w] IN
  /\ wpc[w] = "authorized"
  /\ gate = None
  /\ \/ \E a \in acks : a.id = b.id /\ Done(w, IF a.digest = b THEN a ELSE Refused)
     \/ /\ \A a \in acks : a.id # b.id
        /\ Advance(w, "looked")
        /\ gate' = w
  /\ UNCHANGED <<deviceVars, fileVars, netVars, ctlVars, shardVars, disturb>>

CheckAdmission(w) ==
  /\ wpc[w] = "looked"
  /\ IF Admitted(wbatch[w])
       THEN Advance(w, "admitted") /\ UNCHANGED gate
       ELSE Done(w, Refused)
  /\ UNCHANGED <<deviceVars, fileVars, netVars, ctlVars, shardVars, disturb>>

\* Mutant: the record's position in the stream is not compared.
ApplyAnywhere(b) ==
  IF Len(b.chain) <= Len(replica) /\ Extends(replica, b.chain) THEN "Duplicate" ELSE "Applied"

\* What apply_verified_fact_create decides in its own shard transaction.
ApplyOutcome(b) ==
  IF streamEpoch \notin {None, b.epoch} THEN "EpochConflict"
  ELSE IF Len(b.chain) > Len(replica) + 1 THEN "Gap"
  ELSE IF Len(b.chain) = Len(replica) + 1
       THEN IF Extends(b.chain, replica) THEN "Applied" ELSE "StalePredecessor"
       ELSE IF Extends(replica, b.chain) THEN "Duplicate" ELSE "Fork"

\* Mutant: a stale predecessor is acknowledged too.
AcknowledgeStale == {"Applied", "Duplicate", "StalePredecessor"}

\* The outcomes that go on to an acknowledgement; the others are a conflict.
AcknowledgedOutcomes == {"Applied", "Duplicate"}

Apply(w) ==
  LET b == wbatch[w] IN
  /\ wpc[w] = "admitted"
  /\ IF ApplyOutcome(b) = "Applied"
       THEN replica' = b.chain /\ streamEpoch' = b.epoch
       ELSE UNCHANGED shardVars
  /\ IF ApplyOutcome(b) \in AcknowledgedOutcomes
       THEN Advance(w, "applied") /\ UNCHANGED gate
       ELSE Done(w, Refused)
  /\ UNCHANGED <<deviceVars, fileVars, netVars, ctlVars, disturb>>

\* refresh_shard_counts: the shard's statistics are read, then the catalog row is
\* updated with them under the mutex of the control database.
ReadStats(w) ==
  /\ wpc[w] = "applied"
  /\ wpc' = [wpc EXCEPT ![w] = "counted"]
  /\ wstat' = [wstat EXCEPT ![w] = Len(replica)]
  /\ UNCHANGED <<wbatch, gate, clientVars, ctlVars, deviceVars, fileVars, netVars, shardVars, disturb>>

UpdateCounts(w) ==
  /\ wpc[w] = "counted"
  /\ factCount' = wstat[w]
  /\ Advance(w, "refreshed")
  /\ UNCHANGED <<gate, acks, admissions, deviceStatus, deviceVars, fileVars, netVars, shardVars, disturb>>

\* Another refresh of the same row, which takes no gate (refresh_shard_summary, or
\* the one in sync_fact_to_shard): it may have read its statistics at any moment
\* before, and the shard has had every length up to the present one.
RefreshOutsideGate(n) ==
  /\ Disturb
  /\ factCount' = n
  /\ UNCHANGED <<acks, admissions, deviceStatus, deviceVars, fileVars, clientVars, netVars, workerVars, shardVars>>

AckFor(b) == [id |-> b.id, digest |-> b, epoch |-> b.epoch, head |-> Len(b.chain)]

PersistAck(w) ==
  /\ wpc[w] = "refreshed"
  /\ acks' = acks \cup {AckFor(wbatch[w])}
  /\ Done(w, AckFor(wbatch[w]))
  /\ UNCHANGED <<admissions, deviceStatus, factCount, deviceVars, fileVars, netVars, shardVars, disturb>>

\* An SQLite or shard error, or the connection is closed and the future dropped.
HandlerFails(w) ==
  /\ Disturb
  /\ wpc[w] # "idle"
  /\ Done(w, Refused)
  /\ UNCHANGED <<deviceVars, fileVars, netVars, ctlVars, shardVars>>

\* The server process dies and restarts: the databases are all that is left.
ServerCrash ==
  /\ Disturb
  /\ \E w \in Workers : wpc[w] # "idle"
  /\ wpc' = [w \in Workers |-> "idle"]
  /\ wbatch' = [w \in Workers |-> None]
  /\ wstat' = [w \in Workers |-> 0]
  /\ gate' = None
  /\ creply' = [i \in Invocations |->
       IF cpc[i] = "sent" /\ creply[i] = None /\ (\E w \in Workers : wbatch[w] = cbatch[i])
       THEN Refused ELSE creply[i]]
  /\ UNCHANGED <<cpc, cconf, cnext, cbatch, deviceVars, fileVars, netVars, ctlVars, shardVars>>

-----------------------------------------------------------------------------
\* Mutant: admission and revocation do not take the gate.
GateIgnored == TRUE

\* The operator.  In the server's process both calls take the gate; run by
\* mnemes-admin they take the gate of their own process.
GateOpen == gate = None \/ CliWhileServing

AdmitKey(k, row) ==
  /\ Disturb
  /\ GateOpen
  /\ row.activated <= row.cutoff
  /\ admissions' = [admissions EXCEPT ![k] = row]
  /\ UNCHANGED <<acks, deviceStatus, factCount, deviceVars, fileVars, clientVars, netVars, workerVars, shardVars>>

RevokeKey(k) ==
  /\ Disturb
  /\ GateOpen
  /\ admissions[k] # None
  /\ admissions' = [admissions EXCEPT ![k].revoked = TRUE]
  /\ UNCHANGED <<acks, deviceStatus, factCount, deviceVars, fileVars, clientVars, netVars, workerVars, shardVars>>

SetDeviceStatus(s) ==
  /\ Disturb
  /\ deviceStatus' = s /\ s # deviceStatus
  /\ UNCHANGED <<acks, admissions, factCount, deviceVars, fileVars, clientVars, netVars, workerVars, shardVars>>

-----------------------------------------------------------------------------
DeviceStep ==
  \/ \E e \in Epochs, f \in Facts : RecordFact(e, f)
  \/ \E e \in Epochs : \E n \in 0..MaxJournal : RestoreJournal(e, n)
  \/ \E c \in Config : Reconfigure(c)
  \/ \E n \in 0..MaxJournal : RestoreWatermark(n)

ClientStep(i) ==
  \/ LoadWatermark(i) \/ PostNextRecord(i) \/ NothingToPost(i) \/ ReceiveReply(i)
  \/ CreateTmp(i) \/ WriteTmp(i) \/ RenameTmp(i)

HandlerStep(w) ==
  \/ \E b \in requests : Accept(w, b)
  \/ Authorize(w) \/ LookupAck(w) \/ CheckAdmission(w) \/ Apply(w)
  \/ ReadStats(w) \/ UpdateCounts(w) \/ PersistAck(w)

NetworkStep ==
  \/ \E b \in posted : Redeliver(b)
  \/ \E b \in posted : \E n \in 1..Len(journal[b.epoch]) : ReuseBatchId(b, n)

OperatorStep ==
  \/ \E k \in Keys, row \in {r \in Admission : ~r.revoked} : AdmitKey(k, row)
  \/ \E k \in Keys : RevokeKey(k)
  \/ \E s \in Statuses : SetDeviceStatus(s)

Next ==
  \/ DeviceStep
  \/ \E i \in Invocations : ClientStep(i) \/ ClientFails(i)
  \/ \E w \in Workers : HandlerStep(w) \/ HandlerFails(w)
  \/ NetworkStep
  \/ ServerCrash
  \/ \E n \in 0..Len(replica) : RefreshOutsideGate(n)
  \/ OperatorStep

Spec == Init /\ [][Next]_vars

\* A waiting request is served, a posted record is answered and the timer
\* keeps starting the client: tokio schedules every ready task and hands its
\* mutex out in order; the operator's timer or cron repeats the invocation.
FairSpec ==
  /\ Spec
  /\ \A i \in Invocations : WF_vars(ClientStep(i))
  /\ \A w \in Workers : WF_vars(HandlerStep(w))

-----------------------------------------------------------------------------
TypeOK ==
  /\ journal \in [Epochs -> Seq(Facts)]
  /\ conf \in Config
  /\ wm \in File /\ tmp \in File
  /\ cpc \in [Invocations -> ClientPCs]
  /\ cconf \in [Invocations -> Config \cup {None}]
  /\ cnext \in [Invocations -> Nat]
  /\ cbatch \in [Invocations -> Batch \cup {None}]
  /\ creply \in [Invocations -> Ack \cup {None, Refused}]
  /\ posted \subseteq Batch /\ requests \subseteq posted
  /\ wpc \in [Workers -> WorkerPCs]
  /\ wbatch \in [Workers -> Batch \cup {None}]
  /\ wstat \in [Workers -> Nat]
  /\ gate \in Workers \cup {None}
  /\ acks \subseteq Ack
  /\ admissions \in [Keys -> Admission \cup {None}]
  /\ deviceStatus \in Statuses
  /\ streamEpoch \in Epochs \cup {None}
  /\ replica \in Seq(Facts)
  /\ factCount \in Nat
  /\ disturb \in Nat
  /\ streamEpoch = None => replica = <<>>
  /\ \A i \in Invocations : (cconf[i] = None) <=> (cpc[i] = "idle")
  /\ \A i \in Invocations : (cbatch[i] = None) <=> (cpc[i] \in {"idle", "loaded"})
  /\ \A w \in Workers : (wbatch[w] = None) <=> (wpc[w] = "idle")

\* A batch is on the shard, at the sequence it names and after the records it
\* names: the shard's inbox has its epoch and starts with its chain.
OnShard(b) == streamEpoch = b.epoch /\ Extends(replica, b.chain)

\* Every durable acknowledgement (fact_create_acks) is about a record that is
\* in the shard with exactly the digest that was submitted, and stays there:
\* the shard transaction commits before the ack row, whatever fails between.
AckDurable ==
  \A a \in acks : a = AckFor(a.digest) /\ OnShard(a.digest)

\* The watermark file never runs ahead of the shard: next_sequence - 1 records
\* of its stream are replicated, however many invocations write it.
WatermarkBacked ==
  wm.c \in Watermark => streamEpoch = wm.c.epoch /\ wm.c.next <= Len(replica) + 1

\* The shard only ever changes for a writer whose admission holds at that
\* moment (key, window, epoch, fence, not revoked), although the row was read
\* in an earlier step of the handler: revocation waits for the gate.
AppliedOnlyAdmitted ==
  [][replica' # replica =>
       \E w \in Workers : wpc[w] = "admitted" /\ replica' = wbatch[w].chain /\ Admitted(wbatch[w])]_vars

\* Past authentication, a request that repeats an acknowledged batch is never
\* refused for its admission or for its position in the stream: it gets the
\* original acknowledgement even if the key was revoked or fenced off since.
DuplicateGetsOriginalAck ==
  [][\A w \in Workers :
       wpc[w] \in InGate \cup {"authorized"} /\ wpc'[w] = "idle" /\ disturb' = disturb =>
         \A a \in acks : a.digest = wbatch[w] =>
           \A i \in Invocations : cbatch[i] = wbatch[w] /\ creply[i] = None => creply'[i] \in {None, a}]_vars

\* The system implements the abstract log.
Log == INSTANCE ReplicatedLog WITH
  log <- replica,
  promised <- {a.digest.chain : a \in acks},
  known <- IF wm.c \in Watermark THEN wm.c.next - 1 ELSE 0

ImplementsLog == Log!Init /\ [][Log!Next]_(Log!vars)

-----------------------------------------------------------------------------
\* The inductive invariant behind the properties above.  The gate belongs to
\* the one task that is past LookupAck:
GateInv == \A w \in Workers : wpc[w] \in InGate <=> gate = w

\* what a task relies on from its earlier steps still holds:
TaskInv ==
  \A w \in Workers :
    /\ wpc[w] \in {"applied", "counted", "refreshed"} => OnShard(wbatch[w])
    /\ wpc[w] = "admitted" /\ ~CliWhileServing => Admitted(wbatch[w])

\* the INSERT of an acknowledgement cannot hit the primary key, so that one
\* batch id never has two:
AckKeyInv ==
  /\ \A a, b \in acks : a.id = b.id => a = b
  /\ \A w \in Workers : wpc[w] \in InGate => \A a \in acks : a.id # wbatch[w].id

\* a client that read an acknowledgement read a durable one, for its batch:
ClientInv ==
  \A i \in Invocations :
    /\ creply[i] \in Ack => creply[i] \in acks
    /\ cpc[i] \in {"acked", "created", "written"} => \E a \in acks : a.digest = cbatch[i]

\* and what is in either file is at most what some acknowledgement covers.
FileInv ==
  \A f \in {wm, tmp} : f.c \in Watermark =>
    f.c.next >= 1 /\ \E a \in acks : a.epoch = f.c.epoch /\ f.c.next <= a.head + 1

IInv ==
  /\ TypeOK /\ GateInv /\ AckDurable /\ TaskInv /\ AckKeyInv
  /\ ClientInv /\ FileInv

\* Where invocations do not overlap, one of them has the files for itself: it finds
\* in the temporary file what it wrote there, and what it is going to rename is not
\* behind the watermark that it has read.
SoloInv ==
  /\ wm.open = {} /\ wm.c \notin {Empty, Torn}
  /\ \A i \in Invocations :
       /\ cpc[i] = "created" => tmp = [c |-> Empty, open |-> {i}]
       /\ cpc[i] = "written" => tmp = [c |-> NextWatermark(cbatch[i]), open |-> {}]
       /\ cpc[i] # "idle" /\ wm.c \in Watermark => wm.c.next <= cnext[i]
       /\ cpc[i] \notin {"idle", "loaded"} => cnext[i] <= Len(cbatch[i].chain)

-----------------------------------------------------------------------------
\* What README.md says of the watermark file: it is written atomically.  No
\* invocation ever finds it empty or mixed from two writes.
WatermarkReadable == wm.c \notin {Empty, Torn}

\* No step of the client takes the watermark back: a record that was
\* acknowledged and noted is not noted as missing again, even when the journal
\* was restored from a backup and is shorter than the watermark says.
WatermarkMonotone ==
  [][wm.c \in Watermark /\ disturb' = disturb =>
       wm'.c \in Watermark /\ wm'.c.next >= wm.c.next]_vars

\* What docs/DEVICE_OWNED_REPLICATED_MEMORY.md says of a revoked device: its
\* sync is rejected at once.  The shard changes only while the device is active.
RevokedDeviceNeverWrites == [][replica' # replica => deviceStatus = "active"]_vars

\* The conditions under which the stream can make progress.
CanProgress ==
  /\ deviceStatus = "active"
  /\ \A at \in Times : Admitted(SignedBatch(conf, None, <<>>, at))
  /\ WatermarkUsable(conf.epoch)
  /\ streamEpoch \in {None, conf.epoch}
  /\ Extends(journal[conf.epoch], replica)

NextSequence == IF wm.c \in Watermark THEN wm.c.next ELSE 1
CaughtUp ==
  LET j == journal[conf.epoch] IN
  NextSequence > Len(j) \/ j[NextSequence] \notin Creates

\* Every recorded fact up to the first row that is not a fact-create record is
\* eventually shipped, acknowledged and noted in the watermark, through lost
\* and repeated requests, crashes and failed handlers, once the operator's
\* admission and the stream identity stay right.  (BatchIds bounds the model:
\* behaviours that run out of ids say nothing.)
EventuallyReplicated ==
  /\ []({b.id : b \in posted} # BatchIds)
  /\ <>[]CanProgress
  => <>[]CaughtUp
=============================================================================
