-------------------------- MODULE FactCreateProofs --------------------------
(***************************************************************************)
(* Proofs about FactCreateReplication, for every value of its constants.   *)
(***************************************************************************)
EXTENDS FactCreateReplication, TLAPS

\* The first n payloads of a chain of the journal are a chain.
LEMMA CutType ==
  ASSUME NEW c \in Seq(Facts), NEW n \in 0..Len(c)
  PROVE  Cut(c, n) \in Seq(Facts) /\ Len(Cut(c, n)) = n /\ (n # 0 => Cut(c, n) # <<>>)
  <1>1. Cut(c, n) \in Seq(Facts) /\ Len(Cut(c, n)) = n
    BY DEF Cut
  <1> QED
    BY <1>1

\* Extends is a preorder on chains.
LEMMA ExtendsReflexive == ASSUME NEW c \in Seq(Facts) PROVE Extends(c, c)
  BY DEF Extends

LEMMA ExtendsTransitive ==
  ASSUME NEW c \in Seq(Facts), NEW d \in Seq(Facts), NEW e \in Seq(Facts),
         Extends(c, d), Extends(d, e)
  PROVE  Extends(c, e)
  BY DEF Extends

LEMMA NextRowType ==
  ASSUME TypeOK, NEW i \in Invocations, cpc[i] = "loaded", HasCreate(i)
  PROVE  /\ cconf[i] \in Config
         /\ NextRow(i) \in 1..Len(journal[cconf[i].epoch])
         /\ journal[cconf[i].epoch] \in Seq(Facts)
  <1>1. cconf[i] \in Config
    BY DEF TypeOK
  <1>2. journal[cconf[i].epoch] \in Seq(Facts)
    BY <1>1 DEF TypeOK, Config
  <1>3. NextRow(i) \in Nat /\ NextRow(i) >= 1
    BY DEF TypeOK, NextRow
  <1> QED
    BY <1>1, <1>2, <1>3 DEF HasCreate

LEMMA SignedBatchType ==
  ASSUME NEW c \in Config, NEW id \in BatchIds, NEW chain \in Seq(Facts) \ {<<>>}, NEW at \in Times
  PROVE  SignedBatch(c, id, chain, at) \in Batch
  BY DEF SignedBatch, Config, Batch

LEMMA AckForType == ASSUME NEW b \in Batch PROVE AckFor(b) \in Ack
  BY DEF AckFor, Ack, Batch

LEMMA NextWatermarkType == ASSUME NEW b \in Batch PROVE NextWatermark(b) \in Watermark
  BY DEF NextWatermark, Watermark, Batch

LEMMA WriteThroughType ==
  ASSUME NEW f \in File, NEW i \in Invocations, NEW new \in Watermark,
         NEW g \in WriteThrough(f, i, new)
  PROVE  g \in File
  BY DEF WriteThrough, Overwritten, File

-----------------------------------------------------------------------------
\* Type correctness.
LEMMA TypeInit == Init => TypeOK
  BY EpochAssumption, SentinelAssumption
  DEF Init, TypeOK, File, NoFile, ClientPCs, WorkerPCs, Statuses

LEMMA TypeExit ==
  ASSUME TypeOK, NEW i \in Invocations, Exit(i)
  PROVE  /\ cpc' \in [Invocations -> ClientPCs]
         /\ cconf' \in [Invocations -> Config \cup {None}]
         /\ cnext' \in [Invocations -> Nat]
         /\ cbatch' \in [Invocations -> Batch \cup {None}]
         /\ creply' \in [Invocations -> Ack \cup {None, Refused}]
         /\ \A j \in Invocations : (cconf'[j] = None) <=> (cpc'[j] = "idle")
         /\ \A j \in Invocations : (cbatch'[j] = None) <=> (cpc'[j] \in {"idle", "loaded"})
  BY DEF TypeOK, Exit, ClientPCs

LEMMA TypeDone ==
  ASSUME TypeOK, NEW w \in Workers, NEW r \in Ack \cup {None, Refused}, Done(w, r)
  PROVE  /\ wpc' \in [Workers -> WorkerPCs]
         /\ wbatch' \in [Workers -> Batch \cup {None}]
         /\ wstat' \in [Workers -> Nat]
         /\ gate' \in Workers \cup {None}
         /\ creply' \in [Invocations -> Ack \cup {None, Refused}]
         /\ \A v \in Workers : (wbatch'[v] = None) <=> (wpc'[v] = "idle")
         /\ UNCHANGED <<cpc, cconf, cnext, cbatch>>
  BY DEF TypeOK, Done, Answer, WorkerPCs

LEMMA TypeAdvance ==
  ASSUME TypeOK, NEW w \in Workers, NEW pc \in WorkerPCs, pc # "idle", wpc[w] # "idle", Advance(w, pc)
  PROVE  /\ wpc' \in [Workers -> WorkerPCs]
         /\ wbatch' \in [Workers -> Batch \cup {None}]
         /\ wstat' \in [Workers -> Nat]
         /\ \A v \in Workers : (wbatch'[v] = None) <=> (wpc'[v] = "idle")
         /\ UNCHANGED clientVars
  BY DEF TypeOK, Advance

LEMMA TypeNext == ASSUME TypeOK, [Next]_vars PROVE TypeOK'
  <1> USE DEF deviceVars, fileVars, clientVars, netVars, workerVars, ctlVars, shardVars
  <1>1. ASSUME NEW e \in Epochs, NEW f \in Facts, RecordFact(e, f) PROVE TypeOK'
    BY <1>1 DEF RecordFact, TypeOK
  <1>2. ASSUME NEW e \in Epochs, NEW n \in 0..MaxJournal, RestoreJournal(e, n) PROVE TypeOK'
    <2>1. journal[e] \in Seq(Facts) /\ n \in 0..Len(journal[e])
      BY <1>2, BoundAssumption DEF RestoreJournal, TypeOK
    <2>2. Cut(journal[e], n) \in Seq(Facts)
      BY <2>1, CutType
    <2> QED
      BY <1>2, <2>2 DEF RestoreJournal, Disturb, TypeOK
  <1>3. ASSUME NEW c \in Config, Reconfigure(c) PROVE TypeOK'
    BY <1>3 DEF Reconfigure, Disturb, TypeOK
  <1>4. ASSUME NEW n \in 0..MaxJournal, RestoreWatermark(n) PROVE TypeOK'
    <2>1. n \in Nat
      BY BoundAssumption
    <2>2. [wm.c EXCEPT !.next = n] \in Watermark
      BY <1>4, <2>1 DEF RestoreWatermark, Watermark
    <2>3. [wm EXCEPT !.c.next = n] \in File
      BY <2>2 DEF TypeOK, File
    <2>4. wm' \in File
      BY <1>4, <2>3 DEF RestoreWatermark, File, NoFile
    <2> QED
      BY <1>4, <2>4 DEF RestoreWatermark, Disturb, TypeOK
  <1>5. ASSUME NEW i \in Invocations, LoadWatermark(i) PROVE TypeOK'
    <2>1. (IF wm.c = Absent THEN 0 ELSE wm.c.next) \in Nat
      BY <1>5 DEF LoadWatermark, WatermarkUsable, Watermark
    <2> QED
      BY <1>5, <2>1, SentinelAssumption DEF LoadWatermark, TypeOK, ClientPCs
  <1>6. ASSUME NEW i \in Invocations, PostNextRecord(i) PROVE TypeOK'
    <2>1. PICK id \in BatchIds, at \in Times :
            LET b == SignedBatch(cconf[i], id, Cut(journal[cconf[i].epoch], NextRow(i)), at)
            IN /\ cbatch' = [cbatch EXCEPT ![i] = b]
               /\ posted' = posted \cup {b}
               /\ requests' = requests \cup {b}
      BY <1>6 DEF PostNextRecord
    <2>2. SignedBatch(cconf[i], id, Cut(journal[cconf[i].epoch], NextRow(i)), at) \in Batch
      BY <1>6, NextRowType, CutType, SignedBatchType DEF PostNextRecord
    <2> QED
      BY <1>6, <2>1, <2>2, SentinelAssumption DEF PostNextRecord, TypeOK, ClientPCs
  <1>7. ASSUME NEW i \in Invocations, NothingToPost(i) PROVE TypeOK'
    BY <1>7, TypeExit DEF NothingToPost, TypeOK
  <1>8. ASSUME NEW i \in Invocations, ReceiveReply(i) PROVE TypeOK'
    <2>1. CASE ValidAck(creply[i], cbatch[i])
      BY <1>8, <2>1 DEF ReceiveReply, TypeOK, ClientPCs
    <2>2. CASE ~ValidAck(creply[i], cbatch[i])
      BY <1>8, <2>2, TypeExit DEF ReceiveReply, TypeOK
    <2> QED
      BY <2>1, <2>2
  <1>9. ASSUME NEW i \in Invocations, CreateTmp(i) PROVE TypeOK'
    <2>1. tmp' \in File
      BY <1>9 DEF CreateTmp, TypeOK, File
    <2> QED
      BY <1>9, <2>1 DEF CreateTmp, TypeOK, ClientPCs
  <1>10. ASSUME NEW i \in Invocations, WriteTmp(i) PROVE TypeOK'
    <2>1. cbatch[i] \in Batch
      BY <1>10 DEF WriteTmp, TypeOK
    <2>2. wm' \in File /\ tmp' \in File
      BY <1>10, <2>1, NextWatermarkType, WriteThroughType DEF WriteTmp, TypeOK
    <2> QED
      BY <1>10, <2>2 DEF WriteTmp, TypeOK, ClientPCs
  <1>11. ASSUME NEW i \in Invocations, RenameTmp(i) PROVE TypeOK'
    <2>1. wm' \in File /\ tmp' \in File
      BY <1>11 DEF RenameTmp, TypeOK, File, NoFile
    <2> QED
      BY <1>11, <2>1, TypeExit DEF RenameTmp, TypeOK
  <1>12. ASSUME NEW i \in Invocations, ClientFails(i) PROVE TypeOK'
    <2>1. wm' \in File /\ tmp' \in File
      BY <1>12 DEF ClientFails, TypeOK, File
    <2> QED
      BY <1>12, <2>1, TypeExit DEF ClientFails, Disturb, TypeOK
  <1>13. ASSUME NEW b \in posted, Redeliver(b) PROVE TypeOK'
    BY <1>13 DEF Redeliver, Disturb, TypeOK
  <1>14. ASSUME NEW b \in posted, NEW n \in 1..Len(journal[b.epoch]), ReuseBatchId(b, n) PROVE TypeOK'
    <2>1. b \in Batch /\ journal[b.epoch] \in Seq(Facts)
      BY DEF TypeOK, Batch
    <2>2. Cut(journal[b.epoch], n) \in Seq(Facts) \ {<<>>}
      BY <2>1, CutType
    <2> DEFINE nb == [b EXCEPT !.chain = Cut(journal[b.epoch], n)]
    <2>3. nb \in Batch
      BY <2>1, <2>2 DEF Batch
    <2>4. posted' = posted \cup {nb} /\ requests' = requests \cup {nb}
      BY <1>14 DEF ReuseBatchId
    <2> HIDE DEF nb
    <2>5. posted' \subseteq Batch /\ requests' \subseteq posted'
      BY <2>3, <2>4 DEF TypeOK
    <2> QED
      BY <1>14, <2>5 DEF ReuseBatchId, Disturb, TypeOK
  <1>15. ASSUME NEW w \in Workers, NEW b \in requests, Accept(w, b) PROVE TypeOK'
    <2>1. b \in Batch
      BY DEF TypeOK
    <2> QED
      BY <1>15, <2>1, SentinelAssumption DEF Accept, TypeOK, WorkerPCs
  <1>16. ASSUME NEW w \in Workers, Authorize(w) PROVE TypeOK'
    BY <1>16, TypeAdvance, TypeDone DEF Authorize, TypeOK, WorkerPCs
  <1>17. ASSUME NEW w \in Workers, LookupAck(w) PROVE TypeOK'
    <2>1. CASE \E a \in acks : a.id = wbatch[w].id /\ Done(w, IF a.digest = wbatch[w] THEN a ELSE Refused)
      <3>1. PICK a \in acks : Done(w, IF a.digest = wbatch[w] THEN a ELSE Refused)
        BY <2>1
      <3>2. (IF a.digest = wbatch[w] THEN a ELSE Refused) \in Ack \cup {None, Refused}
        BY DEF TypeOK
      <3> QED
        BY <1>17, <3>1, <3>2, TypeDone DEF LookupAck, TypeOK
    <2>2. CASE Advance(w, "looked") /\ gate' = w
      BY <1>17, <2>2, TypeAdvance DEF LookupAck, TypeOK, WorkerPCs
    <2> QED
      BY <1>17, <2>1, <2>2 DEF LookupAck
  <1>18. ASSUME NEW w \in Workers, CheckAdmission(w) PROVE TypeOK'
    BY <1>18, TypeAdvance, TypeDone DEF CheckAdmission, TypeOK, WorkerPCs
  <1>19. ASSUME NEW w \in Workers, Apply(w) PROVE TypeOK'
    <2>1. wbatch[w] \in Batch /\ wbatch[w].chain \in Seq(Facts) /\ wbatch[w].epoch \in Epochs
      BY <1>19 DEF Apply, TypeOK, Batch
    <2>2. /\ streamEpoch' \in Epochs \cup {None} /\ replica' \in Seq(Facts)
          /\ streamEpoch' = None => replica' = <<>>
      <3>1. CASE ApplyOutcome(wbatch[w]) = "Applied"
        BY <1>19, <2>1, <3>1, SentinelAssumption DEF Apply
      <3>2. CASE ApplyOutcome(wbatch[w]) # "Applied"
        BY <1>19, <3>2 DEF Apply, TypeOK
      <3> QED
        BY <3>1, <3>2
    <2>3. CASE Advance(w, "applied") /\ UNCHANGED gate
      BY <1>19, <2>2, <2>3, TypeAdvance DEF Apply, TypeOK, WorkerPCs
    <2>4. CASE Done(w, Refused)
      BY <1>19, <2>2, <2>4, TypeDone DEF Apply, TypeOK
    <2> QED
      BY <1>19, <2>3, <2>4 DEF Apply
  <1>20. ASSUME NEW w \in Workers, ReadStats(w) PROVE TypeOK'
    BY <1>20 DEF ReadStats, TypeOK, WorkerPCs
  <1>28. ASSUME NEW w \in Workers, UpdateCounts(w) PROVE TypeOK'
    <2>1. factCount' \in Nat
      BY <1>28 DEF UpdateCounts, TypeOK
    <2> QED
      BY <1>28, <2>1, TypeAdvance DEF UpdateCounts, TypeOK, WorkerPCs
  <1>29. ASSUME NEW n \in 0..Len(replica), RefreshOutsideGate(n) PROVE TypeOK'
    BY <1>29 DEF RefreshOutsideGate, Disturb, TypeOK
  <1>21. ASSUME NEW w \in Workers, PersistAck(w) PROVE TypeOK'
    <2>1. AckFor(wbatch[w]) \in Ack
      BY <1>21, AckForType DEF PersistAck, TypeOK
    <2> QED
      BY <1>21, <2>1, TypeDone DEF PersistAck, TypeOK
  <1>22. ASSUME NEW w \in Workers, HandlerFails(w) PROVE TypeOK'
    BY <1>22, TypeDone DEF HandlerFails, Disturb, TypeOK
  <1>23. ASSUME ServerCrash PROVE TypeOK'
    BY <1>23 DEF ServerCrash, Disturb, TypeOK, WorkerPCs
  <1>24. ASSUME NEW k \in Keys, NEW row \in Admission, AdmitKey(k, row) PROVE TypeOK'
    BY <1>24 DEF AdmitKey, Disturb, TypeOK
  <1>25. ASSUME NEW k \in Keys, RevokeKey(k) PROVE TypeOK'
    <2>1. admissions[k] \in Admission
      BY <1>25 DEF RevokeKey, TypeOK
    <2>2. [admissions[k] EXCEPT !.revoked = TRUE] \in Admission
      BY <2>1 DEF Admission
    <2> QED
      BY <1>25, <2>2 DEF RevokeKey, Disturb, TypeOK
  <1>26. ASSUME NEW s \in Statuses, SetDeviceStatus(s) PROVE TypeOK'
    BY <1>26 DEF SetDeviceStatus, Disturb, TypeOK
  <1>27. CASE UNCHANGED vars
    BY <1>27 DEF TypeOK, vars
  <1> QED
    BY <1>1, <1>2, <1>3, <1>4, <1>5, <1>6, <1>7, <1>8, <1>9, <1>10, <1>11, <1>12, <1>13, <1>14,
       <1>15, <1>16, <1>17, <1>18, <1>19, <1>20, <1>21, <1>22, <1>23, <1>24, <1>25, <1>26, <1>27, <1>28, <1>29
    DEF Next, DeviceStep, ClientStep, HandlerStep, NetworkStep, OperatorStep

\* Every variable keeps its type, and a task or an invocation holds a batch
\* exactly while it works on one.
THEOREM TypeCorrect == Spec => []TypeOK
  BY TypeInit, TypeNext, PTL DEF Spec

-----------------------------------------------------------------------------
\* The inductive invariant.  Frames first: what a step that leaves some
\* variables alone cannot disturb.
LEMMA ServerFrame ==
  ASSUME IInv, UNCHANGED <<wpc, wbatch, gate, acks, admissions, streamEpoch, replica>>
  PROVE  GateInv' /\ AckDurable' /\ TaskInv' /\ AckKeyInv'
  BY DEF IInv, GateInv, AckDurable, TaskInv, AckKeyInv, OnShard, Admitted

LEMMA ClientFrame ==
  ASSUME IInv, UNCHANGED clientVars, acks \subseteq acks'
  PROVE  ClientInv'
  BY DEF IInv, ClientInv, clientVars

LEMMA FileFrame ==
  ASSUME IInv, UNCHANGED fileVars, acks \subseteq acks'
  PROVE  FileInv'
  BY DEF IInv, FileInv, fileVars

\* An invocation that ends relies on nothing any more.
LEMMA ExitKeepsClientInv ==
  ASSUME IInv, NEW i \in Invocations, Exit(i), UNCHANGED acks
  PROVE  ClientInv'
  BY SentinelAssumption DEF IInv, TypeOK, ClientInv, Exit

\* A task answers with a durable acknowledgement or with an error.
LEMMA DoneKeepsClientInv ==
  ASSUME IInv, NEW w \in Workers, NEW r \in acks' \cup {Refused}, Done(w, r), acks \subseteq acks'
  PROVE  ClientInv'
  BY SentinelAssumption DEF IInv, TypeOK, ClientInv, Done, Answer

LEMMA DoneKeepsGateInv ==
  ASSUME IInv, NEW w \in Workers, NEW r, Done(w, r)
  PROVE  GateInv'
  BY SentinelAssumption DEF IInv, TypeOK, GateInv, Done, InGate

LEMMA AdvanceKeepsGateInv ==
  ASSUME IInv, NEW w \in Workers, NEW pc, pc \in InGate <=> wpc[w] \in InGate,
         Advance(w, pc), UNCHANGED gate
  PROVE  GateInv'
  BY DEF IInv, TypeOK, GateInv, Advance

\* A task that ends changes nothing the other tasks rely on.
LEMMA DoneKeepsTaskInv ==
  ASSUME IInv, NEW w \in Workers, NEW r, Done(w, r),
         UNCHANGED <<admissions, streamEpoch, replica>>
  PROVE  TaskInv'
  BY DEF IInv, TypeOK, TaskInv, Done, OnShard, Admitted

\* Where no acknowledgement is added and no task enters the gate, the key
\* stays free.
LEMMA AckKeyFrame ==
  ASSUME IInv, UNCHANGED acks,
         \A v \in Workers : wpc'[v] \in InGate => wpc[v] \in InGate /\ wbatch'[v] = wbatch[v]
  PROVE  AckKeyInv'
  BY DEF IInv, AckKeyInv

LEMMA DoneKeepsAckKey ==
  ASSUME IInv, NEW w \in Workers, NEW r, Done(w, r), UNCHANGED acks
  PROVE  AckKeyInv'
  BY AckKeyFrame DEF IInv, TypeOK, Done, InGate

LEMMA AdvanceKeepsAckKey ==
  ASSUME IInv, NEW w \in Workers, NEW pc, pc \in InGate => wpc[w] \in InGate,
         Advance(w, pc), UNCHANGED acks
  PROVE  AckKeyInv'
  BY AckKeyFrame DEF IInv, TypeOK, Advance

\* Only Apply writes to the shard, only PersistAck to the acknowledgements.
LEMMA ShardWriters ==
  ASSUME [Next]_vars
  PROVE  /\ (\E w \in Workers : Apply(w)) \/ UNCHANGED shardVars
         /\ (\E w \in Workers : PersistAck(w)) \/ UNCHANGED acks
  BY DEF Next, vars, shardVars, ctlVars, DeviceStep, ClientStep, HandlerStep, NetworkStep,
         OperatorStep, RecordFact, RestoreJournal, Reconfigure, RestoreWatermark, LoadWatermark,
         PostNextRecord, NothingToPost, ReceiveReply, CreateTmp, WriteTmp, RenameTmp,
         ClientFails, Redeliver, ReuseBatchId, Accept, Authorize, LookupAck, CheckAdmission,
         Apply, ReadStats, UpdateCounts, PersistAck, HandlerFails, ServerCrash, RefreshOutsideGate, AdmitKey, RevokeKey,
         SetDeviceStatus

\* The shard's inbox only grows, and only in the epoch it has: what is on the
\* shard stays there.
LEMMA OnShardStable ==
  ASSUME IInv, [Next]_vars, NEW b \in Batch, OnShard(b)
  PROVE  OnShard(b)'
  <1>1. CASE UNCHANGED shardVars
    BY <1>1 DEF shardVars, OnShard
  <1>2. ASSUME NEW w \in Workers, Apply(w), ApplyOutcome(wbatch[w]) = "Applied"
        PROVE  OnShard(b)'
    <2>1. wbatch[w] \in Batch
      BY <1>2 DEF Apply, IInv, TypeOK
    <2>2. /\ wbatch[w].chain \in Seq(Facts) /\ b.chain \in Seq(Facts)
          /\ replica \in Seq(Facts) /\ b.epoch \in Epochs
      BY <2>1 DEF Batch, IInv, TypeOK
    <2>3. replica' = wbatch[w].chain /\ streamEpoch' = wbatch[w].epoch
      BY <1>2 DEF Apply
    <2>4. Extends(wbatch[w].chain, replica) /\ streamEpoch \in {None, wbatch[w].epoch}
      BY <1>2 DEF ApplyOutcome
    <2>5. streamEpoch = b.epoch /\ Extends(replica, b.chain)
      BY DEF OnShard
    <2>6. streamEpoch' = b.epoch
      BY <2>2, <2>3, <2>4, <2>5, SentinelAssumption
    <2>7. Extends(replica', b.chain)
      BY <2>2, <2>3, <2>4, <2>5, ExtendsTransitive
    <2> QED
      BY <2>6, <2>7 DEF OnShard
  <1>3. ASSUME NEW w \in Workers, Apply(w), ApplyOutcome(wbatch[w]) # "Applied"
        PROVE  UNCHANGED shardVars
    BY <1>3 DEF Apply
  <1>4. (\E w \in Workers : Apply(w)) \/ UNCHANGED shardVars
    BY ShardWriters
  <1> QED
    BY <1>1, <1>2, <1>3, <1>4

LEMMA InvInit == Init => IInv
  BY TypeInit, SentinelAssumption
  DEF Init, IInv, GateInv, AckDurable, TaskInv, AckKeyInv, ClientInv, FileInv, InGate, NoFile

\* Apart from the five handler steps that end or begin a critical section,
\* every step keeps the acknowledgements, and only PersistAck adds one.
LEMMA InvNext == ASSUME IInv, [Next]_vars PROVE IInv'
  <1> USE DEF deviceVars, fileVars, clientVars, netVars, workerVars, ctlVars, shardVars
  <1> TypeOK /\ TypeOK'
    BY TypeNext DEF IInv
  <1>a. \A b \in Batch : OnShard(b) => OnShard(b)'
    BY OnShardStable
  <1>b. ASSUME UNCHANGED <<wpc, wbatch, gate, acks, admissions, streamEpoch, replica>>,
               UNCHANGED clientVars, UNCHANGED fileVars
        PROVE  IInv'
    BY <1>b, ServerFrame, ClientFrame, FileFrame DEF IInv
  <1>1. ASSUME NEW e \in Epochs, NEW f \in Facts, RecordFact(e, f) PROVE IInv'
    BY <1>1, <1>b DEF RecordFact
  <1>2. ASSUME NEW e \in Epochs, NEW n \in 0..MaxJournal, RestoreJournal(e, n) PROVE IInv'
    BY <1>2, <1>b DEF RestoreJournal
  <1>3. ASSUME NEW c \in Config, Reconfigure(c) PROVE IInv'
    BY <1>3, <1>b DEF Reconfigure
  <1>4. ASSUME NEW n \in 0..MaxJournal, RestoreWatermark(n) PROVE IInv'
    <2>1. PICK a \in acks : a.epoch = wm.c.epoch /\ wm.c.next <= a.head + 1
      BY <1>4 DEF IInv, FileInv, RestoreWatermark
    <2>2. n \in Nat /\ wm.c.next \in Nat /\ a.head \in Nat /\ wm.c \in Watermark
      BY <1>4, BoundAssumption DEF RestoreWatermark, TypeOK, Watermark, Ack
    <2>3. n # 0 => wm'.c = [wm.c EXCEPT !.next = n]
      BY <1>4 DEF RestoreWatermark, TypeOK, File
    <2>4. n # 0 => wm'.c.epoch = wm.c.epoch /\ wm'.c.next = n
      BY <2>2, <2>3 DEF Watermark
    <2>5. n = 0 => wm'.c = Absent
      BY <1>4 DEF RestoreWatermark, NoFile
    <2>6. wm'.c \in Watermark => wm'.c.next >= 1 /\ a.epoch = wm'.c.epoch /\ wm'.c.next <= a.head + 1
      BY <1>4, <2>1, <2>2, <2>4, <2>5, SentinelAssumption DEF RestoreWatermark
    <2>7. FileInv'
      BY <1>4, <2>1, <2>6 DEF RestoreWatermark, IInv, FileInv
    <2> QED
      BY <1>4, <2>7, ServerFrame, ClientFrame DEF RestoreWatermark, IInv
  <1>5. ASSUME NEW i \in Invocations, LoadWatermark(i) PROVE IInv'
    <2>1. ClientInv'
      BY <1>5 DEF LoadWatermark, IInv, TypeOK, ClientInv
    <2> QED
      BY <1>5, <2>1, ServerFrame, FileFrame DEF LoadWatermark, IInv
  <1>6. ASSUME NEW i \in Invocations, PostNextRecord(i) PROVE IInv'
    <2>1. ClientInv'
      <3>1. \A j \in Invocations : j # i => cbatch'[j] = cbatch[j] /\ cpc'[j] = cpc[j]
        BY <1>6 DEF PostNextRecord, TypeOK
      <3>2. cpc'[i] = "sent" /\ UNCHANGED <<creply, acks>>
        BY <1>6 DEF PostNextRecord, TypeOK
      <3> QED
        BY <3>1, <3>2 DEF IInv, ClientInv
    <2> QED
      BY <1>6, <2>1, ServerFrame, FileFrame DEF PostNextRecord, IInv
  <1>7. ASSUME NEW i \in Invocations, NothingToPost(i) PROVE IInv'
    BY <1>7, ServerFrame, FileFrame, ExitKeepsClientInv DEF NothingToPost, IInv
  <1>8. ASSUME NEW i \in Invocations, ReceiveReply(i) PROVE IInv'
    <2>1. CASE ValidAck(creply[i], cbatch[i])
      <3>1. creply[i] \in Ack
        BY <1>8, <2>1 DEF ReceiveReply, ValidAck, TypeOK
      <3>2. creply[i] \in acks /\ creply[i].digest = cbatch[i]
        BY <2>1, <3>1 DEF IInv, ClientInv, ValidAck
      <3>3. ClientInv'
        BY <1>8, <2>1, <3>2 DEF ReceiveReply, IInv, TypeOK, ClientInv
      <3> QED
        BY <1>8, <3>3, ServerFrame, FileFrame DEF ReceiveReply, IInv
    <2>2. CASE ~ValidAck(creply[i], cbatch[i])
      BY <1>8, <2>2, ServerFrame, FileFrame, ExitKeepsClientInv DEF ReceiveReply, IInv
    <2> QED
      BY <2>1, <2>2
  <1>9. ASSUME NEW i \in Invocations, CreateTmp(i) PROVE IInv'
    <2>1. ClientInv'
      BY <1>9 DEF CreateTmp, IInv, TypeOK, ClientInv
    <2>2. FileInv'
      BY <1>9, SentinelAssumption DEF CreateTmp, IInv, FileInv
    <2> QED
      BY <1>9, <2>1, <2>2, ServerFrame DEF CreateTmp, IInv
  <1>10. ASSUME NEW i \in Invocations, WriteTmp(i) PROVE IInv'
    <2>1. ClientInv'
      BY <1>10 DEF WriteTmp, IInv, TypeOK, ClientInv
    <2>2. PICK a \in acks : a.digest = cbatch[i]
      BY <1>10 DEF WriteTmp, IInv, ClientInv
    <2> DEFINE new == NextWatermark(cbatch[i])
    <2>3. /\ a.head = Len(cbatch[i].chain) /\ a.epoch = cbatch[i].epoch
          /\ a.head \in Nat
      BY <2>2 DEF IInv, AckDurable, AckFor, TypeOK, Ack
    <2>4. new.next >= 1 /\ new.epoch = a.epoch /\ new.next <= a.head + 1
      BY <2>3 DEF NextWatermark
    <2> HIDE DEF new
    <2>5. ASSUME NEW f \in {wm, tmp}, NEW g \in WriteThrough(f, i, new), g.c \in Watermark
          PROVE  g.c.next >= 1 /\ \E x \in acks : x.epoch = g.c.epoch /\ g.c.next <= x.head + 1
      <3>1. g = f \/ g.c = new
        BY <2>5, SentinelAssumption DEF WriteThrough, Overwritten
      <3> QED
        BY <2>4, <2>5, <3>1 DEF IInv, FileInv
    <2>6. FileInv'
      BY <1>10, <2>5 DEF WriteTmp, FileInv, new
    <2> QED
      BY <1>10, <2>1, <2>6, ServerFrame DEF WriteTmp, IInv
  <1>11. ASSUME NEW i \in Invocations, RenameTmp(i) PROVE IInv'
    <2>1. FileInv'
      BY <1>11, SentinelAssumption DEF RenameTmp, IInv, FileInv, NoFile
    <2> QED
      BY <1>11, <2>1, ServerFrame, ExitKeepsClientInv DEF RenameTmp, IInv
  <1>12. ASSUME NEW i \in Invocations, ClientFails(i) PROVE IInv'
    <2>1. wm'.c = wm.c /\ tmp'.c = tmp.c
      BY <1>12 DEF ClientFails, TypeOK, File
    <2>2. FileInv'
      BY <1>12, <2>1 DEF ClientFails, IInv, FileInv
    <2> QED
      BY <1>12, <2>2, ServerFrame, ExitKeepsClientInv DEF ClientFails, IInv
  <1>13. ASSUME NEW b \in posted, Redeliver(b) PROVE IInv'
    <2>1. UNCHANGED <<cpc, cbatch, acks>> /\ \A i \in Invocations : creply'[i] \in {creply[i], None}
      BY <1>13 DEF Redeliver, TypeOK
    <2>2. ClientInv'
      BY <2>1, SentinelAssumption DEF IInv, ClientInv
    <2> QED
      BY <1>13, <2>2, ServerFrame, FileFrame DEF Redeliver, IInv
  <1>14. ASSUME NEW b \in posted, NEW n \in 1..Len(journal[b.epoch]), ReuseBatchId(b, n) PROVE IInv'
    BY <1>14, <1>b DEF ReuseBatchId
  <1>15. ASSUME NEW w \in Workers, NEW b \in requests, Accept(w, b) PROVE IInv'
    <2>1. GateInv'
      BY <1>15 DEF Accept, IInv, TypeOK, GateInv, InGate
    <2>2. TaskInv'
      BY <1>15 DEF Accept, IInv, TypeOK, TaskInv, OnShard, Admitted
    <2>3. AckDurable'
      BY <1>15 DEF Accept, IInv, AckDurable, OnShard
    <2>4. AckKeyInv'
      BY <1>15, AckKeyFrame DEF Accept, TypeOK, InGate
    <2> QED
      BY <1>15, <2>1, <2>2, <2>3, <2>4, ClientFrame, FileFrame DEF Accept, IInv
  <1>c. ASSUME NEW w \in Workers, Done(w, Refused),
               UNCHANGED <<fileVars, acks, admissions, streamEpoch, replica>>
        PROVE  IInv'
    <2>1. AckDurable'
      BY <1>c DEF IInv, AckDurable, OnShard
    <2> QED
      BY <1>c, <2>1, DoneKeepsClientInv, DoneKeepsGateInv, DoneKeepsTaskInv, DoneKeepsAckKey, FileFrame
      DEF IInv
  <1>16. ASSUME NEW w \in Workers, Authorize(w) PROVE IInv'
    <2>1. CASE Advance(w, "authorized") /\ UNCHANGED gate
      <3>1. GateInv'
        BY <1>16, <2>1, AdvanceKeepsGateInv DEF Authorize, InGate
      <3>2. TaskInv'
        BY <1>16, <2>1 DEF Authorize, Advance, IInv, TypeOK, TaskInv, OnShard, Admitted
      <3>3. AckDurable'
        BY <1>16 DEF Authorize, IInv, AckDurable, OnShard
      <3>4. AckKeyInv'
        BY <1>16, <2>1, AdvanceKeepsAckKey DEF Authorize, InGate
      <3> QED
        BY <1>16, <2>1, <3>1, <3>2, <3>3, <3>4, ClientFrame, FileFrame DEF Authorize, Advance, IInv
    <2>2. CASE Done(w, Refused)
      BY <1>16, <2>2, <1>c DEF Authorize
    <2> QED
      BY <1>16, <2>1, <2>2 DEF Authorize
  <1>17. ASSUME NEW w \in Workers, LookupAck(w) PROVE IInv'
    <2>1. AckDurable'
      BY <1>17 DEF LookupAck, IInv, AckDurable, OnShard
    <2>2. CASE \E a \in acks : a.id = wbatch[w].id /\ Done(w, IF a.digest = wbatch[w] THEN a ELSE Refused)
      <3>1. PICK a \in acks : Done(w, IF a.digest = wbatch[w] THEN a ELSE Refused)
        BY <2>2
      <3> QED
        BY <1>17, <2>1, <3>1, DoneKeepsClientInv, DoneKeepsGateInv, DoneKeepsTaskInv, DoneKeepsAckKey, FileFrame
        DEF LookupAck, IInv
    <2>3. CASE (\A a \in acks : a.id # wbatch[w].id) /\ Advance(w, "looked") /\ gate' = w
      <3>3. AckKeyInv'
        BY <1>17, <2>3 DEF LookupAck, Advance, IInv, TypeOK, AckKeyInv
      <3>1. GateInv'
        BY <1>17, <2>3, SentinelAssumption DEF LookupAck, Advance, IInv, TypeOK, GateInv, InGate
      <3>2. TaskInv'
        BY <1>17, <2>3 DEF LookupAck, Advance, IInv, TypeOK, TaskInv, OnShard, Admitted
      <3> QED
        BY <1>17, <2>1, <2>3, <3>1, <3>2, <3>3, ClientFrame, FileFrame DEF LookupAck, Advance, IInv
    <2> QED
      BY <1>17, <2>2, <2>3 DEF LookupAck
  <1>18. ASSUME NEW w \in Workers, CheckAdmission(w) PROVE IInv'
    <2>1. CASE Admitted(wbatch[w]) /\ Advance(w, "admitted") /\ UNCHANGED gate
      <3>1. GateInv'
        BY <1>18, <2>1, AdvanceKeepsGateInv DEF CheckAdmission, InGate
      <3>2. TaskInv'
        BY <1>18, <2>1 DEF CheckAdmission, Advance, IInv, TypeOK, TaskInv, OnShard, Admitted
      <3>3. AckDurable'
        BY <1>18 DEF CheckAdmission, IInv, AckDurable, OnShard
      <3>4. AckKeyInv'
        BY <1>18, <2>1, AdvanceKeepsAckKey DEF CheckAdmission, InGate
      <3> QED
        BY <1>18, <2>1, <3>1, <3>2, <3>3, <3>4, ClientFrame, FileFrame DEF CheckAdmission, Advance, IInv
    <2>2. CASE Done(w, Refused)
      BY <1>18, <2>2, <1>c DEF CheckAdmission
    <2> QED
      BY <1>18, <2>1, <2>2 DEF CheckAdmission
  <1>19. ASSUME NEW w \in Workers, Apply(w) PROVE IInv'
    <2>1. wbatch[w] \in Batch /\ wbatch[w].chain \in Seq(Facts)
      BY <1>19 DEF Apply, TypeOK, Batch
    <2>2. AckDurable'
      BY <1>19, <1>a DEF Apply, IInv, TypeOK, Ack, AckDurable
    <2>4. ASSUME NEW v \in Workers, v # w
          PROVE  wpc[v] \notin InGate
      BY <1>19, <2>4 DEF Apply, IInv, GateInv, InGate
    <2>5. CASE ApplyOutcome(wbatch[w]) \in AcknowledgedOutcomes
      <3>1. Advance(w, "applied") /\ UNCHANGED gate
        BY <1>19, <2>5 DEF Apply
      <3>2. OnShard(wbatch[w])'
        <4>1. CASE ApplyOutcome(wbatch[w]) = "Applied"
          <5>1. replica' = wbatch[w].chain /\ streamEpoch' = wbatch[w].epoch
            BY <1>19, <4>1 DEF Apply
          <5>2. wbatch'[w] = wbatch[w]
            BY <3>1 DEF Advance
          <5> QED
            BY <2>1, <5>1, <5>2, ExtendsReflexive DEF OnShard
        <4>2. CASE ApplyOutcome(wbatch[w]) = "Duplicate"
          <5>1. UNCHANGED <<replica, streamEpoch>> /\ wbatch'[w] = wbatch[w]
            BY <1>19, <3>1, <4>2 DEF Apply, Advance
          <5>2. streamEpoch \in {None, wbatch[w].epoch} /\ Extends(replica, wbatch[w].chain)
            BY <4>2 DEF ApplyOutcome
          <5>3. Len(wbatch[w].chain) <= Len(replica) /\ wbatch[w].chain # <<>>
            BY <2>1, <5>2 DEF Extends, Batch
          <5>4. streamEpoch # None
            BY <2>1, <5>3 DEF TypeOK
          <5> QED
            BY <5>1, <5>2, <5>4 DEF OnShard
        <4> QED
          BY <2>5, <4>1, <4>2 DEF AcknowledgedOutcomes
      <3>3. GateInv'
        BY <1>19, <3>1, AdvanceKeepsGateInv DEF Apply, InGate
      <3>4. TaskInv'
        BY <1>19, <2>4, <3>1, <3>2 DEF Apply, Advance, IInv, TypeOK, TaskInv, InGate
      <3>5. AckKeyInv'
        BY <1>19, <3>1, AdvanceKeepsAckKey DEF Apply, InGate
      <3> QED
        BY <1>19, <2>2, <3>1, <3>3, <3>4, <3>5, ClientFrame, FileFrame DEF Apply, Advance, IInv
    <2>6. CASE ApplyOutcome(wbatch[w]) \notin AcknowledgedOutcomes
      <3>1. Done(w, Refused) /\ UNCHANGED shardVars
        BY <1>19, <2>6 DEF Apply, AcknowledgedOutcomes
      <3> QED
        BY <1>19, <3>1, <1>c DEF Apply
    <2> QED
      BY <2>5, <2>6
  <1>e. ASSUME NEW w \in Workers, wpc[w] \in {"applied", "counted"},
               NEW pc \in {"counted", "refreshed"}, wpc' = [wpc EXCEPT ![w] = pc],
               UNCHANGED <<wbatch, gate, clientVars, fileVars, shardVars, acks, admissions>>
        PROVE  IInv'
    <2>1. AckDurable'
      BY <1>e DEF IInv, AckDurable, OnShard
    <2>2. GateInv'
      BY <1>e DEF IInv, TypeOK, GateInv, InGate
    <2>3. OnShard(wbatch[w])
      BY <1>e DEF IInv, TaskInv
    <2>4. TaskInv'
      BY <1>e, <2>3 DEF IInv, TypeOK, TaskInv, OnShard, Admitted
    <2>5. AckKeyInv'
      BY <1>e, AckKeyFrame DEF TypeOK, InGate
    <2> QED
      BY <1>e, <2>1, <2>2, <2>4, <2>5, ClientFrame, FileFrame DEF IInv
  <1>20. ASSUME NEW w \in Workers, ReadStats(w) \/ UpdateCounts(w) PROVE IInv'
    BY <1>20, <1>e DEF ReadStats, UpdateCounts, Advance
  <1>28. ASSUME NEW n \in 0..Len(replica), RefreshOutsideGate(n) PROVE IInv'
    BY <1>28, <1>b DEF RefreshOutsideGate
  <1>21. ASSUME NEW w \in Workers, PersistAck(w) PROVE IInv'
    <2>1. OnShard(wbatch[w])
      BY <1>21 DEF PersistAck, IInv, TaskInv
    <2>2. AckDurable'
      BY <1>21, <2>1 DEF PersistAck, IInv, AckDurable, AckFor, OnShard
    <2>4. AckFor(wbatch[w]) \in acks' /\ acks \subseteq acks' /\ Done(w, AckFor(wbatch[w]))
      BY <1>21 DEF PersistAck
    <2>5. ClientInv' /\ GateInv' /\ TaskInv' /\ FileInv'
      BY <1>21, <2>4, DoneKeepsClientInv, DoneKeepsGateInv, DoneKeepsTaskInv, FileFrame DEF PersistAck
    <2>6. AckKeyInv'
      <3>1. \A v \in Workers : wpc'[v] \in InGate => FALSE
        BY <1>21, <2>4 DEF PersistAck, Done, IInv, TypeOK, GateInv, InGate
      <3>2. \A a \in acks : a.id # AckFor(wbatch[w]).id
        BY <1>21 DEF PersistAck, IInv, AckKeyInv, InGate, AckFor
      <3> QED
        BY <1>21, <3>1, <3>2 DEF PersistAck, IInv, AckKeyInv
    <2> QED
      BY <2>2, <2>5, <2>6 DEF IInv
  <1>22. ASSUME NEW w \in Workers, HandlerFails(w) PROVE IInv'
    BY <1>22, <1>c DEF HandlerFails
  <1>23. ASSUME ServerCrash PROVE IInv'
    <2>1. GateInv' /\ TaskInv' /\ AckKeyInv'
      BY <1>23, SentinelAssumption DEF ServerCrash, IInv, GateInv, TaskInv, AckKeyInv, InGate
    <2>2. AckDurable'
      BY <1>23 DEF ServerCrash, IInv, AckDurable, OnShard
    <2>3. ClientInv'
      BY <1>23, SentinelAssumption DEF ServerCrash, IInv, TypeOK, ClientInv
    <2> QED
      BY <1>23, <2>1, <2>2, <2>3, FileFrame DEF ServerCrash, IInv
  <1>d. ASSUME GateOpen,
               UNCHANGED <<workerVars, clientVars, fileVars, shardVars, acks>>
        PROVE  IInv'
    <2>1. GateInv' /\ AckDurable' /\ AckKeyInv'
      BY <1>d DEF IInv, GateInv, AckDurable, AckKeyInv, OnShard
    <2>2. ~CliWhileServing => \A w \in Workers : wpc[w] # "admitted"
      BY <1>d, SentinelAssumption DEF GateOpen, IInv, GateInv, InGate
    <2>3. TaskInv'
      BY <1>d, <2>2 DEF IInv, TaskInv, OnShard
    <2> QED
      BY <1>d, <2>1, <2>3, ClientFrame, FileFrame DEF IInv
  <1>24. ASSUME NEW k \in Keys, NEW row \in Admission, AdmitKey(k, row) PROVE IInv'
    BY <1>24, <1>d DEF AdmitKey
  <1>25. ASSUME NEW k \in Keys, RevokeKey(k) PROVE IInv'
    BY <1>25, <1>d DEF RevokeKey
  <1>26. ASSUME NEW s \in Statuses, SetDeviceStatus(s) PROVE IInv'
    BY <1>26, <1>b DEF SetDeviceStatus
  <1>27. CASE UNCHANGED vars
    BY <1>27, <1>b DEF vars
  <1> QED
    BY <1>1, <1>2, <1>3, <1>4, <1>5, <1>6, <1>7, <1>8, <1>9, <1>10, <1>11, <1>12, <1>13, <1>14,
       <1>15, <1>16, <1>17, <1>18, <1>19, <1>20, <1>21, <1>22, <1>23, <1>24, <1>25, <1>26, <1>27, <1>28
    DEF Next, DeviceStep, ClientStep, HandlerStep, NetworkStep, OperatorStep

-----------------------------------------------------------------------------
\* The inductive invariant holds in every reachable state.
THEOREM Invariance == Spec => []IInv
  BY InvInit, InvNext, PTL DEF Spec

\* Every durable acknowledgement is about a record that is on the shard, with
\* the digest that was submitted, and stays there.
THEOREM AckIsDurable == Spec => []AckDurable
  <1>1. IInv => AckDurable
    BY DEF IInv
  <1> QED
    BY Invariance, <1>1, PTL

\* However many invocations write the watermark file, it is not ahead of the shard.
THEOREM WatermarkIsBacked == Spec => []WatermarkBacked
  <1>1. ASSUME IInv, wm.c \in Watermark
        PROVE  streamEpoch = wm.c.epoch /\ wm.c.next <= Len(replica) + 1
    <2>1. PICK a \in acks : a.epoch = wm.c.epoch /\ wm.c.next <= a.head + 1
      BY <1>1 DEF IInv, FileInv
    <2>2. a = AckFor(a.digest) /\ OnShard(a.digest) /\ a.head \in Nat
      BY <1>1 DEF IInv, AckDurable, TypeOK, Ack
    <2>3. a.head <= Len(replica) /\ streamEpoch = a.epoch
      BY <2>2 DEF AckFor, OnShard, Extends
    <2>4. wm.c.next \in Nat /\ Len(replica) \in Nat
      BY <1>1 DEF IInv, TypeOK, Watermark
    <2> QED
      BY <2>1, <2>2, <2>3, <2>4
  <1>2. IInv => WatermarkBacked
    BY <1>1 DEF WatermarkBacked
  <1> QED
    BY Invariance, <1>2, PTL

\* While mnemes-admin is not run beside the server, the shard changes only for
\* a writer whose admission holds at that very step.
THEOREM OnlyAdmittedWrites == ASSUME ~CliWhileServing PROVE Spec => AppliedOnlyAdmitted
  <1> DEFINE A == replica' # replica =>
                    \E w \in Workers : wpc[w] = "admitted" /\ replica' = wbatch[w].chain /\ Admitted(wbatch[w])
  <1>1. ASSUME IInv, [Next]_vars PROVE [A]_vars
    <2>1. (\E w \in Workers : Apply(w)) \/ UNCHANGED shardVars
      BY <1>1, ShardWriters
    <2>2. ASSUME NEW w \in Workers, Apply(w), replica' # replica
          PROVE  wpc[w] = "admitted" /\ replica' = wbatch[w].chain /\ Admitted(wbatch[w])
      BY <1>1, <2>2 DEF Apply, shardVars, IInv, TaskInv
    <2> QED
      BY <2>1, <2>2 DEF shardVars
  <1> QED
    BY Invariance, <1>1, PTL DEF Spec, AppliedOnlyAdmitted

\* Past authentication a repeated batch is answered with its acknowledgement.
THEOREM DuplicatesAreAnswered == Spec => DuplicateGetsOriginalAck
  <1> DEFINE A == \A w \in Workers :
       wpc[w] \in InGate \cup {"authorized"} /\ wpc'[w] = "idle" /\ disturb' = disturb =>
         \A a \in acks : a.digest = wbatch[w] =>
           \A i \in Invocations : cbatch[i] = wbatch[w] /\ creply[i] = None => creply'[i] \in {None, a}
  <1>1. ASSUME IInv, [Next]_vars PROVE A
    <2>1. SUFFICES ASSUME NEW w \in Workers,
                          wpc[w] \in InGate \cup {"authorized"}, wpc'[w] = "idle", disturb' = disturb,
                          NEW a \in acks, a.digest = wbatch[w],
                          NEW i \in Invocations, cbatch[i] = wbatch[w], creply[i] = None
                   PROVE  creply'[i] \in {None, a}
      OBVIOUS
    <2>2. a.id = wbatch[w].id
      BY <1>1, <2>1 DEF IInv, AckDurable, AckFor
    <2>3. wpc[w] = "authorized"
      BY <1>1, <2>1, <2>2 DEF IInv, AckKeyInv
    <2>4. disturb \in Nat /\ wpc \in [Workers -> WorkerPCs]
      BY <1>1 DEF IInv, TypeOK
    <2>5. \E v \in Workers : HandlerStep(v)
      <3>1. wpc' # wpc
        BY <2>1, <2>3
      <3>2. ~Disturb
        BY <2>1, <2>4 DEF Disturb
      <3> QED
        BY <1>1, <3>1, <3>2
        DEF Next, vars, workerVars, DeviceStep, ClientStep, NetworkStep, OperatorStep, RecordFact,
            RestoreJournal, Reconfigure, RestoreWatermark, LoadWatermark, PostNextRecord,
            NothingToPost, ReceiveReply, CreateTmp, WriteTmp, RenameTmp, ClientFails, Redeliver,
            ReuseBatchId, HandlerFails, ServerCrash, RefreshOutsideGate, AdmitKey, RevokeKey, SetDeviceStatus
    <2>6. HandlerStep(w)
      <3>1. PICK v \in Workers : HandlerStep(v)
        BY <2>5
      <3>2. v # w => wpc'[w] = wpc[w]
        BY <2>4, <3>1 DEF HandlerStep, Accept, Authorize, LookupAck, CheckAdmission, Apply,
                          ReadStats, UpdateCounts, PersistAck, Advance, Done
      <3> QED
        BY <2>1, <2>3, <3>1, <3>2
    <2>7. LookupAck(w)
      BY <2>3, <2>6 DEF HandlerStep, Accept, Authorize, CheckAdmission, Apply, ReadStats, UpdateCounts,
                        PersistAck
    <2>8. PICK x \in acks : x.id = wbatch[w].id /\ Done(w, IF x.digest = wbatch[w] THEN x ELSE Refused)
      BY <2>2, <2>7 DEF LookupAck
    <2>9. x = a
      BY <1>1, <2>2, <2>8 DEF IInv, AckKeyInv
    <2>10. Answer(wbatch[w], a)
      BY <2>1, <2>8, <2>9 DEF Done
    <2> QED
      BY <2>1, <2>10 DEF Answer
  <1> QED
    BY Invariance, <1>1, PTL DEF Spec, DuplicateGetsOriginalAck

-----------------------------------------------------------------------------
(* One invocation at a time, as the timer starts them.                     *)

OneInvocation == \A i, j \in Invocations : i = j

\* Only the steps of an invocation and a restored file change what SoloInv is about.
LEMMA SoloOthers ==
  ASSUME [Next]_vars,
         ~ \E i \in Invocations : \/ LoadWatermark(i) \/ PostNextRecord(i) \/ NothingToPost(i)
                                  \/ ReceiveReply(i) \/ CreateTmp(i) \/ WriteTmp(i)
                                  \/ RenameTmp(i) \/ ClientFails(i),
         ~ \E n \in 0..MaxJournal : RestoreWatermark(n)
  PROVE  UNCHANGED <<wm, tmp, cpc, cnext, cbatch>>
  <1> USE DEF fileVars, clientVars
  <1>1. CASE DeviceStep
    BY <1>1 DEF DeviceStep, RecordFact, RestoreJournal, Reconfigure
  <1>2. CASE \E w \in Workers : HandlerStep(w) \/ HandlerFails(w)
    BY <1>2 DEF HandlerStep, HandlerFails, Accept, Authorize, LookupAck, CheckAdmission, Apply,
                ReadStats, UpdateCounts, PersistAck, Advance, Done
  <1>3. CASE NetworkStep
    BY <1>3 DEF NetworkStep, Redeliver, ReuseBatchId
  <1>4. CASE ServerCrash \/ OperatorStep \/ \E n \in 0..Len(replica) : RefreshOutsideGate(n)
    BY <1>4 DEF ServerCrash, OperatorStep, RefreshOutsideGate, AdmitKey, RevokeKey, SetDeviceStatus
  <1>5. CASE UNCHANGED vars
    BY <1>5 DEF vars
  <1> QED
    BY <1>1, <1>2, <1>3, <1>4, <1>5 DEF Next, ClientStep

\* An invocation that ends leaves nothing to be relied on.
LEMMA SoloExit ==
  ASSUME TypeOK, OneInvocation, NEW i \in Invocations, Exit(i),
         wm'.open = {}, wm'.c \notin {Empty, Torn}
  PROVE  SoloInv'
  <1>1. \A j \in Invocations : cpc'[j] = "idle"
    BY DEF TypeOK, OneInvocation, Exit
  <1> QED
    BY <1>1 DEF SoloInv

LEMMA SoloStep ==
  ASSUME TypeOK, SoloInv, OneInvocation, [Next]_vars
  PROVE  SoloInv'
  <1> USE DEF fileVars, clientVars
  <1>1. ASSUME NEW i \in Invocations, LoadWatermark(i) PROVE SoloInv'
    <2>1. /\ UNCHANGED <<wm, tmp, cbatch>> /\ cpc'[i] = "loaded"
          /\ wm.c \in Watermark => cnext'[i] = wm.c.next
      BY <1>1, SentinelAssumption DEF LoadWatermark, TypeOK
    <2>2. \A j \in Invocations : j = i
      BY DEF OneInvocation
    <2>3. wm.c \in Watermark => wm.c.next \in Nat
      BY DEF Watermark
    <2> QED
      BY <2>1, <2>2, <2>3 DEF SoloInv
  <1>2. ASSUME NEW i \in Invocations, PostNextRecord(i) PROVE SoloInv'
    <2>1. PICK id \in BatchIds, at \in Times :
            cbatch' = [cbatch EXCEPT ![i] =
              SignedBatch(cconf[i], id, Cut(journal[cconf[i].epoch], NextRow(i)), at)]
      BY <1>2 DEF PostNextRecord
    <2>2. NextRow(i) \in Nat /\ cnext[i] <= NextRow(i)
      BY DEF NextRow, TypeOK
    <2>3. Len(cbatch'[i].chain) = NextRow(i)
      <3>1. cbatch'[i].chain = Cut(journal[cconf[i].epoch], NextRow(i))
        BY <2>1 DEF TypeOK, SignedBatch
      <3>2. /\ journal[cconf[i].epoch] \in Seq(Facts)
            /\ NextRow(i) \in 0..Len(journal[cconf[i].epoch])
        BY <1>2, NextRowType DEF PostNextRecord
      <3> QED
        BY <3>1, <3>2, CutType
    <2>4. UNCHANGED <<wm, tmp, cnext>> /\ cpc[i] = "loaded" /\ cpc'[i] = "sent"
      BY <1>2 DEF PostNextRecord, TypeOK
    <2>5. \A j \in Invocations : j = i
      BY DEF OneInvocation
    <2> QED
      BY <2>2, <2>3, <2>4, <2>5 DEF SoloInv
  <1>3. ASSUME NEW i \in Invocations, NothingToPost(i) PROVE SoloInv'
    BY <1>3, SoloExit DEF NothingToPost, SoloInv
  <1>4. ASSUME NEW i \in Invocations, ReceiveReply(i) PROVE SoloInv'
    <2>1. CASE Exit(i)
      BY <1>4, <2>1, SoloExit DEF ReceiveReply, SoloInv
    <2>2. CASE ~ Exit(i)
      <3>1. UNCHANGED <<wm, tmp, cnext, cbatch>> /\ cpc[i] = "sent" /\ cpc'[i] = "acked"
        BY <1>4, <2>2 DEF ReceiveReply, TypeOK
      <3>2. \A j \in Invocations : j = i
        BY DEF OneInvocation
      <3> QED
        BY <3>1, <3>2 DEF SoloInv
    <2> QED
      BY <2>1, <2>2
  <1>5. ASSUME NEW i \in Invocations, CreateTmp(i) PROVE SoloInv'
    <2>1. /\ UNCHANGED <<wm, cnext, cbatch>> /\ cpc[i] = "acked" /\ cpc'[i] = "created"
          /\ tmp' = [c |-> Empty, open |-> tmp.open \cup {i}]
      BY <1>5 DEF CreateTmp, TypeOK
    <2>2. \A j \in Invocations : j = i
      BY DEF OneInvocation
    <2>3. tmp.open \cup {i} = {i}
      BY <2>2 DEF TypeOK, File
    <2> QED
      BY <2>1, <2>2, <2>3 DEF SoloInv
  <1>6. ASSUME NEW i \in Invocations, WriteTmp(i) PROVE SoloInv'
    <2>1. /\ UNCHANGED <<cnext, cbatch>> /\ cpc[i] = "created" /\ cpc'[i] = "written"
          /\ tmp' \in WriteThrough(tmp, i, NextWatermark(cbatch[i]))
          /\ wm' \in WriteThrough(wm, i, NextWatermark(cbatch[i]))
      BY <1>6 DEF WriteTmp, TypeOK
    <2>2. wm' = wm
      BY <2>1 DEF SoloInv, WriteThrough
    <2>3. tmp' = [c |-> NextWatermark(cbatch[i]), open |-> {}]
      <3>1. tmp.c = Empty /\ tmp.open = {i}
        BY <2>1 DEF SoloInv
      <3>2. tmp' \in {[c |-> x, open |-> {i} \ {i}] : x \in {NextWatermark(cbatch[i])}}
        BY <2>1, <3>1 DEF WriteThrough, Overwritten
      <3> QED
        BY <3>2
    <2>4. \A j \in Invocations : j = i
      BY DEF OneInvocation
    <2> QED
      BY <2>1, <2>2, <2>3, <2>4 DEF SoloInv
  <1>7. ASSUME NEW i \in Invocations, RenameTmp(i) PROVE SoloInv'
    <2>1. tmp = [c |-> NextWatermark(cbatch[i]), open |-> {}] /\ tmp.c \in Watermark
      <3>1. tmp = [c |-> NextWatermark(cbatch[i]), open |-> {}] /\ cbatch[i] \in Batch
        BY <1>7 DEF RenameTmp, SoloInv, TypeOK
      <3> QED
        BY <3>1, NextWatermarkType
    <2>2. wm' = tmp
      BY <1>7, <2>1, SentinelAssumption DEF RenameTmp
    <2> QED
      BY <1>7, <2>1, <2>2, SentinelAssumption, SoloExit DEF RenameTmp
  <1>8. ASSUME NEW i \in Invocations, ClientFails(i) PROVE SoloInv'
    BY <1>8, SoloExit DEF ClientFails, SoloInv, TypeOK, File
  <1>9. ASSUME NEW n \in 0..MaxJournal, RestoreWatermark(n) PROVE SoloInv'
    <2>1. UNCHANGED <<tmp, cpc, cnext, cbatch>> /\ wm.c \in Watermark /\ n < wm.c.next
      BY <1>9 DEF RestoreWatermark
    <2>2. /\ wm'.open = {} /\ wm'.c \notin {Empty, Torn}
          /\ wm'.c \in Watermark => wm'.c.next <= wm.c.next
      <3>1. CASE n = 0
        BY <1>9, <3>1, SentinelAssumption DEF RestoreWatermark, NoFile
      <3>2. CASE n # 0
        <4>1. wm' = [wm EXCEPT !.c.next = n]
          BY <1>9, <3>2 DEF RestoreWatermark
        <4>2. wm'.open = {} /\ wm'.c = [wm.c EXCEPT !.next = n]
          BY <4>1 DEF TypeOK, File, SoloInv
        <4>3. n \in Nat
          BY BoundAssumption
        <4>4. wm'.c \in Watermark /\ wm'.c.next = n
          BY <2>1, <4>2, <4>3 DEF Watermark
        <4>5. wm.c.next \in Nat
          BY <2>1 DEF Watermark
        <4> QED
          BY <2>1, <4>2, <4>3, <4>4, <4>5, SentinelAssumption
      <3> QED
        BY <3>1, <3>2
    <2>3. /\ wm.c.next \in Nat /\ \A i \in Invocations : cnext[i] \in Nat
          /\ wm'.c \in Watermark => wm'.c.next \in Nat
      BY <2>1 DEF Watermark, TypeOK
    <2> QED
      BY <2>1, <2>2, <2>3 DEF SoloInv
  <1>10. CASE UNCHANGED <<wm, tmp, cpc, cnext, cbatch>>
    BY <1>10 DEF SoloInv
  <1> QED
    BY <1>1, <1>2, <1>3, <1>4, <1>5, <1>6, <1>7, <1>8, <1>9, <1>10, SoloOthers

LEMMA SoloInvariance == ASSUME OneInvocation PROVE Spec => [](TypeOK /\ SoloInv)
  <1>1. Init => SoloInv
    BY SentinelAssumption DEF Init, NoFile, SoloInv
  <1>2. TypeOK /\ SoloInv /\ [Next]_vars => SoloInv'
    BY SoloStep
  <1> QED
    BY <1>1, <1>2, TypeCorrect, PTL DEF Spec

\* The watermark file that one invocation at a time writes is never found empty or
\* torn (write_watermark).  With two of them it is.
THEOREM WatermarkIsReadable == ASSUME OneInvocation PROVE Spec => []WatermarkReadable
  <1>1. SoloInv => WatermarkReadable
    BY DEF SoloInv, WatermarkReadable
  <1> QED
    BY <1>1, SoloInvariance, PTL

\* No step but a failure or the operator's takes the watermark back, whatever has
\* become of the journal meanwhile (write_watermark).
THEOREM WatermarkNeverTakenBack == ASSUME OneInvocation PROVE Spec => WatermarkMonotone
  <1>1. ASSUME TypeOK, SoloInv, [Next]_vars
        PROVE  [wm.c \in Watermark /\ disturb' = disturb =>
                  wm'.c \in Watermark /\ wm'.c.next >= wm.c.next]_vars
    <2> SUFFICES ASSUME wm.c \in Watermark, disturb' = disturb, wm' # wm
                 PROVE  wm'.c \in Watermark /\ wm'.c.next >= wm.c.next
      <3>1. wm.c \in Watermark => wm.c.next \in Nat
        BY DEF Watermark
      <3> QED
        BY <3>1
    <2>1. disturb \in Nat /\ ~ Disturb
      BY <1>1 DEF TypeOK, Disturb
    <2>2. PICK i \in Invocations : WriteTmp(i) \/ RenameTmp(i)
      BY <1>1, <2>1, SoloOthers
      DEF LoadWatermark, PostNextRecord, NothingToPost, ReceiveReply, CreateTmp, ClientFails,
          RestoreWatermark, fileVars
    <2>3. RenameTmp(i)
      BY <1>1, <2>2 DEF WriteTmp, WriteThrough, SoloInv
    <2>4. /\ tmp = [c |-> NextWatermark(cbatch[i]), open |-> {}] /\ wm' = tmp
          /\ cbatch[i] \in Batch /\ cnext[i] \in Nat /\ wm.c.next \in Nat
          /\ wm.c.next <= cnext[i] /\ cnext[i] <= Len(cbatch[i].chain)
      BY <1>1, <2>3 DEF RenameTmp, SoloInv, TypeOK, Watermark, fileVars
    <2>5. wm'.c \in Watermark /\ wm'.c.next = Len(cbatch[i].chain) + 1
      BY <2>4, NextWatermarkType DEF NextWatermark
    <2>6. Len(cbatch[i].chain) \in Nat
      BY <2>4 DEF Batch
    <2> QED
      BY <2>4, <2>5, <2>6
  <1> QED
    BY <1>1, SoloInvariance, PTL DEF Spec, WatermarkMonotone

-----------------------------------------------------------------------------
\* The system implements the abstract log: the shard's chain, the chains that
\* were acknowledged and the watermark behave as ReplicatedLog says.
THEOREM Refinement == Spec => ImplementsLog
  <1>1. Init => Log!Init
    BY SentinelAssumption DEF Init, NoFile, Log!Init
  <1>2. ASSUME IInv, IInv', [Next]_vars PROVE [Log!Next]_(Log!vars)
    <2>1. CASE UNCHANGED <<replica, acks>>
      <3> DEFINE known == IF wm.c \in Watermark THEN wm.c.next - 1 ELSE 0
      <3>1. known' \in Nat /\ (known' = 0 \/ \E a \in acks : known' <= Len(a.digest.chain))
        <4>1. CASE wm'.c \notin Watermark
          BY <4>1
        <4>2. CASE wm'.c \in Watermark
          <5>1. PICK a \in acks : wm'.c.next <= a.head + 1
            BY <1>2, <2>1, <4>2 DEF IInv, FileInv
          <5>2. wm'.c.next \in Nat /\ wm'.c.next >= 1
            BY <1>2, <4>2 DEF IInv, FileInv, Watermark
          <5>3. a.head = Len(a.digest.chain) /\ a.head \in Nat
            BY <1>2 DEF IInv, AckDurable, AckFor, TypeOK, Ack
          <5> QED
            BY <4>2, <5>1, <5>2, <5>3
        <4> QED
          BY <4>1, <4>2
      <3>2. Log!Learn(known')
        BY <2>1, <3>1 DEF Log!Learn
      <3> QED
        BY <3>1, <3>2 DEF Log!Next
    <2>2. ASSUME NEW w \in Workers, Apply(w), replica' # replica PROVE Log!Next
      <3>1. wbatch[w].chain \in Seq(Facts) /\ replica' = wbatch[w].chain
        BY <1>2, <2>2 DEF Apply, shardVars, IInv, TypeOK, Batch
      <3>2. Len(wbatch[w].chain) = Len(replica) + 1 /\ Extends(wbatch[w].chain, replica)
        BY <2>2 DEF Apply, ApplyOutcome, shardVars
      <3>3. UNCHANGED <<acks, wm>>
        BY <2>2 DEF Apply, ctlVars, fileVars
      <3>4. Log!Grow(replica')
        BY <3>1, <3>2, <3>3 DEF Log!Grow, Log!IsPrefixOf, Extends
      <3> QED
        BY <3>1, <3>4 DEF Log!Next
    <2>3. ASSUME NEW w \in Workers, PersistAck(w) PROVE Log!Next
      <3> DEFINE c == wbatch[w].chain
      <3>1. c # <<>> /\ Log!IsPrefixOf(c, replica)
        BY <1>2, <2>3 DEF PersistAck, IInv, TypeOK, TaskInv, Batch, OnShard, Extends, Log!IsPrefixOf
      <3>2. acks' = acks \cup {AckFor(wbatch[w])} /\ UNCHANGED <<replica, wm>>
        BY <2>3 DEF PersistAck, shardVars, fileVars
      <3>3. AckFor(wbatch[w]).digest.chain = c
        BY DEF AckFor
      <3>4. {a.digest.chain : a \in acks'} = {a.digest.chain : a \in acks} \cup {c}
        BY <3>2, <3>3
      <3>5. c \in {a.digest.chain : a \in acks'}
        BY <3>4
      <3> QED
        BY <3>1, <3>2, <3>4, <3>5 DEF Log!Next, Log!Promise
    <2>4. (\E w \in Workers : Apply(w)) \/ UNCHANGED replica
      BY <1>2, ShardWriters DEF shardVars
    <2>5. (\E w \in Workers : PersistAck(w)) \/ UNCHANGED acks
      BY <1>2, ShardWriters
    <2> QED
      BY <2>1, <2>2, <2>3, <2>4, <2>5
  <1> QED
    BY Invariance, <1>1, <1>2, PTL DEF Spec, ImplementsLog
=============================================================================
