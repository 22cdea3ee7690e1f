------------------------- MODULE FactSupersedeProofs -------------------------
(***************************************************************************)
(* Proofs about FactSupersede, for every value of its constants.           *)
(***************************************************************************)
EXTENDS FactSupersede, SequenceTheorems, TLAPS

-----------------------------------------------------------------------------
\* What the owner and its caller can sign is a batch.
LEMMA ChainType == Chains \subseteq Seq(Record) \ {<<>>}
  <1>1. SUFFICES ASSUME NEW n \in 1..MaxRecords, NEW c \in [1..n -> Record]
                 PROVE  SubSeq(c, 1, n) \in Seq(Record) \ {<<>>}
    BY DEF Chains
  <1>2. n \in Nat \ {0} /\ c \in Seq(Record) /\ Len(c) = n
    BY BoundAssumption
  <1>3. \A i \in 1..n : c[i] \in Record
    OBVIOUS
  <1>4. SubSeq(c, 1, n) \in Seq(Record) /\ Len(SubSeq(c, 1, n)) = n
    BY <1>2, <1>3, SubSeqProperties
  <1> QED
    BY <1>2, <1>4

LEMMA SignableType == Signable \subseteq Batch
  BY ChainType DEF Signable, Batch, OwnerChains, AlteredChains

LEMMA FamilyType == ASSUME NEW b \in Batch PROVE Family(b) \in Families
  <1>1. b.chain \in Seq(Record) /\ Len(b.chain) \in 1..Len(b.chain)
    BY DEF Batch
  <1>2. b.chain[Len(b.chain)] \in Record
    BY <1>1
  <1> QED
    BY <1>2 DEF Family, LastOf, Record, Families

LEMMA AckForType == ASSUME NEW b \in Batch PROVE AckFor(b) \in Ack
  BY DEF AckFor, Ack, Batch

\* The task of a family works on a batch of that family.
LEMMA TaskType ==
  ASSUME TypeOK, NEW f \in Families, task[f] # None
  PROVE  task[f] \in Task /\ task[f].batch \in Batch /\ Family(task[f].batch) = f
  BY DEF TypeOK, Task

LEMMA TypeDone ==
  ASSUME TypeOK, NEW f \in Families, Done(f)
  PROVE  /\ task' \in [Families -> Task \cup {None}]
         /\ \A g \in Families : task'[g] # None => Family(task'[g].batch) = g
  BY DEF TypeOK, Done

LEMMA TypeAdvance ==
  ASSUME TypeOK, NEW f \in Families, NEW pc \in {"admitted", "applied", "refreshed"},
         task[f] # None, Advance(f, pc)
  PROVE  /\ task' \in [Families -> Task \cup {None}]
         /\ \A g \in Families : task'[g] # None => Family(task'[g].batch) = g
  <1> DEFINE new == [task[f] EXCEPT !.pc = pc]
  <1>1. new \in Task /\ new.batch = task[f].batch
    BY TaskType DEF Task
  <1>2. Family(new.batch) = f
    BY <1>1, TaskType
  <1>3. task' = [task EXCEPT ![f] = new]
    BY DEF Advance
  <1> HIDE DEF new
  <1> QED
    BY <1>1, <1>2, <1>3 DEF TypeOK

LEMMA TypeInit == Init => TypeOK
  <1>1. Rows \subseteq Admission
    BY RowAssumption
  <1> QED
    BY <1>1 DEF Init, TypeOK

\* What the shard decides: it takes the next record of its stream only, answers for
\* one that it holds, and calls a conflict what can never get there.
LEMMA Outcomes ==
  ASSUME TypeOK, NEW b \in Batch
  PROVE  /\ ApplyOutcome(b) = "Applied" =>
              /\ streamEpoch \in {None, b.epoch}
              /\ Len(b.chain) = Len(replica) + 1
              /\ Extends(b.chain, replica) /\ OldIsHead(LastOf(b.chain))
         /\ ApplyOutcome(b) = "Duplicate" => OnShard(b)
         /\ ApplyOutcome(b) \in {"EpochConflict", "StalePredecessor", "Fork"} => Doomed(b)
  <1>1. /\ b.chain \in Seq(Record) /\ Len(b.chain) \in Nat \ {0}
        /\ replica \in Seq(Record) /\ Len(replica) \in Nat
    BY DEF TypeOK, Batch
  <1>2. CASE streamEpoch \notin {None, b.epoch}
    BY <1>2 DEF ApplyOutcome, Doomed
  <1>3. CASE streamEpoch \in {None, b.epoch} /\ Len(b.chain) > Len(replica) + 1
    BY <1>3 DEF ApplyOutcome
  <1>4. CASE streamEpoch \in {None, b.epoch} /\ Len(b.chain) <= Len(replica)
    <2>1. ~(Len(b.chain) > Len(replica) + 1)
      BY <1>1, <1>4
    <2>2. streamEpoch = b.epoch
      <3>1. replica # <<>>
        BY <1>1, <1>4
      <3> QED
        BY <1>4, <3>1 DEF TypeOK
    <2>3. CASE Extends(replica, b.chain)
      <3>1. ApplyOutcome(b) = "Duplicate"
        BY <1>4, <2>1, <2>3 DEF ApplyOutcome
      <3> QED
        BY <2>2, <2>3, <3>1 DEF OnShard
    <2>4. CASE ~Extends(replica, b.chain)
      <3>1. ApplyOutcome(b) = "Fork"
        BY <1>4, <2>1, <2>4 DEF ApplyOutcome
      <3>2. PICK i \in 1..Len(b.chain) : replica[i] # b.chain[i]
        BY <1>4, <2>4 DEF Extends
      <3>3. i <= Len(replica)
        BY <1>1, <1>4
      <3>4. Doomed(b)
        BY <3>2, <3>3 DEF Doomed
      <3> QED
        BY <3>1, <3>4
    <2> QED
      BY <2>3, <2>4
  <1>5. CASE streamEpoch \in {None, b.epoch} /\ Len(b.chain) = Len(replica) + 1
    <2>1. ~(Len(b.chain) > Len(replica) + 1) /\ ~(Len(b.chain) <= Len(replica))
      BY <1>1, <1>5
    <2>2. CASE Extends(b.chain, replica) /\ OldIsHead(LastOf(b.chain))
      <3>1. ApplyOutcome(b) = "Applied"
        BY <1>5, <2>1, <2>2 DEF ApplyOutcome
      <3> QED
        BY <1>5, <2>2, <3>1
    <2>3. CASE ~(Extends(b.chain, replica) /\ OldIsHead(LastOf(b.chain)))
      <3>1. ApplyOutcome(b) = "StalePredecessor"
        BY <1>5, <2>1, <2>3 DEF ApplyOutcome
      <3>2. CASE ~Extends(b.chain, replica)
        <4>1. PICK i \in 1..Len(replica) : b.chain[i] # replica[i]
          BY <1>1, <1>5, <3>2 DEF Extends
        <4>2. i \in 1..Len(b.chain) /\ i <= Len(replica)
          BY <1>1, <1>5
        <4>3. Doomed(b)
          BY <4>1, <4>2 DEF Doomed
        <4> QED
          BY <3>1, <4>3
      <3>3. CASE Extends(b.chain, replica) /\ ~OldIsHead(LastOf(b.chain))
        <4> DEFINE n == Len(b.chain)
        <4>1. 1..(n - 1) = 1..Len(replica) /\ \A j \in 1..(n - 1) : b.chain[j] = replica[j]
          BY <1>1, <1>5, <3>3 DEF Extends
        <4>2. ~HeadAt(b.chain, n)
          BY <3>3, <4>1 DEF HeadAt, OldIsHead, LastOf, FactsOf, Superseded
        <4>3. Doomed(b)
          BY <4>2 DEF Doomed
        <4> QED
          BY <3>1, <4>3
      <3> QED
        BY <2>3, <3>2, <3>3
    <2> QED
      BY <2>2, <2>3
  <1> QED
    BY <1>1, <1>2, <1>3, <1>4, <1>5

LEMMA TypeNext == TypeOK /\ [Next]_vars => TypeOK'
  <1> SUFFICES ASSUME TypeOK, [Next]_vars PROVE TypeOK'
    OBVIOUS
  <1>d. Disturb => disturb' \in Nat
    BY DEF Disturb, TypeOK
  <1>1. ASSUME NEW b \in Signable, Post(b) PROVE TypeOK'
    <2>1. b \in Batch
      BY SignableType
    <2>2. irregular' \in Nat
      BY <1>1 DEF Post, TypeOK
    <2>3. posted' \subseteq Batch
      BY <1>1, <2>1 DEF Post, TypeOK
    <2> QED
      BY <1>1, <2>2, <2>3 DEF Post, TypeOK, shardVars, histVars
  <1>2. ASSUME NEW b \in posted, LookupAndAdmit(b) PROVE TypeOK'
    <2> DEFINE new == [pc |-> "admitted", batch |-> b]
    <2>1. b \in Batch /\ Family(b) \in Families
      BY FamilyType DEF TypeOK
    <2>2. new \in Task /\ new.batch = b
      BY <2>1 DEF Task
    <2>3. task' = [task EXCEPT ![Family(b)] = new]
      BY <1>2 DEF LookupAndAdmit
    <2> HIDE DEF new
    <2>4. /\ task' \in [Families -> Task \cup {None}]
          /\ \A g \in Families : task'[g] # None => Family(task'[g].batch) = g
      BY <2>1, <2>2, <2>3 DEF TypeOK
    <2> QED
      BY <1>2, <2>4 DEF LookupAndAdmit, TypeOK, shardVars, histVars
  <1>3. ASSUME RefreshShardCounts PROVE TypeOK'
    <2>1. "create" \in Families
      BY DEF Families
    <2>2. factCount' \in Nat
      BY <1>3, <2>1, TaskType DEF RefreshShardCounts, TypeOK, Batch
    <2>3. /\ task' \in [Families -> Task \cup {None}]
          /\ \A g \in Families : task'[g] # None => Family(task'[g].batch) = g
      BY <1>3, <2>1, TypeAdvance DEF RefreshShardCounts
    <2> QED
      BY <1>3, <2>2, <2>3 DEF RefreshShardCounts, TypeOK, shardVars, histVars
  <1>4. ASSUME NEW f \in Families, Apply(f) PROVE TypeOK'
    <2> DEFINE b == task[f].batch
    <2>1. b \in Batch /\ task[f] # None
      BY <1>4, TaskType DEF Apply
    <2>2. b.chain \in Seq(Record) /\ b.epoch \in Epochs
      BY <2>1 DEF Batch
    <2>3. /\ task' \in [Families -> Task \cup {None}]
          /\ \A g \in Families : task'[g] # None => Family(task'[g].batch) = g
      BY <1>4, <2>1, TypeAdvance, TypeDone DEF Apply
    <2>4. /\ streamEpoch' \in Epochs \cup {None} /\ replica' \in Seq(Record)
          /\ streamEpoch' = None => replica' = <<>>
          /\ late' \in [Families -> Nat]
      <3>1. CASE ApplyOutcome(b) = "Applied"
        BY <1>4, <2>2, <3>1, SentinelAssumption DEF Apply, TypeOK
      <3>2. CASE ApplyOutcome(b) # "Applied"
        BY <1>4, <3>2 DEF Apply, TypeOK, shardVars
      <3> QED
        BY <3>1, <3>2
    <2>5. conflicts' \subseteq Batch
      BY <1>4, <2>1 DEF Apply, TypeOK
    <2> QED
      BY <1>4, <2>3, <2>4, <2>5 DEF Apply, TypeOK
  <1>5. ASSUME NEW f \in Families, PersistAck(f) PROVE TypeOK'
    <2>1. AckFor(task[f].batch) \in Ack
      BY <1>5, TaskType, AckForType DEF PersistAck
    <2>2. acks' \in [Families -> SUBSET Ack]
      BY <1>5, <2>1 DEF PersistAck, TypeOK
    <2> QED
      BY <1>5, <2>2, TypeDone DEF PersistAck, TypeOK, shardVars, histVars
  <1>6. ASSUME NEW f \in Families, HandlerFails(f) PROVE TypeOK'
    BY <1>6, <1>d, TypeDone DEF HandlerFails, TypeOK, shardVars, histVars
  <1>7. ASSUME ServerCrash PROVE TypeOK'
    BY <1>7, <1>d DEF ServerCrash, TypeOK, shardVars, histVars
  <1>8. ASSUME NEW f \in Families, NEW k \in Keys, NEW row \in Admission,
               Disturb, SetAdmission(f, k, row)
        PROVE  TypeOK'
    BY <1>8, <1>d DEF SetAdmission, TypeOK, shardVars
  <1>9. ASSUME NEW f \in Families, NEW k \in Keys, NEW row \in Rows, AdmitKey(f, k, row)
        PROVE  TypeOK'
    BY <1>8, <1>9, RowAssumption DEF AdmitKey
  <1>10. ASSUME NEW f \in Families, NEW k \in Keys, RevokeKey(f, k) PROVE TypeOK'
    <2>1. admissions[f][k] \in Admission
      BY DEF TypeOK
    <2>2. [admissions[f][k] EXCEPT !.revoked = TRUE] \in Admission
      BY <2>1 DEF Admission
    <2> QED
      BY <1>8, <1>10, <2>2 DEF RevokeKey
  <1>11. ASSUME NEW n \in 0..Len(replica), RefreshOutsideGate(n) PROVE TypeOK'
    BY <1>11, <1>d DEF RefreshOutsideGate, TypeOK, shardVars, histVars
  <1>12. CASE UNCHANGED vars
    BY <1>12 DEF TypeOK, vars, shardVars, histVars
  <1> QED
    BY <1>1, <1>2, <1>3, <1>4, <1>5, <1>6, <1>7, <1>9, <1>10, <1>11, <1>12
    DEF Next, HandlerStep, OperatorStep

\* Every variable keeps its type, a task works for the family whose gate it holds,
\* and a shard without an epoch holds nothing.
THEOREM TypeCorrect == Spec => []TypeOK
  BY TypeInit, TypeNext, PTL DEF Spec

-----------------------------------------------------------------------------
\* Who writes the shard, the acknowledgements and the admissions.
LEMMA Writers ==
  ASSUME [Next]_vars
  PROVE  /\ (\E f \in Families : Apply(f)) \/ UNCHANGED <<shardVars, conflicts>>
         /\ (\E f \in Families : PersistAck(f)) \/ UNCHANGED acks
  BY DEF Next, vars, Post, HandlerStep, LookupAndAdmit, RefreshShardCounts, Apply, PersistAck,
         HandlerFails, ServerCrash, RefreshOutsideGate, OperatorStep, AdmitKey, RevokeKey, SetAdmission, shardVars, histVars

\* The shard is left alone, or takes the batch of a task, which is the shard's
\* stream with one record more.
Takes(b) ==
  /\ streamEpoch \in {None, b.epoch}
  /\ Len(b.chain) = Len(replica) + 1
  /\ Extends(b.chain, replica) /\ OldIsHead(LastOf(b.chain))
  /\ replica' = b.chain /\ streamEpoch' = b.epoch

LEMMA ShardNext ==
  ASSUME TypeOK, [Next]_vars
  PROVE  UNCHANGED shardVars \/ \E b \in Batch : Takes(b)
  <1>1. CASE \E f \in Families : Apply(f)
    <2>1. PICK f \in Families : Apply(f)
      BY <1>1
    <2> DEFINE b == task[f].batch
    <2>2. b \in Batch
      BY <2>1, TaskType DEF Apply
    <2>3. CASE ApplyOutcome(b) = "Applied"
      <3>1. replica' = b.chain /\ streamEpoch' = b.epoch
        BY <2>1, <2>3 DEF Apply
      <3> HIDE DEF b
      <3>2. Takes(b)
        BY <2>2, <2>3, <3>1, Outcomes DEF Takes
      <3> QED
        BY <2>2, <3>2
    <2>4. CASE ApplyOutcome(b) # "Applied"
      BY <2>1, <2>4 DEF Apply
    <2> QED
      BY <2>3, <2>4
  <1> QED
    BY <1>1, Writers DEF shardVars

\* What is on the shard stays there, and what can never get there never can.
LEMMA OnShardStays ==
  ASSUME TypeOK, [Next]_vars, NEW b \in Batch, OnShard(b)
  PROVE  OnShard(b)'
  <1>1. CASE UNCHANGED shardVars
    BY <1>1 DEF OnShard, shardVars
  <1>2. ASSUME NEW x \in Batch, Takes(x) PROVE OnShard(b)'
    <2>1. streamEpoch # None
      BY SentinelAssumption DEF OnShard, Batch
    <2>2. streamEpoch' = b.epoch
      BY <1>2, <2>1 DEF OnShard, Takes
    <2>3. Len(b.chain) \in Nat /\ Len(replica) \in Nat /\ Len(x.chain) = Len(replica) + 1
      BY <1>2 DEF TypeOK, Batch, Takes
    <2>4. /\ Len(b.chain) <= Len(replica) /\ \A i \in 1..Len(b.chain) : replica[i] = b.chain[i]
          /\ \A i \in 1..Len(replica) : x.chain[i] = replica[i]
      BY <1>2 DEF OnShard, Takes, Extends
    <2>5. Extends(x.chain, b.chain)
      BY <2>3, <2>4 DEF Extends
    <2> QED
      BY <1>2, <2>2, <2>5 DEF OnShard, Takes
  <1> QED
    BY <1>1, <1>2, ShardNext

LEMMA DoomedStays ==
  ASSUME TypeOK, [Next]_vars, NEW b \in Batch, Doomed(b)
  PROVE  Doomed(b)'
  <1>1. CASE UNCHANGED shardVars
    BY <1>1 DEF Doomed, shardVars
  <1>2. ASSUME NEW x \in Batch, Takes(x) PROVE Doomed(b)'
    <2>1. CASE streamEpoch \notin {None, b.epoch}
      BY <1>2, <2>1, SentinelAssumption DEF Doomed, Takes, Batch
    <2>2. ASSUME NEW i \in 1..Len(b.chain), i <= Len(replica), b.chain[i] # replica[i]
          PROVE  Doomed(b)'
      <3>1. i \in 1..Len(replica) /\ i <= Len(x.chain)
        BY <1>2, <2>2 DEF TypeOK, Batch, Takes
      <3>2. x.chain[i] = replica[i]
        BY <1>2, <3>1 DEF Takes, Extends
      <3>3. replica' = x.chain
        BY <1>2 DEF Takes
      <3> QED
        BY <2>2, <3>1, <3>2, <3>3 DEF Doomed
    <2>3. CASE ~HeadAt(b.chain, Len(b.chain))
      BY <2>3 DEF Doomed
    <2> QED
      BY <2>1, <2>2, <2>3 DEF Doomed
  <1> QED
    BY <1>1, <1>2, ShardNext

-----------------------------------------------------------------------------
\* The inductive invariant, part by part.
LEMMA LineageNext == TypeOK /\ LineageInv /\ [Next]_vars => LineageInv'
  <1> SUFFICES ASSUME TypeOK, LineageInv, [Next]_vars PROVE LineageInv'
    OBVIOUS
  <1>1. CASE UNCHANGED shardVars
    BY <1>1 DEF LineageInv, shardVars
  <1>2. ASSUME NEW x \in Batch, Takes(x) PROVE LineageInv'
    <2> DEFINE n == Len(replica)
    <2>1. /\ n \in Nat /\ Len(x.chain) = n + 1
          /\ \A j \in 1..n : x.chain[j] = replica[j]
      BY <1>2 DEF TypeOK, Takes, Extends
    <2> HIDE DEF n
    <2>2. ASSUME NEW i \in 1..n PROVE HeadAt(x.chain, i)
      <3>1. HeadAt(replica, i)
        BY DEF LineageInv, n
      <3>2. x.chain[i] = replica[i] /\ \A j \in 1..(i - 1) : x.chain[j] = replica[j]
        BY <2>1
      <3> QED
        BY <3>1, <3>2 DEF HeadAt
    <2>3. HeadAt(x.chain, n + 1)
      <3>1. OldIsHead(x.chain[n + 1])
        BY <1>2, <2>1 DEF Takes, LastOf
      <3>2. 1..((n + 1) - 1) = 1..n
        BY <2>1
      <3> QED
        BY <2>1, <3>1, <3>2 DEF HeadAt, OldIsHead, FactsOf, Superseded, n
    <2>4. \A i \in 1..Len(x.chain) : HeadAt(x.chain, i)
      BY <2>1, <2>2, <2>3
    <2> QED
      BY <1>2, <2>4 DEF LineageInv, Takes
  <1> QED
    BY <1>1, <1>2, ShardNext

\* A task past its apply had its batch on the shard when it went on.
LEMMA TaskPastApply ==
  ASSUME TypeOK, AckInv, [Next]_vars, NEW f \in Families,
         task'[f] # None, task'[f].pc # "admitted"
  PROVE  \E b \in Batch : task'[f].batch = b /\ OnShard(b)'
  <1>1. ASSUME task[f] # None, task'[f].batch = task[f].batch, OnShard(task[f].batch)
        PROVE  \E b \in Batch : task'[f].batch = b /\ OnShard(b)'
    <2>1. PICK b \in Batch : b = task[f].batch
      BY <1>1, TaskType
    <2> QED
      BY <1>1, <2>1, OnShardStays
  <1>2. CASE task'[f] = task[f]
    BY <1>1, <1>2 DEF AckInv
  <1>3. ASSUME Apply(f) PROVE \E b \in Batch : task'[f].batch = b /\ OnShard(b)'
    <2>1. PICK b \in Batch : b = task[f].batch
      BY <1>3, TaskType DEF Apply
    <2>2. ApplyOutcome(b) \in {"Applied", "Duplicate"} /\ task[f] # None /\ Advance(f, "applied")
      BY <1>3, <2>1 DEF Apply, Done, TypeOK
    <2>3. task'[f].batch = b
      BY <2>1, <2>2 DEF Advance, TypeOK, Task
    <2>4. CASE ApplyOutcome(b) = "Applied"
      <3>1. replica' = b.chain /\ streamEpoch' = b.epoch
        BY <1>3, <2>1, <2>4 DEF Apply
      <3>2. Extends(b.chain, b.chain)
        BY DEF Extends, Batch
      <3> QED
        BY <2>3, <3>1, <3>2 DEF OnShard
    <2>5. CASE ApplyOutcome(b) = "Duplicate"
      BY <2>3, <2>5, Outcomes, OnShardStays
    <2> QED
      BY <2>2, <2>4, <2>5
  <1>4. ASSUME RefreshShardCounts, f = "create"
        PROVE  \E b \in Batch : task'[f].batch = b /\ OnShard(b)'
    <2>1. task[f] # None /\ task[f].pc = "applied" /\ Advance(f, "refreshed")
      BY <1>4 DEF RefreshShardCounts
    <2>2. task'[f].batch = task[f].batch
      BY <2>1, TaskType DEF Advance, TypeOK, Task
    <2> QED
      BY <1>1, <2>1, <2>2 DEF AckInv
  <1>5. ASSUME NEW b \in posted, LookupAndAdmit(b), task'[f] # task[f] PROVE FALSE
    <2>1. f = Family(b) /\ task'[f] = [pc |-> "admitted", batch |-> b]
      BY <1>5, FamilyType DEF LookupAndAdmit, TypeOK
    <2> QED
      BY <2>1
  <1>6. ASSUME NEW g \in Families, Apply(g), g # f PROVE task'[f] = task[f]
    BY <1>6 DEF Apply, Advance, Done, TypeOK
  <1>7. ASSUME RefreshShardCounts, f # "create" PROVE task'[f] = task[f]
    BY <1>7 DEF RefreshShardCounts, Advance, TypeOK
  <1>8. ASSUME NEW g \in Families, PersistAck(g) \/ HandlerFails(g) PROVE task'[f] = task[f]
    BY <1>8 DEF PersistAck, HandlerFails, Done, TypeOK
  <1>9. ~ServerCrash
    BY DEF ServerCrash
  <1>10. ASSUME UNCHANGED task PROVE task'[f] = task[f]
    BY <1>10
  <1> QED
    BY <1>2, <1>3, <1>4, <1>5, <1>6, <1>7, <1>8, <1>9, <1>10
    DEF RefreshOutsideGate, Next, vars, HandlerStep, OperatorStep, Post, AdmitKey, RevokeKey, SetAdmission

LEMMA AckNext == TypeOK /\ AckInv /\ [Next]_vars => AckInv'
  <1> SUFFICES ASSUME TypeOK, AckInv, [Next]_vars PROVE AckInv'
    OBVIOUS
  <1>1. ASSUME NEW f \in Families, task'[f] # None, task'[f].pc # "admitted"
        PROVE  OnShard(task[f].batch)'
    <2>1. PICK b \in Batch : task'[f].batch = b /\ OnShard(b)'
      BY <1>1, TaskPastApply
    <2> QED
      BY <2>1 DEF OnShard
  <1>2. ASSUME NEW f \in Families, NEW a \in acks'[f]
        PROVE  a = AckFor(a.digest) /\ OnShard(a.digest)' /\ Family(a.digest) = f
    <2>1. ASSUME a \in acks[f]
          PROVE  a = AckFor(a.digest) /\ OnShard(a.digest)' /\ Family(a.digest) = f
      <3>1. a = AckFor(a.digest) /\ OnShard(a.digest) /\ Family(a.digest) = f
        BY <2>1 DEF AckInv
      <3>2. a.digest \in Batch
        BY <2>1 DEF TypeOK, Ack
      <3> QED
        BY <3>1, <3>2, OnShardStays
    <2>2. ASSUME a \notin acks[f]
          PROVE  a = AckFor(a.digest) /\ OnShard(a.digest)' /\ Family(a.digest) = f
      <3>1. PICK g \in Families : PersistAck(g)
        BY <2>2, Writers
      <3>2. g = f /\ a = AckFor(task[f].batch)
        BY <2>2, <3>1 DEF PersistAck, TypeOK
      <3>3. task[f] # None /\ task[f].pc # "admitted"
        BY <3>1, <3>2 DEF PersistAck
      <3>4. PICK b \in Batch : b = task[f].batch /\ Family(b) = f
        BY <3>3, TaskType
      <3>5. OnShard(b)
        BY <3>3, <3>4 DEF AckInv
      <3>6. a = AckFor(b) /\ a.digest = b
        BY <3>2, <3>4 DEF AckFor
      <3> QED
        BY <3>4, <3>5, <3>6, OnShardStays
    <2> QED
      BY <2>1, <2>2
  <1> QED
    BY <1>1, <1>2 DEF AckInv

LEMMA ConflictNext == TypeOK /\ ConflictInv /\ [Next]_vars => ConflictInv'
  <1> SUFFICES ASSUME TypeOK, ConflictInv, [Next]_vars, NEW b \in conflicts' PROVE Doomed(b)'
    BY DEF ConflictInv
  <1>1. CASE b \in conflicts
    <2>1. b \in Batch /\ Doomed(b)
      BY <1>1 DEF TypeOK, ConflictInv
    <2> QED
      BY <2>1, DoomedStays
  <1>2. CASE b \notin conflicts
    <2>1. PICK f \in Families : Apply(f)
      BY <1>2, Writers
    <2>2. b = task[f].batch /\ ApplyOutcome(b) \in {"EpochConflict", "StalePredecessor", "Fork"}
      BY <1>2, <2>1 DEF Apply
    <2>3. b \in Batch
      BY <2>1, <2>2, TaskType DEF Apply
    <2> QED
      BY <2>2, <2>3, Outcomes, DoomedStays
  <1> QED
    BY <1>1, <1>2

\* The admission of a batch is one row of its family's table.
LEMMA AdmittedFrame ==
  ASSUME NEW b \in Batch, admissions'[Family(b)] = admissions[Family(b)]
  PROVE  Admitted(b)' <=> Admitted(b)
  BY DEF Admitted

LEMMA LateNext ==
  TypeOK /\ LateInv /\ OneLateWrite /\ [Next]_vars => LateInv' /\ OneLateWrite'
  <1> SUFFICES ASSUME TypeOK, LateInv, OneLateWrite, [Next]_vars PROVE LateInv' /\ OneLateWrite'
    OBVIOUS
  <1> DEFINE Safe(g) == /\ task'[g] # None /\ task'[g].pc = "admitted" /\ ~Admitted(task[g].batch)'
                          => CliWhileServing /\ late'[g] = 0
                        /\ late'[g] <= IF CliWhileServing THEN 1 ELSE 0
  <1>1. ASSUME NEW g \in Families, task'[g] = task[g], admissions'[g] = admissions[g],
               late'[g] = late[g]
        PROVE  Safe(g)
    <2>1. late[g] <= IF CliWhileServing THEN 1 ELSE 0
      BY DEF OneLateWrite
    <2>2. CASE task[g] = None
      BY <1>1, <2>1, <2>2
    <2>3. CASE task[g] # None
      <3>1. PICK b \in Batch : b = task[g].batch /\ Family(b) = g
        BY <2>3, TaskType
      <3>2. task'[g].batch = b
        BY <1>1, <3>1
      <3>3. Admitted(b)' <=> Admitted(b)
        BY <1>1, <3>1, AdmittedFrame
      <3>4. Admitted(task[g].batch)' <=> Admitted(task[g].batch)
        BY <3>1, <3>2, <3>3 DEF Admitted
      <3> QED
        BY <1>1, <2>1, <3>4 DEF LateInv
    <2> QED
      BY <2>2, <2>3
  \* A task that is gone, or that is past its apply, is nobody's concern.
  <1>2. ASSUME NEW g \in Families, task'[g] = None \/ task'[g].pc # "admitted",
               late'[g] <= IF CliWhileServing THEN 1 ELSE 0
        PROVE  Safe(g)
    BY <1>2
  <1>3. ASSUME NEW f \in Families, NEW g \in Families, Apply(f) PROVE Safe(g)
    <2>1. admissions' = admissions
      BY <1>3 DEF Apply
    <2>2. CASE g # f
      BY <1>1, <1>3, <2>1, <2>2 DEF Apply, Advance, Done, TypeOK
    <2>3. CASE g = f
      <3>1. task'[f] = None \/ task'[f].pc # "admitted"
        BY <1>3 DEF Apply, Advance, Done, TypeOK, Task
      <3>2. late'[f] <= IF CliWhileServing THEN 1 ELSE 0
        <4>1. CASE late' = late
          BY <4>1 DEF OneLateWrite
        <4>2. CASE late' = [late EXCEPT ![f] = IF Admitted(task[f].batch) THEN @ ELSE @ + 1]
          <5>1. CASE Admitted(task[f].batch)
            BY <4>2, <5>1 DEF OneLateWrite, TypeOK
          <5>2. CASE ~Admitted(task[f].batch)
            <6>1. CliWhileServing /\ late[f] = 0
              BY <1>3, <5>2 DEF Apply, LateInv
            <6>2. late'[f] = 1
              BY <4>2, <5>2, <6>1 DEF TypeOK
            <6> QED
              BY <6>1, <6>2
          <5> QED
            BY <5>1, <5>2
        <4> QED
          BY <1>3, <4>1, <4>2 DEF Apply
      <3> QED
        BY <1>2, <2>3, <3>1, <3>2
    <2> QED
      BY <2>2, <2>3
  <1>4. ASSUME NEW b \in posted, NEW g \in Families, LookupAndAdmit(b) PROVE Safe(g)
    <2>1. b \in Batch /\ Family(b) \in Families
      BY FamilyType DEF TypeOK
    <2>2. admissions' = admissions /\ late' = late
      BY <1>4 DEF LookupAndAdmit, histVars
    <2>3. CASE g # Family(b)
      BY <1>1, <1>4, <2>2, <2>3 DEF LookupAndAdmit, TypeOK
    <2>4. CASE g = Family(b)
      <3>1. task'[g].batch = b
        BY <1>4, <2>4 DEF LookupAndAdmit, TypeOK
      <3>2. Admitted(b)'
        BY <1>4, <2>1, <2>2, AdmittedFrame DEF LookupAndAdmit
      <3>3. Admitted(task[g].batch)'
        BY <3>1, <3>2 DEF Admitted
      <3> QED
        BY <2>2, <3>3 DEF OneLateWrite
    <2> QED
      BY <2>3, <2>4
  <1>5. ASSUME NEW f \in Families, NEW g \in Families, PersistAck(f) \/ HandlerFails(f) PROVE Safe(g)
    <2>1. admissions' = admissions /\ late' = late /\ task' = [task EXCEPT ![f] = None]
      BY <1>5 DEF PersistAck, HandlerFails, Done, histVars
    <2>2. CASE g # f
      BY <1>1, <2>1, <2>2 DEF TypeOK
    <2>3. CASE g = f
      BY <1>2, <2>1, <2>3 DEF TypeOK, OneLateWrite
    <2> QED
      BY <2>2, <2>3
  <1>6. ASSUME NEW g \in Families, RefreshShardCounts PROVE Safe(g)
    <2>1. /\ admissions' = admissions /\ late' = late /\ task["create"] # None
          /\ task' = [task EXCEPT !["create"].pc = "refreshed"]
      BY <1>6 DEF RefreshShardCounts, Advance, histVars
    <2>2. CASE g # "create"
      BY <1>1, <2>1, <2>2 DEF TypeOK
    <2>3. CASE g = "create"
      <3>1. task'[g].pc = "refreshed"
        BY <2>1, <2>3, TaskType DEF TypeOK, Task
      <3> QED
        BY <1>2, <2>1, <2>3, <3>1 DEF OneLateWrite
    <2> QED
      BY <2>2, <2>3
  <1>7. ASSUME NEW g \in Families, ServerCrash PROVE Safe(g)
    BY <1>2, <1>7 DEF ServerCrash, histVars, OneLateWrite
  <1>8. ASSUME NEW f \in Families, NEW k \in Keys, NEW row, NEW g \in Families,
               SetAdmission(f, k, row), task[f] = None \/ CliWhileServing
        PROVE  Safe(g)
    <2>1. CASE g # f
      BY <1>1, <1>8, <2>1 DEF SetAdmission, TypeOK
    <2>2. CASE g = f
      <3>1. task' = task /\ late'[f] = 0
        BY <1>8 DEF SetAdmission, TypeOK
      <3> QED
        BY <1>8, <2>2, <3>1
    <2> QED
      BY <2>1, <2>2
  <1>9. ASSUME NEW f \in Families, NEW k \in Keys, NEW row, NEW g \in Families,
               AdmitKey(f, k, row) \/ RevokeKey(f, k)
        PROVE  Safe(g)
    BY <1>8, <1>9 DEF AdmitKey, RevokeKey
  <1>10. ASSUME NEW g \in Families, UNCHANGED <<task, admissions, late>> PROVE Safe(g)
    BY <1>1, <1>10
  <1>11. ASSUME NEW g \in Families PROVE Safe(g)
    <2> HIDE DEF Safe
    <2> QED
      BY <1>3, <1>4, <1>5, <1>6, <1>7, <1>9, <1>10
      DEF Next, vars, histVars, HandlerStep, OperatorStep, Post, RefreshOutsideGate
  <1> QED
    BY <1>11 DEF LateInv, OneLateWrite, Admitted

LEMMA Invariance == Spec => []IInv
  <1>1. Init => IInv
    <2> SUFFICES ASSUME Init PROVE IInv
      OBVIOUS
    <2> QED
      BY TypeInit DEF Init, IInv, LineageInv, AckInv, ConflictInv, LateInv, OneLateWrite
  <1>2. IInv /\ [Next]_vars => IInv'
    BY TypeNext, LineageNext, AckNext, ConflictNext, LateNext DEF IInv
  <1> QED
    BY <1>1, <1>2, PTL DEF Spec

-----------------------------------------------------------------------------
\* The acknowledgements of both tables are about the one stream of the shard, and
\* no fact has two acknowledged replacements.
THEOREM ReplacedOnce == Spec => []OneSuccessor
  <1>1. ASSUME IInv PROVE OneSuccessor
    <2>1. ASSUME NEW f \in Families, NEW a \in acks[f]
          PROVE  /\ a = AckFor(a.digest) /\ OnShard(a.digest)
                 /\ a.head \in 1..Len(replica) /\ replica[a.head].kind = f
      <3>1. a = AckFor(a.digest) /\ OnShard(a.digest) /\ Family(a.digest) = f
        BY <1>1 DEF IInv, AckInv
      <3>2. a.digest.chain \in Seq(Record) \ {<<>>} /\ replica \in Seq(Record)
        BY <1>1 DEF IInv, TypeOK, Ack, Batch
      <3>3. a.head = Len(a.digest.chain)
        BY <3>1 DEF AckFor
      <3>4. a.head \in 1..Len(a.digest.chain) /\ a.head \in 1..Len(replica)
        BY <3>1, <3>2, <3>3 DEF OnShard, Extends
      <3>5. replica[a.head] = a.digest.chain[a.head]
        BY <3>1, <3>4 DEF OnShard, Extends
      <3> QED
        BY <3>1, <3>3, <3>4, <3>5 DEF Family, LastOf
    <2>2. ASSUME NEW i \in 1..Len(replica), NEW j \in 1..Len(replica), i < j,
                 replica[j].kind = "supersede"
          PROVE  replica[i].old # replica[j].old
      <3>1. HeadAt(replica, j)
        BY <1>1 DEF IInv, LineageInv
      <3>2. i \in 1..(j - 1)
        BY <2>2
      <3> QED
        BY <2>2, <3>1, <3>2 DEF HeadAt
    <2>3. ASSUME NEW a \in acks["supersede"], NEW b \in acks["supersede"],
                 replica[a.head].old = replica[b.head].old
          PROVE  a.head = b.head
      <3>1. /\ a.head \in 1..Len(replica) /\ replica[a.head].kind = "supersede"
            /\ b.head \in 1..Len(replica) /\ replica[b.head].kind = "supersede"
        BY <2>1 DEF Families
      <3>2. ~(a.head < b.head) /\ ~(b.head < a.head)
        BY <2>2, <2>3, <3>1
      <3> QED
        BY <3>1, <3>2
    <2> QED
      BY <2>1, <2>3 DEF OneSuccessor
  <1> QED
    BY Invariance, <1>1, PTL

\* A batch refused as a conflict is not on the shard, then or ever after.
THEOREM ConflictsStay == Spec => []ConflictIsFinal
  <1>1. ASSUME IInv PROVE ConflictIsFinal
    <2>1. SUFFICES ASSUME NEW b \in conflicts, OnShard(b) PROVE FALSE
      BY DEF ConflictIsFinal
    <2> DEFINE n == Len(b.chain)
    <2>2. /\ b.chain \in Seq(Record) \ {<<>>} /\ replica \in Seq(Record)
          /\ n \in 1..n /\ n \in 1..Len(replica)
          /\ \A i \in 1..n : replica[i] = b.chain[i]
      BY <1>1, <2>1 DEF IInv, TypeOK, Batch, OnShard, Extends
    <2>3. ~HeadAt(b.chain, n)
      BY <1>1, <2>1, <2>2 DEF IInv, ConflictInv, Doomed, OnShard
    <2>4. HeadAt(replica, n)
      BY <1>1, <2>2 DEF IInv, LineageInv
    <2>5. \A j \in 1..(n - 1) : replica[j] = b.chain[j]
      BY <2>2
    <2> QED
      BY <2>2, <2>3, <2>4, <2>5 DEF HeadAt
  <1> QED
    BY Invariance, <1>1, PTL

\* A changed admission is outrun by one request at most, and by none without
\* mnemes-admin beside the server.
THEOREM LateIsBounded == Spec => []OneLateWrite
  <1>1. IInv => OneLateWrite
    BY DEF IInv
  <1> QED
    BY Invariance, <1>1, PTL

\* The two families together implement the abstract log.
THEOREM Refinement == Spec => ImplementsLog
  <1>1. Init => Log!Init
    BY DEF Init, Log!Init
  <1>2. ASSUME IInv, [Next]_vars PROVE [Log!Next]_(Log!vars)
    <2> DEFINE all == UNION {acks[f] : f \in Families}
               promised == {a.digest.chain : a \in all}
    <2>1. CASE UNCHANGED <<shardVars, acks>>
      BY <2>1 DEF Log!vars, shardVars
    <2>2. ASSUME NEW f \in Families, Apply(f), ~UNCHANGED shardVars PROVE Log!Next
      <3>1. PICK b \in Batch : Takes(b)
        BY <1>2, <2>2, ShardNext DEF IInv
      <3>2. replica' = b.chain /\ b.chain \in Seq(Record) /\ UNCHANGED acks
        BY <2>2, <3>1 DEF Takes, Batch, Apply
      <3>3. UNCHANGED promised
        BY <3>2
      <3>4. Log!Grow(replica')
        BY <3>1, <3>2, <3>3 DEF Log!Grow, Log!IsPrefixOf, Takes, Extends
      <3> QED
        BY <3>2, <3>4 DEF Log!Next
    <2>3. ASSUME NEW f \in Families, PersistAck(f) PROVE Log!Next
      <3>1. task[f] # None /\ task[f].pc # "admitted" /\ task[f].batch \in Batch
        BY <1>2, <2>3, TaskType DEF PersistAck, IInv
      <3> DEFINE c == task[f].batch.chain
                 new == AckFor(task[f].batch)
      <3>2. OnShard(task[f].batch)
        BY <1>2, <3>1 DEF IInv, AckInv
      <3>3. c # <<>> /\ Log!IsPrefixOf(c, replica)
        BY <3>1, <3>2 DEF Batch, OnShard, Extends, Log!IsPrefixOf
      <3>4. acks' = [acks EXCEPT ![f] = @ \cup {new}] /\ UNCHANGED replica
        BY <2>3 DEF PersistAck, shardVars
      <3>5. new.digest.chain = c
        BY DEF AckFor
      <3> HIDE DEF c, new
      <3>6. all' = all \cup {new}
        BY <1>2, <3>4 DEF IInv, TypeOK
      <3>7. promised' = promised \cup {c}
        BY <3>5, <3>6
      <3>8. c \in promised'
        BY <3>7
      <3> QED
        BY <3>3, <3>4, <3>7, <3>8 DEF Log!Next, Log!Promise
    <2>4. (\E f \in Families : Apply(f)) \/ UNCHANGED shardVars
      BY <1>2, Writers
    <2>5. (\E f \in Families : PersistAck(f)) \/ UNCHANGED acks
      BY <1>2, Writers
    <2> QED
      BY <2>1, <2>2, <2>3, <2>4, <2>5
  <1> QED
    BY Invariance, <1>1, <1>2, PTL DEF Spec, ImplementsLog
=============================================================================
