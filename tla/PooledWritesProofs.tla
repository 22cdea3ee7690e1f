-------------------------- MODULE PooledWritesProofs --------------------------
(***************************************************************************)
(* Proofs about PooledWrites, for every value of its constants.            *)
(***************************************************************************)
EXTENDS PooledWrites, TLAPS

PCs == {"idle", "lookupKey", "read", "insert", "edge", "respond", "lookupSource", "match",
        "add", "stats", "update", "record"}

\* A request carries what its kind says.
LEMMA RequestType ==
  ASSUME NEW r \in Requests
  PROVE  /\ r # None
         /\ r.kind \in {"submit", "import", "sync"}
         /\ OfOperation(r) => r.key \in Keys /\ r.digest \in Digests /\ r \in Submission \cup Import
         /\ r.kind = "sync" => r.source \in Sources /\ r.content \in Contents /\ ~OfOperation(r)
         /\ r \in Submission <=> r.kind = "submit"
  BY SentinelAssumption DEF Requests, Submission, Import, SyncFact, OfOperation

\* What is different in a longer table is the row that was added.
LEMMA AppendedRow ==
  ASSUME NEW S, NEW s \in Seq(S), NEW row, NEW t, t = Append(s, row), NEW n \in 1..Len(t),
         n \notin 1..Len(s) \/ t[n] # s[n]
  PROVE  t[n] = row
  OBVIOUS

LEMMA RowType ==
  ASSUME TypeOK, NEW n \in 1..Len(ops)
  PROVE  ops[n] \in [key: Keys, digest: Digests]
  <1> DEFINE Row == [key: Keys, digest: Digests]
  <1>1. ops \in Seq(Row)
    BY DEF TypeOK
  <1> HIDE DEF Row
  <1>2. ops[n] \in Row
    BY <1>1
  <1> QED
    BY <1>2 DEF Row

-----------------------------------------------------------------------------
\* Rows are only added.
Grows ==
  /\ \A n \in Rows(ops) : n \in Rows(ops') /\ ops'[n] = ops[n]
  /\ \A n \in Rows(shard) : n \in Rows(shard') /\ shard'[n] = shard[n]
  /\ Len(shard) <= Len(shard')
  /\ edges \subseteq edges' /\ answers \subseteq answers' /\ misread \subseteq misread'

\* A step leaves the other tasks alone.
Others(w) ==
  \A v \in Workers \ {w} : /\ wpc'[v] = wpc[v] /\ wreq'[v] = wreq[v]
                           /\ wrow'[v] = wrow[v] /\ wstat'[v] = wstat[v]

WorkerStep(w) ==
  \/ \E r \in Requests : Begin(w, r)
  \/ LookupKey(w) \/ ReadOperation(w) \/ ReadSwallowed(w) \/ InsertOperation(w) \/ RecordEdge(w) \/ Respond(w)
  \/ LookupSource(w) \/ MatchContent(w) \/ AddFact(w)
  \/ ReadStats(w) \/ UpdateCounts(w) \/ RecordSource(w)
  \/ RequestFails(w)

LEMMA Steps ==
  ASSUME [Next]_vars
  PROVE  \/ \E w \in Workers : WorkerStep(w)
         \/ \E s \in Statuses : SetDeviceStatus(s)
         \/ UNCHANGED vars
  BY DEF Next, WorkerStep

LEMMA GrowsNext ==
  ASSUME TypeOK, [Next]_vars
  PROVE  Grows
  <1>0. Len(shard) \in Nat /\ Len(ops) \in Nat
    BY DEF TypeOK
  <1>1. ASSUME UNCHANGED <<ops, shard>>, edges \subseteq edges', answers \subseteq answers',
             misread \subseteq misread' PROVE Grows
    BY <1>0, <1>1 DEF Grows
  <1>2. ASSUME NEW w \in Workers, InsertOperation(w) PROVE Grows
    <2>1. PICK row : ops' = Append(ops, row)
      BY <1>2 DEF InsertOperation
    <2>2. \A n \in Rows(ops) : n \in Rows(ops') /\ ops'[n] = ops[n]
      BY <2>1 DEF TypeOK, Rows
    <2>3. UNCHANGED <<shard, edges, answers, misread>>
      BY <1>2 DEF InsertOperation, factVars, given
    <2> QED
      BY <1>0, <2>2, <2>3 DEF Grows
  <1>3. ASSUME NEW w \in Workers, AddFact(w) PROVE Grows
    <2>1. PICK row : shard' = Append(shard, row)
      BY <1>3 DEF AddFact
    <2>2. /\ \A n \in Rows(shard) : n \in Rows(shard') /\ shard'[n] = shard[n]
          /\ Len(shard) <= Len(shard')
      BY <2>1 DEF TypeOK, Rows
    <2> QED
      BY <1>3, <2>2 DEF AddFact, Grows, opVars, given
  <1>4. ASSUME NEW w \in Workers, WorkerStep(w), ~InsertOperation(w), ~AddFact(w) PROVE Grows
    BY <1>1, <1>4 DEF WorkerStep, Begin, LookupKey, ReadOperation, ReadSwallowed, RecordEdge, Respond, LookupSource, MatchContent,
      ReadStats, UpdateCounts, RecordSource, RequestFails, Accepted, opVars, factVars, given
  <1> QED
    BY <1>1, <1>2, <1>3, <1>4, Steps DEF SetDeviceStatus, vars, opVars, factVars, given

LEMMA OthersNext ==
  ASSUME TypeOK, NEW w \in Workers, WorkerStep(w)
  PROVE  Others(w)
  BY DEF TypeOK, WorkerStep, Others, Begin, LookupKey, ReadOperation, ReadSwallowed, InsertOperation, RecordEdge, Respond,
    LookupSource, MatchContent, AddFact, ReadStats, UpdateCounts, RecordSource, RequestFails,
    Goto, Finish

-----------------------------------------------------------------------------
\* Types.
TasksTyped ==
  /\ wpc \in [Workers -> PCs]
  /\ wreq \in [Workers -> Requests \cup {None}]
  /\ wrow \in [Workers -> Nat] /\ wstat \in [Workers -> Nat]

LEMMA TypeGoto ==
  ASSUME TypeOK, NEW w \in Workers, NEW pc \in PCs, NEW row \in Nat, Goto(w, pc, row)
  PROVE  TasksTyped'
  BY DEF TypeOK, TasksTyped, PCs, Goto

LEMMA TypeFinish ==
  ASSUME TypeOK, NEW w \in Workers, Finish(w)
  PROVE  TasksTyped'
  BY DEF TypeOK, TasksTyped, PCs, Finish

LEMMA TypeAudited ==
  ASSUME TypeOK, NEW w \in Workers, NEW outcome \in {"ok", "error"}, Audited(w, outcome)
  PROVE  audit' \subseteq [req: Submission, outcome: {"ok", "error"}]
  BY DEF TypeOK, Audited

LEMMA TypeInit == Init => TypeOK
  BY BoundAssumption DEF Init, TypeOK, Rows, Statuses

LEMMA TypeNext == ASSUME TypeOK, TaskInv, [Next]_vars PROVE TypeOK'
  <1>f. Fail => fails' \in 0..MaxFail
    BY BoundAssumption DEF TypeOK, Fail
  <1>t. ASSUME TasksTyped', UNCHANGED <<opVars, factVars, status, given, fails>> PROVE TypeOK'
    BY <1>t DEF TypeOK, TasksTyped, PCs, opVars, factVars, given
  <1>1. ASSUME NEW w \in Workers, NEW r \in Requests, Begin(w, r) PROVE TypeOK'
    BY <1>1, <1>t DEF Begin, TasksTyped, TypeOK, PCs
  <1>2. ASSUME NEW w \in Workers, LookupKey(w) PROVE TypeOK'
    <2>1. Oldest(wreq[w].key) \subseteq Nat
      BY DEF Oldest, RowsOf
    <2>2. TasksTyped'
      BY <1>2, <2>1, TypeGoto DEF LookupKey, PCs
    <2> QED
      BY <1>2, <1>t, <2>2 DEF LookupKey
  <1>2a. ASSUME NEW w \in Workers, ReadOperation(w) PROVE TypeOK'
    <2>1. Onward(w) \in PCs /\ wrow[w] \in Nat
      BY DEF Onward, PCs, TypeOK
    <2>2. TasksTyped'
      BY <1>2a, <2>1, TypeGoto, TypeFinish DEF ReadOperation
    <2>3. audit' \subseteq [req: Submission, outcome: {"ok", "error"}]
      BY <1>2a, TypeAudited DEF ReadOperation, TypeOK
    <2> QED
      BY <1>2a, <2>2, <2>3 DEF ReadOperation, TypeOK, TasksTyped, PCs, factVars, given
  <1>2b. ASSUME NEW w \in Workers, ReadSwallowed(w) PROVE TypeOK'
    <2>1. wreq[w].key \in Keys
      BY <1>2b, RequestType DEF ReadSwallowed, TypeOK, TaskInv, TaskOf
    <2>2. misread' \subseteq Keys
      BY <1>2b, <2>1 DEF ReadSwallowed, TypeOK
    <2>3. TasksTyped'
      BY <1>2b, TypeGoto DEF ReadSwallowed, PCs
    <2> QED
      BY <1>2b, <1>f, <2>2, <2>3 DEF ReadSwallowed, TypeOK, TasksTyped, PCs, opVars, factVars
  <1>3. ASSUME NEW w \in Workers, InsertOperation(w) PROVE TypeOK'
    <2>1. wreq[w] \in Requests /\ OfOperation(wreq[w])
      BY <1>3 DEF InsertOperation, TypeOK, TaskInv, TaskOf
    <2>2. [key |-> wreq[w].key, digest |-> wreq[w].digest] \in [key: Keys, digest: Digests]
      BY <2>1, RequestType
    <2>3. ops' \in Seq([key: Keys, digest: Digests])
      BY <1>3, <2>2 DEF InsertOperation, TypeOK
    <2>4. Onward(w) \in PCs /\ Len(ops) + 1 \in Nat
      BY DEF Onward, PCs, TypeOK
    <2>5. TasksTyped'
      BY <1>3, <2>4, TypeGoto DEF InsertOperation
    <2> QED
      BY <1>3, <2>3, <2>5 DEF InsertOperation, TypeOK, TasksTyped, PCs, factVars, given
  <1>4. ASSUME NEW w \in Workers, RecordEdge(w) PROVE TypeOK'
    <2>1. wreq[w] \in Requests /\ OfOperation(wreq[w]) /\ wrow[w] \in Nat
      BY <1>4 DEF RecordEdge, TypeOK, TaskInv, TaskOf
    <2>2. edges' \subseteq [op: Nat, digest: Digests]
      BY <1>4, <2>1, RequestType DEF RecordEdge, TypeOK
    <2>3. TasksTyped'
      BY <1>4, <2>1, TypeGoto DEF RecordEdge, PCs
    <2> QED
      BY <1>4, <2>2, <2>3 DEF RecordEdge, TypeOK, TasksTyped, PCs, factVars, given
  <1>5. ASSUME NEW w \in Workers, Respond(w) PROVE TypeOK'
    <2>1. wreq[w] \in Requests /\ wrow[w] \in Nat
      BY <1>5 DEF Respond, TypeOK, TaskInv, TaskOf, OfOperation
    <2>2. Oldest(wreq[w].key) \subseteq Nat
      BY DEF Oldest, RowsOf
    <2>3. answers' \subseteq [req: Requests, receipt: Nat, row: Nat]
      BY <1>5, <2>1, <2>2 DEF Respond, TypeOK
    <2>4. audit' \subseteq [req: Submission, outcome: {"ok", "error"}]
      BY <1>5, TypeAudited DEF Respond
    <2> QED
      BY <1>5, <2>3, <2>4, TypeFinish DEF Respond, TypeOK, TasksTyped, PCs, factVars, given
  <1>6. ASSUME NEW w \in Workers, LookupSource(w) PROVE TypeOK'
    BY <1>6, <1>t, TypeGoto, TypeFinish DEF LookupSource, PCs
  <1>7. ASSUME NEW w \in Workers, MatchContent(w) PROVE TypeOK'
    BY <1>7, <1>t, TypeGoto DEF MatchContent, PCs
  <1>8. ASSUME NEW w \in Workers, AddFact(w) PROVE TypeOK'
    <2>1. wreq[w] \in Requests /\ wreq[w].kind = "sync"
      BY <1>8 DEF AddFact, TypeOK, TaskInv, TaskOf
    <2>2. [source |-> wreq[w].source, content |-> wreq[w].content] \in [source: Sources, content: Contents]
      BY <2>1, RequestType
    <2>3. /\ shard' \in Seq([source: Sources, content: Contents])
          /\ Len(shard) \in Nat /\ Len(shard') = Len(shard) + 1
      BY <1>8, <2>2 DEF AddFact, TypeOK
    <2>4. synced' \subseteq [source: Sources, fact: Rows(shard')] /\ factCount' \in 0..Len(shard')
      BY <1>8, <2>3 DEF AddFact, TypeOK, Rows
    <2>5. TasksTyped'
      BY <1>8, <2>3, TypeGoto DEF AddFact, PCs
    <2> QED
      BY <1>8, <2>3, <2>4, <2>5 DEF AddFact, TypeOK, TasksTyped, PCs, opVars, given
  <1>9. ASSUME NEW w \in Workers, ReadStats(w) PROVE TypeOK'
    <2>1. TasksTyped'
      BY <1>9 DEF ReadStats, TypeOK, TasksTyped, PCs
    <2> QED
      BY <1>9, <1>t, <2>1 DEF ReadStats
  <1>10. ASSUME NEW w \in Workers, UpdateCounts(w) PROVE TypeOK'
    <2>1. wstat[w] \in Nat /\ wstat[w] <= Len(shard) /\ wrow[w] \in Nat
      BY <1>10 DEF UpdateCounts, TypeOK, TaskInv, TaskOf
    <2>2. TasksTyped'
      BY <1>10, <2>1, TypeGoto DEF UpdateCounts, PCs
    <2>3. factCount' \in 0..Len(shard)
      BY <1>10, <2>1 DEF UpdateCounts, TypeOK
    <2> QED
      BY <1>10, <2>2, <2>3 DEF UpdateCounts, TypeOK, TasksTyped, PCs, opVars, given
  <1>11. ASSUME NEW w \in Workers, RecordSource(w) PROVE TypeOK'
    <2>1. wreq[w] \in Requests /\ wreq[w].kind = "sync" /\ wrow[w] \in Rows(shard) /\ wrow[w] \in Nat
      BY <1>11 DEF RecordSource, TypeOK, TaskInv, TaskOf, HasFact
    <2>2. synced' \subseteq [source: Sources, fact: Rows(shard)]
      BY <1>11, <2>1, RequestType DEF RecordSource, TypeOK
    <2>3. answers' \subseteq [req: Requests, receipt: Nat, row: Nat]
      BY <1>11, <2>1 DEF RecordSource, Accepted, TypeOK
    <2> QED
      BY <1>11, <2>2, <2>3, TypeFinish DEF RecordSource, TypeOK, TasksTyped, PCs, opVars, given
  <1>12. ASSUME NEW w \in Workers, RequestFails(w) PROVE TypeOK'
    BY <1>12, <1>f, TypeFinish DEF RequestFails, TypeOK, TasksTyped, PCs, opVars, given, factVars
  <1>13. ASSUME NEW s \in Statuses, SetDeviceStatus(s) PROVE TypeOK'
    BY <1>13, <1>f DEF SetDeviceStatus, TypeOK, opVars, factVars, taskVars, given
  <1>14. CASE UNCHANGED vars
    BY <1>14 DEF TypeOK, vars, opVars, factVars, taskVars, given
  <1> QED
    BY <1>1, <1>2, <1>2a, <1>2b, <1>3, <1>4, <1>5, <1>6, <1>7, <1>8, <1>9, <1>10, <1>11, <1>12, <1>13, <1>14,
       Steps DEF WorkerStep

-----------------------------------------------------------------------------
\* What a task holds.  A task that takes no step keeps it, as rows are only added.
LEMMA TaskFrame ==
  ASSUME TypeOK, Grows, NEW v \in Workers, TaskOf(v),
         wpc'[v] = wpc[v], wreq'[v] = wreq[v], wrow'[v] = wrow[v], wstat'[v] = wstat[v],
         Len(shard') \in Nat
  PROVE  TaskOf(v)'
  <1>1. wpc[v] \in {"edge", "respond"} => HasOperation(v)'
    BY DEF TaskOf, HasOperation, Grows
  <1>2. wpc[v] \in {"stats", "update", "record"} => HasFact(v)'
    BY DEF TaskOf, HasFact, Grows
  <1>3. wpc[v] = "update" => wstat'[v] <= Len(shard')
    BY DEF TaskOf, Grows, TypeOK
  <1>4. wpc[v] = "read" => wrow[v] \in RowsOf(wreq[v].key)'
    BY DEF TaskOf, RowsOf, Rows, Grows
  <1> QED
    BY <1>1, <1>2, <1>3, <1>4 DEF TaskOf, Grows

LEMMA TaskFinish ==
  ASSUME TypeOK, NEW w \in Workers, Finish(w)
  PROVE  TaskOf(w)'
  <1>1. wpc'[w] = "idle" /\ wreq'[w] = None
    BY DEF Finish, TypeOK
  <1> QED
    BY <1>1 DEF TaskOf

\* A task that goes on is where it says it is.
LEMMA GotoStep ==
  ASSUME TypeOK, NEW w \in Workers, NEW pc, NEW row, Goto(w, pc, row)
  PROVE  wpc'[w] = pc /\ wrow'[w] = row /\ wreq'[w] = wreq[w] /\ wstat'[w] = wstat[w]
  BY DEF Goto, TypeOK

\* What submit_operation hands on: a row of the key, with the digest.
LEMMA OnwardStep ==
  ASSUME TypeOK, NEW w \in Workers, wreq[w] \in Requests, OfOperation(wreq[w]), NEW n,
         Goto(w, Onward(w), n),
         n \in Rows(ops'), ops'[n] = [key |-> wreq[w].key, digest |-> wreq[w].digest]
  PROVE  TaskOf(w)'
  <1>1. /\ wpc'[w] = IF wreq[w].kind = "submit" THEN "respond" ELSE "edge"
        /\ wrow'[w] = n /\ wreq'[w] = wreq[w]
    BY GotoStep DEF Onward
  <1>2. HasOperation(w)'
    BY <1>1 DEF HasOperation
  <1>3. wreq[w].kind \in {"submit", "import"} /\ wreq[w] # None
    BY RequestType DEF OfOperation
  <1> QED
    BY <1>1, <1>2, <1>3 DEF TaskOf, OfOperation

LEMMA TaskNext == ASSUME TypeOK, TaskInv, [Next]_vars PROVE TaskInv'
  <1>l. Len(shard') \in Nat
    BY TypeNext DEF TypeOK
  <1> SUFFICES ASSUME NEW v \in Workers PROVE TaskOf(v)'
    BY DEF TaskInv
  <1>0. TaskOf(v) /\ wreq[v] \in Requests \cup {None} /\ Grows
    BY GrowsNext DEF TaskInv, TypeOK
  <1>f. ASSUME UNCHANGED taskVars PROVE TaskOf(v)'
    BY <1>0, <1>l, <1>f, TaskFrame DEF taskVars
  <1>w. ASSUME NEW w \in Workers, w # v, WorkerStep(w) PROVE TaskOf(v)'
    BY <1>0, <1>l, <1>w, TaskFrame, OthersNext DEF Others
  <1>r. wpc[v] # "idle" => wreq[v] \in Requests
    BY <1>0 DEF TaskOf
  <1>1. ASSUME NEW r \in Requests, Begin(v, r) PROVE TaskOf(v)'
    <2>1. wpc'[v] = (IF OfOperation(r) THEN "lookupKey" ELSE "lookupSource") /\ wreq'[v] = r
      BY <1>1 DEF Begin, TypeOK
    <2>2. r # None /\ (~OfOperation(r) => r.kind = "sync")
      BY RequestType DEF OfOperation
    <2> QED
      BY <2>1, <2>2 DEF TaskOf
  <1>2. ASSUME LookupKey(v) \/ ReadSwallowed(v) PROVE TaskOf(v)'
    <2>1. wreq[v] \in Requests /\ OfOperation(wreq[v]) /\ wreq[v] # None
      BY <1>0, <1>2, <1>r DEF LookupKey, ReadSwallowed, TaskOf
    <2>2. CASE Goto(v, "insert", 0)
      <3>1. wpc'[v] = "insert" /\ wreq'[v] = wreq[v]
        BY <2>2, GotoStep
      <3> QED
        BY <2>1, <3>1 DEF TaskOf
    <2>3. ASSUME NEW n \in Oldest(wreq[v].key), Goto(v, "read", n), ops' = ops
          PROVE  TaskOf(v)'
      <3>1. wpc'[v] = "read" /\ wreq'[v] = wreq[v] /\ wrow'[v] = n
        BY <2>3, GotoStep
      <3>2. n \in RowsOf(wreq[v].key)'
        BY <2>3, <3>1 DEF Oldest, RowsOf
      <3> QED
        BY <2>1, <3>1, <3>2 DEF TaskOf
    <2> QED
      BY <1>2, <2>2, <2>3 DEF LookupKey, ReadSwallowed, opVars
  <1>2a. ASSUME ReadOperation(v) PROVE TaskOf(v)'
    <2> DEFINE n == wrow[v]
    <2>1. /\ wreq[v] \in Requests /\ OfOperation(wreq[v])
          /\ n \in RowsOf(wreq[v].key) /\ ops' = ops
      BY <1>0, <1>2a, <1>r DEF ReadOperation, TaskOf
    <2> HIDE DEF n
    <2>2. n \in 1..Len(ops) /\ ops[n].key = wreq[v].key
      BY <2>1 DEF RowsOf
    <2>3. ops[n] \in [key: Keys, digest: Digests]
      BY <2>2, RowType
    <2>4. ASSUME ops[n].digest = wreq[v].digest, Goto(v, Onward(v), n) PROVE TaskOf(v)'
      <3>1. ops[n] = [key |-> wreq[v].key, digest |-> wreq[v].digest]
        BY <2>2, <2>3, <2>4
      <3>2. n \in Rows(ops') /\ ops'[n] = [key |-> wreq[v].key, digest |-> wreq[v].digest]
        BY <2>1, <2>2, <3>1 DEF Rows
      <3> QED
        BY <2>1, <2>4, <3>2, OnwardStep
    <2> QED
      BY <1>2a, <2>4, TaskFinish DEF ReadOperation, n
  <1>3. ASSUME InsertOperation(v) PROVE TaskOf(v)'
    <2>1. wreq[v] \in Requests /\ OfOperation(wreq[v])
      BY <1>0, <1>3, <1>r DEF InsertOperation, TaskOf
    <2> DEFINE row == [key |-> wreq[v].key, digest |-> wreq[v].digest]
    <2>2. ops' = Append(ops, row) /\ Goto(v, Onward(v), Len(ops) + 1)
      BY <1>3 DEF InsertOperation
    <2> HIDE DEF row
    <2>3. Len(ops) + 1 \in Rows(ops') /\ ops'[Len(ops) + 1] = row
      BY <2>2 DEF TypeOK, Rows
    <2> QED
      BY <2>1, <2>2, <2>3, OnwardStep DEF row
  <1>4. ASSUME RecordEdge(v) PROVE TaskOf(v)'
    <2>1. wreq[v] \in Requests /\ wreq[v].kind = "import" /\ HasOperation(v) /\ OfOperation(wreq[v])
      BY <1>0, <1>4, <1>r DEF RecordEdge, TaskOf
    <2>2. wpc'[v] = "respond" /\ wrow'[v] = wrow[v] /\ wreq'[v] = wreq[v] /\ ops' = ops
      BY <1>4, GotoStep DEF RecordEdge
    <2>3. [op |-> wrow[v], digest |-> wreq[v].digest] \in edges'
      BY <1>4 DEF RecordEdge
    <2>4. HasOperation(v)'
      BY <2>1, <2>2 DEF HasOperation
    <2> QED
      BY <2>1, <2>2, <2>3, <2>4, SentinelAssumption DEF TaskOf
  <1>5. ASSUME Respond(v) PROVE TaskOf(v)'
    BY <1>5, TaskFinish DEF Respond
  <1>6. ASSUME LookupSource(v) PROVE TaskOf(v)'
    <2>1. wreq[v] \in Requests /\ wreq[v].kind = "sync" /\ wreq[v] # None
      BY <1>0, <1>6, <1>r, SentinelAssumption DEF LookupSource, TaskOf
    <2>2. ASSUME Goto(v, "match", 0) PROVE TaskOf(v)'
      <3>1. wpc'[v] = "match" /\ wreq'[v] = wreq[v]
        BY <2>2, GotoStep
      <3> QED
        BY <2>1, <3>1 DEF TaskOf
    <2> QED
      BY <1>6, <2>2, TaskFinish DEF LookupSource
  <1>7. ASSUME MatchContent(v) PROVE TaskOf(v)'
    <2>1. wreq[v] \in Requests /\ wreq[v].kind = "sync" /\ wreq[v] # None /\ shard' = shard
      BY <1>0, <1>7, <1>r, SentinelAssumption DEF MatchContent, TaskOf, factVars
    <2>2. ASSUME Goto(v, "add", 0) PROVE TaskOf(v)'
      <3>1. wpc'[v] = "add" /\ wreq'[v] = wreq[v]
        BY <2>2, GotoStep
      <3> QED
        BY <2>1, <3>1 DEF TaskOf
    <2>3. ASSUME NEW n \in 1..Len(shard), shard[n].content = wreq[v].content, Goto(v, "record", n)
          PROVE  TaskOf(v)'
      <3>1. wpc'[v] = "record" /\ wreq'[v] = wreq[v] /\ wrow'[v] = n
        BY <2>3, GotoStep
      <3>2. HasFact(v)'
        BY <2>1, <2>3, <3>1 DEF HasFact, Rows
      <3> QED
        BY <2>1, <3>1, <3>2 DEF TaskOf
    <2> QED
      BY <1>7, <2>2, <2>3 DEF MatchContent
  <1>8. ASSUME AddFact(v) PROVE TaskOf(v)'
    <2>1. wreq[v] \in Requests /\ wreq[v].kind = "sync" /\ wreq[v] # None
      BY <1>0, <1>8, <1>r, SentinelAssumption DEF AddFact, TaskOf
    <2> DEFINE row == [source |-> wreq[v].source, content |-> wreq[v].content]
    <2>2. /\ shard' = Append(shard, row)
          /\ wpc'[v] = "stats" /\ wreq'[v] = wreq[v] /\ wrow'[v] = Len(shard) + 1
      BY <1>8, GotoStep DEF AddFact
    <2>3. row.content = wreq[v].content
      OBVIOUS
    <2> HIDE DEF row
    <2>4. Len(shard) + 1 \in Rows(shard') /\ shard'[Len(shard) + 1] = row
      BY <2>2 DEF TypeOK, Rows
    <2>5. HasFact(v)'
      BY <2>2, <2>3, <2>4 DEF HasFact
    <2> QED
      BY <2>1, <2>2, <2>5 DEF TaskOf
  <1>9. ASSUME ReadStats(v) PROVE TaskOf(v)'
    <2>1. wreq[v] \in Requests /\ wreq[v].kind = "sync" /\ wreq[v] # None /\ HasFact(v)
      BY <1>0, <1>9, <1>r, SentinelAssumption DEF ReadStats, TaskOf
    <2>2. /\ wpc'[v] = "update" /\ wreq'[v] = wreq[v] /\ wrow'[v] = wrow[v]
          /\ wstat'[v] = Len(shard) /\ shard' = shard
      BY <1>9 DEF ReadStats, TypeOK, factVars
    <2>3. HasFact(v)' /\ wstat'[v] <= Len(shard')
      BY <1>l, <2>1, <2>2 DEF HasFact
    <2> QED
      BY <2>1, <2>2, <2>3 DEF TaskOf
  <1>10. ASSUME UpdateCounts(v) PROVE TaskOf(v)'
    <2>1. wreq[v] \in Requests /\ wreq[v].kind = "sync" /\ wreq[v] # None /\ HasFact(v)
      BY <1>0, <1>10, <1>r, SentinelAssumption DEF UpdateCounts, TaskOf
    <2>2. wpc'[v] = "record" /\ wreq'[v] = wreq[v] /\ wrow'[v] = wrow[v] /\ shard' = shard
      BY <1>10, GotoStep DEF UpdateCounts
    <2>3. HasFact(v)'
      BY <2>1, <2>2 DEF HasFact
    <2> QED
      BY <2>1, <2>2, <2>3 DEF TaskOf
  <1>11. ASSUME RecordSource(v) \/ RequestFails(v) PROVE TaskOf(v)'
    BY <1>11, TaskFinish DEF RecordSource, RequestFails
  <1> QED
    BY <1>f, <1>w, <1>1, <1>2, <1>2a, <1>3, <1>4, <1>5, <1>6, <1>7, <1>8, <1>9, <1>10, <1>11, Steps
    DEF WorkerStep, SetDeviceStatus, vars

-----------------------------------------------------------------------------
\* Who answers, and who records an edge.
LEMMA Answerers ==
  ASSUME [Next]_vars
  PROVE  /\ UNCHANGED answers \/ \E w \in Workers : Respond(w) \/ RecordSource(w)
         /\ UNCHANGED edges \/ \E w \in Workers : RecordEdge(w)
  BY Steps DEF WorkerStep, Begin, LookupKey, ReadOperation, ReadSwallowed, InsertOperation, RecordEdge, Respond, LookupSource,
    MatchContent, AddFact, ReadStats, UpdateCounts, RecordSource, RequestFails, SetDeviceStatus,
    Accepted, vars, opVars, factVars, given

\* An answer under way is of a task that holds what it answers with.
LEMMA NewAnswer ==
  ASSUME TypeOK, TaskInv, [Next]_vars, NEW a \in answers', a \notin answers
  PROVE  \E w \in Workers :
           /\ a.req = wreq[w] /\ a.req \in Requests
           /\ \/ /\ wpc[w] = "respond" /\ OfOperation(a.req) /\ a.receipt = wrow[w] /\ HasOperation(w)
                 /\ a.req.kind = "submit" => a.row \in Oldest(a.req.key)
                 /\ a.req.kind = "import" => a.row = wrow[w]
                                             /\ [op |-> wrow[w], digest |-> a.req.digest] \in edges
              \/ a.req.kind = "sync" /\ ~OfOperation(a.req) /\ a.row = wrow[w] /\ HasFact(w)
  <1>1. PICK w \in Workers : Respond(w) \/ RecordSource(w)
    BY Answerers
  <1>2. TaskOf(w) /\ wreq[w] \in Requests
    BY <1>1 DEF TaskInv, TaskOf, TypeOK, Respond, RecordSource
  <1>3. CASE Respond(w)
    <2>1. wpc[w] = "respond" /\ OfOperation(wreq[w]) /\ HasOperation(w)
      BY <1>2, <1>3 DEF Respond, TaskOf
    <2>2. PICK n \in IF wreq[w].kind = "submit" THEN Oldest(wreq[w].key) ELSE {wrow[w]} :
            answers' = answers \cup {[req |-> wreq[w], receipt |-> wrow[w], row |-> n]}
      BY <1>3 DEF Respond
    <2>3. a.req = wreq[w] /\ a.receipt = wrow[w] /\ a.row = n
      BY <2>2
    <2>4. wreq[w].kind = "import" => [op |-> wrow[w], digest |-> wreq[w].digest] \in edges
      BY <1>2, <2>1 DEF TaskOf
    <2>5. /\ wreq[w].kind = "submit" => a.row \in Oldest(wreq[w].key)
          /\ wreq[w].kind = "import" => a.row = wrow[w]
      BY <2>2, <2>3
    <2> QED
      BY <1>2, <2>1, <2>3, <2>4, <2>5
  <1>4. CASE RecordSource(w)
    <2>1. wreq[w].kind = "sync" /\ HasFact(w)
      BY <1>2, <1>4 DEF RecordSource, TaskOf
    <2>2. a.req = wreq[w] /\ a.row = wrow[w]
      BY <1>4 DEF RecordSource, Accepted
    <2> QED
      BY <1>2, <2>1, <2>2, RequestType
  <1> QED
    BY <1>1, <1>3, <1>4

LEMMA AnswerNext == ASSUME TypeOK, TaskInv, AnswerInv, [Next]_vars PROVE AnswerInv'
  <1>0. Grows
    BY GrowsNext
  <1> SUFFICES ASSUME NEW a \in answers'
               PROVE  /\ OfOperation(a.req) => a.receipt \in Rows(ops')
                           /\ ops'[a.receipt] = [key |-> a.req.key, digest |-> a.req.digest]
                           /\ a.row \in RowsOf(a.req.key)'
                      /\ a.req.kind = "sync" => a.row \in Rows(shard')
                           /\ shard'[a.row].content = a.req.content
    BY DEF AnswerInv
  <1>1. CASE a \in answers
    BY <1>0, <1>1 DEF AnswerInv, Grows, RowsOf, Rows
  <1>2. CASE a \notin answers
    <2>1. PICK w \in Workers :
            /\ a.req = wreq[w] /\ a.req \in Requests
            /\ \/ /\ OfOperation(a.req) /\ a.receipt = wrow[w] /\ HasOperation(w)
                  /\ a.row \in Oldest(a.req.key) \/ a.row = wrow[w]
               \/ a.req.kind = "sync" /\ ~OfOperation(a.req) /\ a.row = wrow[w] /\ HasFact(w)
      BY <1>2, NewAnswer DEF OfOperation
    <2>2. OfOperation(a.req) => a.req.kind # "sync"
      BY DEF OfOperation
    <2>3. OfOperation(a.req) => a.row \in RowsOf(a.req.key)
      BY <2>1 DEF HasOperation, Oldest, RowsOf, Rows
    <2>4. OfOperation(a.req) => a.row \in RowsOf(a.req.key)'
      BY <1>0, <2>3 DEF RowsOf, Rows, Grows
    <2> QED
      BY <1>0, <2>1, <2>2, <2>4 DEF HasOperation, HasFact, Grows
  <1> QED
    BY <1>1, <1>2

LEMMA ImportNext == ASSUME TypeOK, TaskInv, ImportIsWhole, [Next]_vars PROVE ImportIsWhole'
  <1>0. Grows
    BY GrowsNext
  <1>1. ASSUME NEW a \in answers', a.req.kind = "import"
        PROVE  [op |-> a.receipt, digest |-> a.req.digest] \in edges'
    <2>1. CASE a \in answers
      BY <1>0, <1>1, <2>1 DEF ImportIsWhole, Answered, Grows
    <2>2. CASE a \notin answers
      <3>1. PICK w \in Workers : a.receipt = wrow[w] /\ [op |-> wrow[w], digest |-> a.req.digest] \in edges
        BY <1>1, <2>2, NewAnswer
      <3> QED
        BY <1>0, <3>1 DEF Grows
    <2> QED
      BY <2>1, <2>2
  <1>2. ASSUME NEW e \in edges' PROVE e.op \in Rows(ops') /\ ops'[e.op].digest = e.digest
    <2>1. CASE e \in edges
      BY <1>0, <2>1 DEF ImportIsWhole, Grows
    <2>2. CASE e \notin edges
      <3>1. PICK w \in Workers : RecordEdge(w)
        BY <2>2, Answerers
      <3>2. e = [op |-> wrow[w], digest |-> wreq[w].digest]
        BY <2>2, <3>1 DEF RecordEdge
      <3>3. HasOperation(w)
        BY <3>1 DEF RecordEdge, TaskInv, TaskOf
      <3>4. wrow[w] \in Rows(ops) /\ ops[wrow[w]].digest = wreq[w].digest
        BY <3>3 DEF HasOperation
      <3> QED
        BY <1>0, <3>2, <3>4 DEF Grows
    <2> QED
      BY <2>1, <2>2
  <1> QED
    BY <1>1, <1>2 DEF ImportIsWhole, Answered

-----------------------------------------------------------------------------
\* Where requests for one subject do not overlap.  No two tasks have one subject:
LEMMA SubjectNext ==
  ASSUME TypeOK, TaskInv, AloneInv, ~Overlap, [Next]_vars,
         NEW v \in Workers, NEW w \in Workers, v # w, wreq'[v] # None, wreq'[w] # None
  PROVE  ~SameSubject(wreq'[v], wreq'[w])
  <1>1. ASSUME NEW u \in Workers, NEW r \in Requests, Begin(u, r)
        PROVE  ~SameSubject(wreq'[v], wreq'[w])
    <2>1. /\ wreq'[u] = r /\ \A x \in Workers \ {u} : wreq'[x] = wreq[x]
          /\ \A x \in Workers : wreq[x] # None => ~SameSubject(wreq[x], r)
      BY <1>1 DEF Begin, TypeOK
    <2>2. \A x \in Workers : wreq[x] # None => ~SameSubject(r, wreq[x])
      BY <2>1 DEF SameSubject
    <2> QED
      BY <2>1, <2>2 DEF AloneInv
  <1>2. ASSUME \A x \in Workers : wreq'[x] \in {wreq[x], None}
        PROVE  ~SameSubject(wreq'[v], wreq'[w])
    BY <1>2 DEF AloneInv
  <1>3. ASSUME NEW u \in Workers, WorkerStep(u), ~\E r \in Requests : Begin(u, r), NEW x \in Workers
        PROVE  wreq'[x] \in {wreq[x], None}
    BY <1>3 DEF WorkerStep, LookupKey, ReadOperation, ReadSwallowed, InsertOperation, RecordEdge, Respond, LookupSource, MatchContent,
      AddFact, ReadStats, UpdateCounts, RecordSource, RequestFails, Goto, Finish, TypeOK
  <1> QED
    BY <1>1, <1>2, <1>3, Steps DEF SetDeviceStatus, taskVars, vars

\* a task that is about to insert has found nothing, and the others insert something else;
LEMMA AloneNext ==
  ASSUME TypeOK, TaskInv, AloneInv, ~Overlap, [Next]_vars, NEW v \in Workers
  PROVE  AloneOf(v)'
  <1>t. wpc[v] \in {"insert", "add"} => wreq[v] # None
    BY DEF TaskInv, TaskOf
  <1>1. CASE wpc'[v] = "insert"
    <2>0. SUFFICES ASSUME NEW n \in 1..Len(ops'), ops'[n].key = wreq'[v].key,
                          wreq'[v].key \notin misread'
                   PROVE  FALSE
      BY <1>1 DEF AloneOf, RowsOf
    <2>m. wreq'[v].key \notin misread
      BY <2>0, GrowsNext DEF Grows
    <2>1. ASSUME wpc[v] = "insert", wreq'[v] = wreq[v] PROVE FALSE
      <3>1. RowsOf(wreq[v].key) = {} /\ OfOperation(wreq[v]) /\ wreq[v] # None
        BY <1>t, <2>1, <2>m DEF AloneInv, AloneOf, TaskInv, TaskOf
      <3>2. n \notin 1..Len(ops) \/ ops'[n] # ops[n]
        BY <2>0, <2>1, <3>1 DEF RowsOf
      <3>3. PICK w \in Workers : InsertOperation(w)
        <4>1. ops' # ops
          BY <2>0, <3>2
        <4> QED
          BY <4>1, Steps DEF WorkerStep, Begin, LookupKey, ReadOperation, ReadSwallowed, RecordEdge, Respond, LookupSource,
            MatchContent, AddFact, ReadStats, UpdateCounts, RecordSource, RequestFails,
            SetDeviceStatus, vars, opVars
      <3>4. wpc'[w] # "insert"
        BY <3>3, GotoStep DEF InsertOperation, Onward
      <3>5. w # v
        BY <1>1, <3>4
      <3>6. wreq[w] # None /\ OfOperation(wreq[w])
        BY <3>3 DEF InsertOperation, TaskInv, TaskOf
      <3>7. wreq[w].key # wreq[v].key
        BY <3>1, <3>5, <3>6 DEF AloneInv, SameSubject
      <3>8. ops'[n].key = wreq[w].key
        <4> DEFINE row == [key |-> wreq[w].key, digest |-> wreq[w].digest]
        <4>1. ops' = Append(ops, row) /\ row.key = wreq[w].key
          BY <3>3 DEF InsertOperation
        <4> HIDE DEF row
        <4>2. ops'[n] = row
          BY <2>0, <3>2, <4>1, AppendedRow DEF TypeOK
        <4> QED
          BY <4>1, <4>2
      <3> QED
        BY <2>0, <2>1, <3>7, <3>8
    <2>2. ASSUME LookupKey(v) PROVE FALSE
      <3>1. CASE RowsOf(wreq[v].key) = {} /\ Goto(v, "insert", 0)
        <4>1. wreq'[v] = wreq[v] /\ ops' = ops
          BY <2>2, <3>1, GotoStep DEF LookupKey, opVars
        <4> QED
          BY <2>0, <3>1, <4>1 DEF RowsOf
      <3>2. ASSUME NEW n1, Goto(v, "read", n1) PROVE FALSE
        BY <1>1, <3>2, GotoStep
      <3> QED
        BY <2>2, <3>1, <3>2 DEF LookupKey
    <2>2a. ASSUME ReadSwallowed(v) PROVE FALSE
      <3>1. wreq'[v] = wreq[v] /\ wreq[v].key \in misread'
        BY <2>2a, GotoStep DEF ReadSwallowed
      <3> QED
        BY <2>0, <3>1
    <2>3. ASSUME NEW w \in Workers, WorkerStep(w), w # v PROVE FALSE
      BY <1>1, <2>1, <2>3, OthersNext DEF Others
    <2>4. ASSUME WorkerStep(v), ~LookupKey(v), ~ReadSwallowed(v) PROVE FALSE
      BY <1>1, <2>4 DEF WorkerStep, Begin, ReadOperation, InsertOperation, RecordEdge, Respond, LookupSource,
        MatchContent, AddFact, ReadStats, UpdateCounts, RecordSource, RequestFails, Goto, Finish,
        Onward, TypeOK
    <2> QED
      BY <1>1, <2>1, <2>2, <2>2a, <2>3, <2>4, Steps DEF SetDeviceStatus, taskVars, vars
  <1>2. CASE wpc'[v] = "add"
    <2>0. SUFFICES ASSUME NEW n \in Rows(shard'),
                          shard'[n] = [source |-> wreq'[v].source, content |-> wreq'[v].content]
                   PROVE  FALSE
      BY <1>2 DEF AloneOf
    <2>1. ASSUME wpc[v] = "add", wreq'[v] = wreq[v] PROVE FALSE
      <3>1. /\ wreq[v].kind = "sync" /\ wreq[v] # None
            /\ \A m \in Rows(shard) :
                 shard[m] # [source |-> wreq[v].source, content |-> wreq[v].content]
        BY <1>t, <2>1 DEF AloneInv, AloneOf, TaskInv, TaskOf
      <3>2. n \notin Rows(shard) \/ shard'[n] # shard[n]
        BY <2>0, <2>1, <3>1
      <3>3. PICK w \in Workers : AddFact(w)
        <4>1. shard' # shard
          BY <2>0, <3>2
        <4> QED
          BY <4>1, Steps DEF WorkerStep, Begin, LookupKey, ReadOperation, ReadSwallowed, InsertOperation, RecordEdge, Respond,
            LookupSource, MatchContent, ReadStats, UpdateCounts, RecordSource, RequestFails,
            SetDeviceStatus, vars, factVars
      <3>4. w # v
        BY <1>2, <3>3, GotoStep DEF AddFact
      <3>5. wreq[w] # None /\ wreq[w].kind = "sync"
        BY <3>3 DEF AddFact, TaskInv, TaskOf
      <3>6. wreq[w].source # wreq[v].source
        BY <3>1, <3>4, <3>5 DEF AloneInv, SameSubject
      <3>7. shard'[n].source = wreq[w].source
        <4> DEFINE row == [source |-> wreq[w].source, content |-> wreq[w].content]
        <4>1. shard' = Append(shard, row) /\ row.source = wreq[w].source
          BY <3>3 DEF AddFact
        <4> HIDE DEF row
        <4>2. shard'[n] = row
          BY <2>0, <3>2, <4>1, AppendedRow DEF TypeOK, Rows
        <4> QED
          BY <4>1, <4>2
      <3>8. shard'[n].source = wreq[v].source
        BY <2>0, <2>1
      <3> QED
        BY <3>6, <3>7, <3>8
    <2>2. ASSUME MatchContent(v) PROVE FALSE
      <3>1. CASE {m \in 1..Len(shard) : shard[m].content = wreq[v].content} = {} /\ Goto(v, "add", 0)
        <4>1. wreq'[v] = wreq[v] /\ shard' = shard
          BY <2>2, <3>1, GotoStep DEF MatchContent, factVars
        <4>2. shard[n].content = wreq[v].content
          BY <2>0, <4>1
        <4> QED
          BY <2>0, <3>1, <4>1, <4>2 DEF Rows
      <3>2. ASSUME NEW n1, Goto(v, "record", n1) PROVE FALSE
        BY <1>2, <3>2, GotoStep
      <3> QED
        BY <2>2, <3>1, <3>2 DEF MatchContent
    <2>3. ASSUME NEW w \in Workers, WorkerStep(w), w # v PROVE FALSE
      BY <1>2, <2>1, <2>3, OthersNext DEF Others
    <2>4. ASSUME WorkerStep(v), ~MatchContent(v) PROVE FALSE
      BY <1>2, <2>4 DEF WorkerStep, Begin, LookupKey, ReadOperation, ReadSwallowed, InsertOperation, RecordEdge, Respond,
        LookupSource, AddFact, ReadStats, UpdateCounts, RecordSource, RequestFails, Goto, Finish,
        Onward, TypeOK
    <2> QED
      BY <1>2, <2>1, <2>2, <2>3, <2>4, Steps DEF SetDeviceStatus, taskVars, vars
  <1> QED
    BY <1>1, <1>2 DEF AloneOf

\* so keys and source facts stay unique, and the oldest row of a key is the one
\* whose receipt is answered.
LEMMA AloneInvNext == ASSUME TypeOK, TaskInv, AnswerInv, AloneInv, [Next]_vars PROVE AloneInv'
  <1> SUFFICES ASSUME ~Overlap PROVE AloneInv'
    BY DEF AloneInv
  <1>0. Grows
    BY GrowsNext
  <1>1. \A m, n \in Rows(ops') : ops'[m].key = ops'[n].key => m = n \/ ops'[m].key \in misread'
    <2>1. CASE ops' = ops
      BY <1>0, <2>1 DEF AloneInv, Grows
    <2>2. ASSUME NEW w \in Workers, InsertOperation(w)
          PROVE  \A m, n \in Rows(ops') : ops'[m].key = ops'[n].key => m = n \/ ops'[m].key \in misread'
      <3> DEFINE row == [key |-> wreq[w].key, digest |-> wreq[w].digest]
      <3>1. ops' = Append(ops, row) /\ row.key = wreq[w].key
        BY <2>2 DEF InsertOperation
      <3>2. row.key \notin misread => \A n \in 1..Len(ops) : ops[n].key # row.key
        BY <2>2, <3>1 DEF InsertOperation, AloneInv, AloneOf, RowsOf
      <3> HIDE DEF row
      <3>3. \A n \in 1..Len(ops') : /\ n \in 1..Len(ops) => ops'[n] = ops[n]
                                    /\ n \notin 1..Len(ops) => n = Len(ops) + 1 /\ ops'[n] = row
        BY <3>1 DEF TypeOK
      <3>4. \A m, n \in 1..Len(ops) : ops[m].key = ops[n].key => m = n \/ ops[m].key \in misread
        BY DEF AloneInv, Rows
      <3> QED
        BY <1>0, <3>2, <3>3, <3>4 DEF Rows, Grows
    <2>3. ops' = ops \/ \E w \in Workers : InsertOperation(w)
      BY Steps DEF WorkerStep, Begin, LookupKey, ReadOperation, ReadSwallowed, RecordEdge, Respond, LookupSource,
        MatchContent, AddFact, ReadStats, UpdateCounts, RecordSource, RequestFails,
        SetDeviceStatus, vars, opVars
    <2> QED
      BY <2>1, <2>2, <2>3
  <1>2. \A m, n \in Rows(shard') : shard'[m] = shard'[n] => m = n
    <2>1. CASE shard' = shard
      BY <2>1 DEF AloneInv
    <2>2. ASSUME NEW w \in Workers, AddFact(w)
          PROVE  \A m, n \in Rows(shard') : shard'[m] = shard'[n] => m = n
      <3> DEFINE row == [source |-> wreq[w].source, content |-> wreq[w].content]
      <3>1. shard' = Append(shard, row)
        BY <2>2 DEF AddFact
      <3>2. \A n \in 1..Len(shard) : shard[n] # row
        BY <2>2 DEF AddFact, AloneInv, AloneOf, Rows
      <3> HIDE DEF row
      <3>3. \A n \in 1..Len(shard') : /\ n \in 1..Len(shard) => shard'[n] = shard[n]
                                      /\ n \notin 1..Len(shard) => n = Len(shard) + 1 /\ shard'[n] = row
        BY <3>1 DEF TypeOK
      <3>4. \A m, n \in 1..Len(shard) : shard[m] = shard[n] => m = n
        BY DEF AloneInv, Rows
      <3> QED
        BY <3>2, <3>3, <3>4 DEF Rows
    <2>3. shard' = shard \/ \E w \in Workers : AddFact(w)
      BY Steps DEF WorkerStep, Begin, LookupKey, ReadOperation, ReadSwallowed, InsertOperation, RecordEdge, Respond, LookupSource,
        MatchContent, ReadStats, UpdateCounts, RecordSource, RequestFails,
        SetDeviceStatus, vars, factVars
    <2> QED
      BY <2>1, <2>2, <2>3
  <1>3. ASSUME NEW a \in answers', OfOperation(a.req)
        PROVE  a.row = a.receipt \/ a.req.key \in misread'
    <2>1. CASE a \in answers
      BY <1>0, <1>3, <2>1 DEF AloneInv, Grows
    <2>2. CASE a \notin answers
      <3>1. PICK w \in Workers :
              /\ a.req = wreq[w] /\ a.receipt = wrow[w] /\ HasOperation(w)
              /\ a.req.kind = "submit" => a.row \in Oldest(a.req.key)
              /\ a.req.kind = "import" => a.row = wrow[w]
        BY <1>3, <2>2, NewAnswer DEF OfOperation
      <3>2. wrow[w] \in Rows(ops) /\ ops[wrow[w]].key = a.req.key
        BY <3>1 DEF HasOperation
      <3>3. ASSUME a.row \in Oldest(a.req.key) PROVE a.row = wrow[w] \/ a.req.key \in misread
        <4>1. a.row \in Rows(ops) /\ ops[a.row].key = a.req.key
          BY <3>3 DEF Oldest, RowsOf, Rows
        <4> QED
          BY <3>2, <4>1 DEF AloneInv
      <3> QED
        BY <1>0, <1>3, <3>1, <3>3 DEF OfOperation, Grows
    <2> QED
      BY <2>1, <2>2
  <1>4. \A v, w \in Workers :
          v # w /\ wreq'[v] # None /\ wreq'[w] # None => ~SameSubject(wreq'[v], wreq'[w])
    BY SubjectNext
  <1>5. \A w \in Workers : AloneOf(w)'
    BY AloneNext
  <1> QED
    BY <1>1, <1>2, <1>3, <1>4, <1>5 DEF AloneInv

-----------------------------------------------------------------------------
LEMMA Invariance == Spec => []IInv
  <1>1. Init => IInv
    <2> SUFFICES ASSUME Init PROVE IInv
      OBVIOUS
    <2>1. Rows(ops) = {} /\ Rows(shard) = {}
      BY DEF Init, Rows
    <2>2. TaskInv
      BY DEF Init, TaskInv, TaskOf
    <2> QED
      BY TypeInit, <2>1, <2>2
      DEF Init, IInv, ImportIsWhole, Answered, AnswerInv, AloneInv, AloneOf
  <1>2. IInv /\ [Next]_vars => IInv'
    BY TypeNext, TaskNext, ImportNext, AnswerNext, AloneInvNext DEF IInv
  <1> QED
    BY <1>1, <1>2, PTL DEF Spec

\* Every variable keeps its type; a recorded source maps to a row of the shard, and
\* no count of the catalog is above the shard's.
THEOREM TypeCorrect == Spec => []TypeOK
  <1>1. IInv => TypeOK
    BY DEF IInv
  <1> QED
    BY Invariance, <1>1, PTL

\* An answered import has its operation and its edge, and edges have the content of
\* the operations they name, whether or not requests overlap.
THEOREM ImportsAreWhole == Spec => []ImportIsWhole
  <1>1. IInv => ImportIsWhole
    BY DEF IInv
  <1> QED
    BY Invariance, <1>1, PTL

\* The same idempotency key returns the original operation, if requests under one
\* key do not overlap and the key's operation was never taken for absent.
THEOREM KeysAnswerOnce == ASSUME ~Overlap PROVE Spec => []SameAnswerFor(Keys \ misread)
  <1>1. ASSUME IInv PROVE SameAnswerFor(Keys \ misread)
    <2> DEFINE all == {c \in answers : OfOperation(c.req) /\ c.req.key \in Keys \ misread}
    <2>1. ASSUME NEW a \in all
          PROVE  /\ a.receipt \in Rows(ops) /\ a.row = a.receipt
                 /\ ops[a.receipt] = [key |-> a.req.key, digest |-> a.req.digest]
                 /\ ops[a.receipt].key = a.req.key
      <3>1. a \in answers /\ OfOperation(a.req) /\ a.req.key \notin misread
        OBVIOUS
      <3>2. /\ a.receipt \in Rows(ops)
            /\ ops[a.receipt] = [key |-> a.req.key, digest |-> a.req.digest]
        BY <1>1, <3>1 DEF IInv, AnswerInv
      <3>3. a.row = a.receipt
        BY <1>1, <3>1 DEF IInv, AloneInv
      <3> QED
        BY <3>2, <3>3
    <2>2. ASSUME NEW a \in all, NEW b \in all, a.req.key = b.req.key
          PROVE  a.receipt = b.receipt
      <3>1. ops[a.receipt].key = ops[b.receipt].key /\ ops[a.receipt].key \notin misread
        BY <2>1, <2>2
      <3> QED
        BY <1>1, <2>1, <3>1 DEF IInv, AloneInv
    <2> HIDE DEF all
    <2>3. SameAnswerFor(Keys \ misread) <=>
            \A a, b \in all :
              /\ a.req.key = b.req.key => a.receipt = b.receipt /\ a.row = b.row
              /\ a.row = a.receipt
              /\ ops[a.row] = [key |-> a.req.key, digest |-> a.req.digest]
      BY DEF SameAnswerFor, all
    <2> QED
      BY <2>1, <2>2, <2>3
  <1> QED
    BY Invariance, <1>1, PTL

\* No source fact is stored twice, and an accepted one is in the shard as it was
\* sent, if requests for one source do not overlap.
THEOREM SourcesAreStoredOnce == ASSUME ~Overlap PROVE Spec => []SourceStoredOnce
  <1>1. IInv => SourceStoredOnce
    BY DEF IInv, AloneInv, AnswerInv, SourceStoredOnce, Answered
  <1> QED
    BY Invariance, <1>1, PTL

-----------------------------------------------------------------------------
(* Submissions and imports implement IdempotentSubmission.                 *)

KeptOf(rows, n) ==
  [key |-> rows[n].key, content |-> rows[n].digest, receipt |-> n, operation |-> n]
Kept == {KeptOf(ops, n) : n \in Rows(ops)}

GivenFor(a) ==
  [key |-> a.req.key, content |-> a.req.digest, receipt |-> a.receipt, operation |-> a.row]
Given == {GivenFor(a) : a \in {b \in answers : OfOperation(b.req)}}

\* A row is added for a key that has none, or whose row was not seen.
LEMMA InsertKeeps ==
  ASSUME IInv, ~Overlap, NEW w \in Workers, InsertOperation(w)
  PROVE  \E o \in Submissions!Operations :
           /\ \A p \in Kept : /\ p.receipt # o.receipt /\ p.operation # o.operation
                              /\ p.key # o.key \/ o.key \in misread
           /\ Kept' = Kept \cup {o}
  <1>1. wreq[w] \in Requests /\ OfOperation(wreq[w])
    BY DEF IInv, TypeOK, TaskInv, TaskOf, InsertOperation
  <1>2. PICK row, m :
          row = [key |-> wreq[w].key, digest |-> wreq[w].digest] /\ m = Len(ops) + 1
    OBVIOUS
  <1>3. /\ row.key = wreq[w].key /\ row.key \in Keys /\ row.digest \in Digests
        /\ Len(ops) \in Nat /\ m \in Nat
    BY <1>1, <1>2, RequestType DEF IInv, TypeOK
  <1>4. \A n \in Rows(ops) : (ops[n].key # row.key \/ row.key \in misread) /\ n # m
    <2>1. wreq[w].key \in misread \/ RowsOf(wreq[w].key) = {}
      BY DEF InsertOperation, IInv, AloneInv, AloneOf
    <2>2. \A n \in Rows(ops) : ops[n].key # wreq[w].key \/ wreq[w].key \in misread
      BY <2>1 DEF RowsOf, Rows
    <2>3. \A n \in Rows(ops) : n # m
      BY <1>2, <1>3 DEF Rows
    <2> QED
      BY <1>3, <2>2, <2>3
  <1>5. /\ Rows(ops') = Rows(ops) \cup {m} /\ ops'[m] = row
        /\ \A n \in Rows(ops) : ops'[n] = ops[n]
    <2>1. PICK Row : ops \in Seq(Row)
      BY DEF IInv, TypeOK
    <2>2. ops' = Append(ops, row)
      BY <1>2 DEF InsertOperation
    <2> QED
      BY <1>2, <2>1, <2>2 DEF Rows
  <1>6. /\ KeptOf(ops', m) = [key |-> row.key, content |-> row.digest,
                              receipt |-> m, operation |-> m]
        /\ \A n \in Rows(ops) : KeptOf(ops', n) = KeptOf(ops, n)
    BY <1>5 DEF KeptOf
  <1>7. KeptOf(ops', m) \in Submissions!Operations
    BY <1>3, <1>6 DEF Submissions!Operations
  <1>8. Kept' = Kept \cup {KeptOf(ops', m)}
    <2>1. Kept' = {KeptOf(ops', n) : n \in Rows(ops) \cup {m}}
      BY <1>5 DEF Kept
    <2> QED
      BY <1>6, <2>1 DEF Kept
  <1>9. ASSUME NEW p \in Kept
        PROVE  /\ p.key # KeptOf(ops', m).key \/ KeptOf(ops', m).key \in misread
               /\ p.receipt # KeptOf(ops', m).receipt
               /\ p.operation # KeptOf(ops', m).operation
    <2>1. PICK n \in Rows(ops) : p = KeptOf(ops, n)
      BY <1>9 DEF Kept
    <2>2. p.key = ops[n].key /\ p.receipt = n /\ p.operation = n
      BY <2>1 DEF KeptOf
    <2>3. KeptOf(ops', m).key = row.key /\ KeptOf(ops', m).receipt = m /\ KeptOf(ops', m).operation = m
      BY <1>6
    <2> QED
      BY <1>4, <2>2, <2>3
  <1> QED
    BY <1>7, <1>8, <1>9

\* Submissions and imports keep the promise of an idempotency key, if requests under
\* one key do not overlap: a key stands for one operation, and every answer names it.
\* A key whose operation was taken for absent is excused from the first half
\* (submit_operation, get_operation, import_run_pack_observation).
THEOREM Refinement == ASSUME ~Overlap PROVE Spec => ImplementsSubmission
  <1> DEFINE InsertStep == \E o \in Kept' \cap Submissions!Operations :
                             /\ \A p \in Kept : /\ p.receipt # o.receipt /\ p.operation # o.operation
                                                /\ p.key # o.key \/ o.key \in misread
                             /\ Kept' = Kept \cup {o} /\ UNCHANGED <<Given, misread>>
             AnswerStep == \E o \in Given' :
                             /\ \E p, q \in Kept : /\ o = [p EXCEPT !.operation = q.operation]
                                                   /\ q.key = p.key
                                                   /\ q = p \/ p.key \in misread
                             /\ Given' = Given \cup {o} /\ UNCHANGED <<Kept, misread>>
             ExcuseStep == \E k \in misread' :
                             /\ \E p \in Kept : p.key = k
                             /\ misread' = misread \cup {k} /\ UNCHANGED <<Kept, Given>>
             A == \/ UNCHANGED <<Kept, Given, misread>>
                  \/ InsertStep \/ AnswerStep \/ ExcuseStep
  <1>1. Init => Submissions!Init
    BY DEF Init, Submissions!Init, Rows
  <1>2. ASSUME IInv, IInv', [Next]_vars PROVE A
    <2>1. ASSUME NEW w \in Workers, InsertOperation(w) PROVE InsertStep
      <3>1. UNCHANGED <<Given, misread>>
        BY <2>1 DEF InsertOperation, Given, GivenFor, given
      <3> QED
        BY <1>2, <2>1, <3>1, InsertKeeps
    <2>2. ASSUME NEW w \in Workers, Respond(w) PROVE AnswerStep
      <3>1. Kept' = Kept /\ misread' = misread /\ Rows(ops') = Rows(ops) /\ ops' = ops
        BY <2>2 DEF Respond, Kept, Rows
      <3>2. PICK a : answers' = answers \cup {a} /\ a.req = wreq[w]
        <4>1. PICK n : answers' = answers \cup {[req |-> wreq[w], receipt |-> wrow[w], row |-> n]}
          BY <2>2 DEF Respond
        <4>2. [req |-> wreq[w], receipt |-> wrow[w], row |-> n].req = wreq[w]
          OBVIOUS
        <4> QED
          BY <4>1, <4>2
      <3>3. OfOperation(a.req)
        BY <1>2, <2>2, <3>2 DEF IInv, TaskInv, TaskOf, Respond
      <3>4. /\ a.receipt \in Rows(ops) /\ a.row \in Rows(ops)
            /\ ops[a.receipt] = [key |-> a.req.key, digest |-> a.req.digest]
            /\ ops[a.row].key = a.req.key
            /\ a.row = a.receipt \/ a.req.key \in misread
        BY <1>2, <3>1, <3>2, <3>3 DEF IInv, AnswerInv, AloneInv, RowsOf, Rows
      <3>5. /\ GivenFor(a) = [KeptOf(ops, a.receipt) EXCEPT !.operation = KeptOf(ops, a.row).operation]
            /\ KeptOf(ops, a.row).key = KeptOf(ops, a.receipt).key
            /\ KeptOf(ops, a.receipt).key = a.req.key
        <4>1. ops[a.receipt].key = a.req.key /\ ops[a.receipt].digest = a.req.digest
          BY <3>4
        <4> QED
          BY <3>4, <4>1 DEF GivenFor, KeptOf
      <3>6. KeptOf(ops, a.receipt) \in Kept /\ KeptOf(ops, a.row) \in Kept
        BY <3>4 DEF Kept
      <3>7. KeptOf(ops, a.row) = KeptOf(ops, a.receipt) \/ KeptOf(ops, a.receipt).key \in misread
        BY <3>4, <3>5
      <3>8. Given' = Given \cup {GivenFor(a)}
        BY <3>2, <3>3 DEF Given
      <3> QED
        BY <3>1, <3>5, <3>6, <3>7, <3>8
    <2>3. ASSUME NEW w \in Workers, ReadSwallowed(w) PROVE ExcuseStep
      <3> DEFINE k == wreq[w].key
      <3>1. /\ misread' = misread \cup {k} /\ ops' = ops /\ answers' = answers
            /\ wrow[w] \in RowsOf(k)
        BY <1>2, <2>3 DEF ReadSwallowed, opVars, IInv, TaskInv, TaskOf
      <3> HIDE DEF k
      <3>2. KeptOf(ops, wrow[w]) \in Kept /\ KeptOf(ops, wrow[w]).key = k
        BY <3>1 DEF RowsOf, Rows, Kept, KeptOf
      <3>3. UNCHANGED <<Kept, Given>>
        BY <3>1 DEF Kept, Given
      <3> QED
        BY <3>1, <3>2, <3>3
    <2>4. ASSUME NEW w \in Workers, RecordSource(w) PROVE UNCHANGED <<Kept, Given, misread>>
      <3>1. Kept' = Kept /\ misread' = misread
        BY <2>4 DEF RecordSource, opVars, Kept
      <3>2. {b \in answers' : OfOperation(b.req)} = {b \in answers : OfOperation(b.req)}
        <4>1. CASE answers' = answers
          BY <4>1
        <4>2. CASE Accepted(w, wrow[w])
          <5>1. PICK a : answers' = answers \cup {a} /\ a.req = wreq[w]
            <6>1. [req |-> wreq[w], receipt |-> 0, row |-> wrow[w]].req = wreq[w]
              OBVIOUS
            <6> QED
              BY <4>2, <6>1 DEF Accepted
          <5>2. ~ OfOperation(a.req)
            BY <1>2, <2>4, <5>1 DEF IInv, TaskInv, TaskOf, RecordSource, OfOperation
          <5> QED
            BY <5>1, <5>2
        <4> QED
          BY <2>4, <4>1, <4>2 DEF RecordSource
      <3>3. Given' = Given
        BY <3>2 DEF Given
      <3> QED
        BY <3>1, <3>3
    <2>5. CASE UNCHANGED <<ops, given>>
      BY <2>5 DEF Kept, Given, given
    <2>6. \/ UNCHANGED <<ops, given>>
          \/ \E w \in Workers :
               InsertOperation(w) \/ Respond(w) \/ ReadSwallowed(w) \/ RecordSource(w)
      BY <1>2, Steps DEF WorkerStep, Begin, LookupKey, ReadOperation, RecordEdge, LookupSource,
        MatchContent, AddFact, ReadStats, UpdateCounts, RequestFails, SetDeviceStatus, vars, opVars
    <2> QED
      BY <2>1, <2>2, <2>3, <2>4, <2>5, <2>6
  <1>3. A => [Submissions!Next]_(Submissions!vars)
    <2>1. InsertStep => \E o \in Kept' \cap Submissions!Operations : Submissions!Keep(o)
      BY DEF Kept, KeptOf, Given, GivenFor, Submissions!Keep
    <2>2. AnswerStep => \E o \in Given' : Submissions!Answer(o)
      BY DEF Kept, KeptOf, Given, GivenFor, Submissions!Answer
    <2>3. ExcuseStep => \E k \in misread' : Submissions!Excuse(k)
      BY DEF Kept, KeptOf, Given, GivenFor, Submissions!Excuse
    <2>4. UNCHANGED <<Kept, Given, misread>> => UNCHANGED Submissions!vars
      BY DEF Kept, KeptOf, Given, GivenFor, Submissions!vars
    <2> HIDE DEF InsertStep, AnswerStep, ExcuseStep
    <2> QED
      BY <2>1, <2>2, <2>3, <2>4 DEF Kept, KeptOf, Given, GivenFor, Submissions!Next
  <1>4. IInv /\ IInv' /\ [Next]_vars => [Submissions!Next]_(Submissions!vars)
    BY <1>2, <1>3
  <1> QED
    BY Invariance, <1>1, <1>4, PTL DEF Spec, ImplementsSubmission
=============================================================================
