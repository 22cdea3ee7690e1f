---------------------------- MODULE PooledWrites ----------------------------
(***************************************************************************)
(* Writes to the pooled control database that are meant to be repeatable:  *)
(* operation envelopes under an idempotency key (submit_operation and its  *)
(* handler), run-pack observations, which are an operation and a           *)
(* provenance edge (import_run_pack_observation), and source facts         *)
(* accepted into a device shard (sync_fact_to_shard).  They look up, then  *)
(* act, then insert, and release the connection's mutex in between; each   *)
(* action below is one section of code that runs under that mutex or in    *)
(* one SQLite statement.                                                   *)
(*                                                                         *)
(* One device and one namespace.  A row's id is its position; a receipt is *)
(* made from the operation id, so an operation and its receipt have one    *)
(* number.  Contents and digests are values compared by equality.  What the *)
(* importer refuses before it writes (witness, signature, digests, a path  *)
(* or a time) is left out.                                                 *)
(*                                                                         *)
(* Definitions marked "Mutant" are faulty variants of the definition after *)
(* them: they are in no specification, and show that a property can fail.  *)
(***************************************************************************)
EXTENDS Integers, Sequences

CONSTANTS
  Keys, Digests,       \* idempotency keys and content digests
  Sources, Contents,   \* source fact ids and fact contents
  Workers,             \* tasks serving a request
  Overlap,             \* requests for one key or one source may overlap
  MaxRows,             \* bound: operations and facts together
  MaxFail,             \* bound: failed or dropped requests, status changes
  None

ASSUME OverlapAssumption == Overlap \in BOOLEAN
ASSUME BoundAssumption == MaxFail \in Nat

VARIABLES
  ops,        \* operation_envelopes
  edges,      \* provenance edges of imported run packs
  audit,      \* audit_events of /v1/operations, without their multiplicity
  shard,      \* facts of the device's shard, with the source that added them
  synced,     \* synced_facts
  factCount,  \* device_shards.fact_count
  status,     \* devices.status
  wpc, wreq, wrow, wstat,   \* each task: its step, request, row and stats
  answers,    \* the successful answers given so far
  misread,    \* history: keys whose operation was once taken for absent
  fails       \* how much of MaxFail is used

taskVars == <<wpc, wreq, wrow, wstat>>
opVars == <<ops, edges, audit>>
factVars == <<shard, synced, factCount>>
given == <<answers, misread>>
vars == <<opVars, factVars, status, taskVars, given, fails>>

Submission == [kind: {"submit"}, key: Keys, digest: Digests]
Import == [kind: {"import"}, key: Keys, digest: Digests]
SyncFact == [kind: {"sync"}, source: Sources, content: Contents]
Requests == Submission \cup Import \cup SyncFact
OfOperation(r) == r.kind \in {"submit", "import"}
Statuses == {"active", "quarantined", "revoked"}

ASSUME SentinelAssumption == None \notin Requests

Init ==
  /\ ops = <<>> /\ edges = {} /\ audit = {}
  /\ shard = <<>> /\ synced = {} /\ factCount = 0
  /\ status = "active"
  /\ wpc = [w \in Workers |-> "idle"]
  /\ wreq = [w \in Workers |-> None]
  /\ wrow = [w \in Workers |-> 0]
  /\ wstat = [w \in Workers |-> 0]
  /\ answers = {} /\ misread = {}
  /\ fails = 0

Fail == fails < MaxFail /\ fails' = fails + 1

Goto(w, pc, row) ==
  /\ wpc' = [wpc EXCEPT ![w] = pc]
  /\ wrow' = [wrow EXCEPT ![w] = row]
  /\ UNCHANGED <<wreq, wstat>>

Finish(w) ==
  /\ wpc' = [wpc EXCEPT ![w] = "idle"]
  /\ wreq' = [wreq EXCEPT ![w] = None]
  /\ wrow' = [wrow EXCEPT ![w] = 0]
  /\ wstat' = [wstat EXCEPT ![w] = 0]

\* Two requests are about the same thing.
SameSubject(q, r) ==
  \/ OfOperation(q) /\ OfOperation(r) /\ q.key = r.key
  \/ q.kind = "sync" /\ r.kind = "sync" /\ q.source = r.source

\* Authentication, or get_device, refuses a device that is not active; the
\* bounds leave room for the rows of the requests under way.
Begin(w, r) ==
  /\ wpc[w] = "idle"
  /\ status = "active"
  /\ Len(ops) + Len(shard) < MaxRows
  /\ Overlap \/ \A v \in Workers : wreq[v] # None => ~SameSubject(wreq[v], r)
  /\ wpc' = [wpc EXCEPT ![w] = IF OfOperation(r) THEN "lookupKey" ELSE "lookupSource"]
  /\ wreq' = [wreq EXCEPT ![w] = r]
  /\ UNCHANGED <<wrow, wstat, opVars, factVars, status, given, fails>>

-----------------------------------------------------------------------------
\* submit_operation, for both of its callers.  SELECT ... WHERE idempotency_key = ?
\* LIMIT 1 reads the index in row order: the oldest row of the key.
RowsOf(k) == {n \in 1..Len(ops) : ops[n].key = k}
Oldest(k) == {n \in RowsOf(k) : \A m \in RowsOf(k) : n <= m}

\* The handler of a run pack audits its successes on a route of its own.
Audited(w, outcome) ==
  audit' = audit \cup {[req |-> r, outcome |-> outcome] : r \in {wreq[w]} \cap Submission}

\* What follows submit_operation.
Onward(w) == IF wreq[w].kind = "submit" THEN "respond" ELSE "edge"

\* get_operation_by_idempotency_key: the id of the operation is looked up,
LookupKey(w) ==
  /\ wpc[w] = "lookupKey"
  /\ \/ RowsOf(wreq[w].key) = {} /\ Goto(w, "insert", 0)
     \/ \E n \in Oldest(wreq[w].key) : Goto(w, "read", n)
  /\ UNCHANGED <<opVars, factVars, status, given, fails>>

\* Mutant: another digest under a known key is a new operation.
ReadAnyOperation(w) ==
  /\ wpc[w] = "read"
  /\ \/ ops[wrow[w]].digest = wreq[w].digest /\ Goto(w, Onward(w), wrow[w])
     \/ ops[wrow[w]].digest # wreq[w].digest /\ Goto(w, "insert", 0)
  /\ UNCHANGED <<opVars, factVars, status, given, fails>>

\* then get_operation reads its row in a section of its own. Other content under
\* the key is a conflict.
ReadOperation(w) ==
  /\ wpc[w] = "read"
  /\ \/ /\ ops[wrow[w]].digest = wreq[w].digest
        /\ Goto(w, Onward(w), wrow[w])
        /\ UNCHANGED audit
     \/ /\ ops[wrow[w]].digest # wreq[w].digest
        /\ Finish(w)
        /\ Audited(w, "error")
  /\ UNCHANGED <<ops, edges, factVars, status, given, fails>>

\* get_operation ends in .ok(): an error of the database, too, is "no operation".
ReadSwallowed(w) ==
  /\ Fail
  /\ wpc[w] = "read"
  /\ misread' = misread \cup {wreq[w].key}
  /\ Goto(w, "insert", 0)
  /\ UNCHANGED <<opVars, factVars, status, answers>>

InsertOperation(w) ==
  /\ wpc[w] = "insert"
  /\ ops' = Append(ops, [key |-> wreq[w].key, digest |-> wreq[w].digest])
  /\ Goto(w, Onward(w), Len(ops) + 1)
  /\ UNCHANGED <<edges, audit, factVars, status, given, fails>>

\* Mutant: the edge names the operation that this call would have inserted.
RecordEdgeOfCandidate(w) ==
  /\ wpc[w] = "edge"
  /\ edges' = edges \cup {[op |-> Len(ops) + 1, digest |-> wreq[w].digest]}
  /\ Goto(w, "respond", wrow[w])
  /\ UNCHANGED <<ops, audit, factVars, status, given, fails>>

\* get_operation_by_receipt, then record_provenance_edge, to which the edge of an
\* earlier attempt is the same event.
RecordEdge(w) ==
  /\ wpc[w] = "edge"
  /\ edges' = edges \cup {[op |-> wrow[w], digest |-> wreq[w].digest]}
  /\ Goto(w, "respond", wrow[w])
  /\ UNCHANGED <<ops, audit, factVars, status, given, fails>>

\* submit_operation_handler answers with the receipt it was given and with the
\* operation it reads back under the key; the importer with the operation of the
\* receipt.
Respond(w) ==
  /\ wpc[w] = "respond"
  /\ \E n \in IF wreq[w].kind = "submit" THEN Oldest(wreq[w].key) ELSE {wrow[w]} :
       answers' = answers \cup {[req |-> wreq[w], receipt |-> wrow[w], row |-> n]}
  /\ Audited(w, "ok")
  /\ Finish(w)
  /\ UNCHANGED <<ops, edges, factVars, status, misread, fails>>

-----------------------------------------------------------------------------
\* sync_fact_to_shard.
Accepted(w, row) == answers' = answers \cup {[req |-> wreq[w], receipt |-> 0, row |-> row]}

LookupSource(w) ==
  LET known == {s \in synced : s.source = wreq[w].source} IN
  /\ wpc[w] = "lookupSource"
  /\ IF known = {} THEN Goto(w, "match", 0) ELSE Finish(w)
  /\ UNCHANGED <<opVars, factVars, status, given, fails>>

\* Mutant: the shard is not searched for the content.
MatchNothing(w) ==
  /\ wpc[w] = "match"
  /\ Goto(w, "add", 0)
  /\ UNCHANGED <<opVars, factVars, status, given, fails>>

\* An equal fact of the shard (LIMIT 1: any one) stands for this source.
MatchContent(w) ==
  LET equal == {n \in 1..Len(shard) : shard[n].content = wreq[w].content} IN
  /\ wpc[w] = "match"
  /\ \/ equal = {} /\ Goto(w, "add", 0)
     \/ \E n \in equal : Goto(w, "record", n)
  /\ UNCHANGED <<opVars, factVars, status, given, fails>>

AddFact(w) ==
  /\ wpc[w] = "add"
  /\ shard' = Append(shard, [source |-> wreq[w].source, content |-> wreq[w].content])
  /\ Goto(w, "stats", Len(shard) + 1)
  /\ UNCHANGED <<opVars, synced, factCount, status, given, fails>>

\* refresh_shard_counts: the shard's statistics are read, then the catalog row
\* is updated with them under the other database's mutex.
ReadStats(w) ==
  /\ wpc[w] = "stats"
  /\ wstat' = [wstat EXCEPT ![w] = Len(shard)]
  /\ wpc' = [wpc EXCEPT ![w] = "update"]
  /\ UNCHANGED <<wreq, wrow, opVars, factVars, status, given, fails>>

\* Mutant: the new fact is added to statistics that already have it.
CountTwice(w) ==
  /\ wpc[w] = "update"
  /\ factCount' = wstat[w] + 1
  /\ Goto(w, "record", wrow[w])
  /\ UNCHANGED <<opVars, shard, synced, status, given, fails>>

UpdateCounts(w) ==
  /\ wpc[w] = "update"
  /\ factCount' = wstat[w]
  /\ Goto(w, "record", wrow[w])
  /\ UNCHANGED <<opVars, shard, synced, status, given, fails>>

\* INSERT INTO synced_facts: its primary key is the source and the device.
RecordSource(w) ==
  /\ wpc[w] = "record"
  /\ IF \E s \in synced : s.source = wreq[w].source
       THEN UNCHANGED <<synced, answers>>
       ELSE /\ synced' = synced \cup {[source |-> wreq[w].source, fact |-> wrow[w]]}
            /\ Accepted(w, wrow[w])
  /\ Finish(w)
  /\ UNCHANGED <<opVars, shard, factCount, status, misread, fails>>

-----------------------------------------------------------------------------
\* The connection is closed, or a database or the embedder reports an error that
\* is not swallowed; a read-back that finds nothing is an error of the request, too.
RequestFails(w) ==
  /\ Fail
  /\ wpc[w] # "idle"
  /\ Finish(w)
  /\ UNCHANGED <<opVars, factVars, status, given>>

SetDeviceStatus(s) ==
  /\ Fail
  /\ s # status /\ status' = s
  /\ UNCHANGED <<opVars, factVars, taskVars, given>>

Next ==
  \/ \E w \in Workers :
       \/ \E r \in Requests : Begin(w, r)
       \/ LookupKey(w) \/ ReadOperation(w) \/ ReadSwallowed(w) \/ InsertOperation(w) \/ RecordEdge(w) \/ Respond(w)
       \/ LookupSource(w) \/ MatchContent(w) \/ AddFact(w)
       \/ ReadStats(w) \/ UpdateCounts(w) \/ RecordSource(w)
       \/ RequestFails(w)
  \/ \E s \in Statuses : SetDeviceStatus(s)

Spec == Init /\ [][Next]_vars

-----------------------------------------------------------------------------
Rows(rows) == 1..Len(rows)

TypeOK ==
  /\ ops \in Seq([key: Keys, digest: Digests])
  /\ edges \subseteq [op: Nat, digest: Digests]
  /\ audit \subseteq [req: Submission, outcome: {"ok", "error"}]
  /\ shard \in Seq([source: Sources, content: Contents])
  /\ synced \subseteq [source: Sources, fact: Rows(shard)]
  /\ factCount \in 0..Len(shard)
  /\ status \in Statuses
  /\ wpc \in [Workers -> {"idle", "lookupKey", "read", "insert", "edge", "respond", "lookupSource",
                          "match", "add", "stats", "update", "record"}]
  /\ wreq \in [Workers -> Requests \cup {None}]
  /\ wrow \in [Workers -> Nat] /\ wstat \in [Workers -> Nat]
  /\ answers \subseteq [req: Requests, receipt: Nat, row: Nat] /\ misread \subseteq Keys
  /\ fails \in 0..MaxFail

Answered(kind) == {a \in answers : a.req.kind = kind}

\* All answers for one of these keys have one receipt and one operation, which is
\* stored with that key and with the content of the request that is answered;
\* other content under the key gets no answer.
SameAnswerFor(keys) ==
  \A a, b \in {c \in answers : OfOperation(c.req) /\ c.req.key \in keys} :
    /\ a.req.key = b.req.key => a.receipt = b.receipt /\ a.row = b.row
    /\ a.row = a.receipt
    /\ ops[a.row] = [key |-> a.req.key, digest |-> a.req.digest]

\* README.md: the same idempotency_key always returns the original operation.
SameKeySameAnswer == SameAnswerFor(Keys)

\* The comment of import_run_pack_observation: "the provenance edge always
\* references the durable operation, never this call's discarded candidate ID".
\* An import that was answered is whole, whichever attempt stored which half:
\* the operation of its receipt has an edge with its content, and no edge has
\* other content than its operation.
ImportIsWhole ==
  /\ \A a \in Answered("import") : [op |-> a.receipt, digest |-> a.req.digest] \in edges
  /\ \A e \in edges : e.op \in Rows(ops) /\ ops[e.op].digest = e.digest

\* The comment of sync_fact_to_shard: source ids give durable idempotency.  No
\* source fact is in the shard twice with one content, whatever failed between
\* adding it and recording its id, and one that was accepted maps to a fact of
\* the shard that has the content it was sent with.
SourceStoredOnce ==
  /\ \A i, j \in Rows(shard) : shard[i] = shard[j] => i = j
  /\ \A a \in Answered("sync") : a.row \in Rows(shard) /\ shard[a.row].content = a.req.content

\* README.md, of a submission: the same idempotency_key always returns the original
\* operation.  Submissions and imports do what an idempotency key promises, whichever
\* attempt failed where: their rows are the operations that are kept, no key gets a
\* second one, and an answer is the row kept under its key.  Excused are the keys
\* whose operation was once taken for absent; even they are answered with rows of
\* the key and of the content, and only with those.
Submissions == INSTANCE IdempotentSubmission WITH
  Contents <- Digests,
  kept <- {[key |-> ops[n].key, content |-> ops[n].digest, receipt |-> n, operation |-> n] :
             n \in Rows(ops)},
  answered <- {[key |-> a.req.key, content |-> a.req.digest, receipt |-> a.receipt,
                operation |-> a.row] : a \in {b \in answers : OfOperation(b.req)}},
  excused <- misread

ImplementsSubmission == Submissions!Init /\ [][Submissions!Next]_(Submissions!vars)

-----------------------------------------------------------------------------
\* The inductive invariant.  A task past its lookup holds the row that is to be
\* answered with, of its own key or content, and has done the steps before;
HasOperation(w) ==
  wrow[w] \in Rows(ops) /\ ops[wrow[w]] = [key |-> wreq[w].key, digest |-> wreq[w].digest]
HasFact(w) == wrow[w] \in Rows(shard) /\ shard[wrow[w]].content = wreq[w].content

TaskOf(w) ==
  /\ wreq[w] = None <=> wpc[w] = "idle"
  /\ wpc[w] \in {"lookupKey", "read", "insert", "edge", "respond"} => OfOperation(wreq[w])
  /\ wpc[w] = "read" => wrow[w] \in RowsOf(wreq[w].key)
  /\ wpc[w] \in {"lookupSource", "match", "add", "stats", "update", "record"} => wreq[w].kind = "sync"
  /\ wpc[w] \in {"edge", "respond"} => HasOperation(w)
  /\ wpc[w] = "edge" => wreq[w].kind = "import"
  /\ wpc[w] = "respond" /\ wreq[w].kind = "import" => [op |-> wrow[w], digest |-> wreq[w].digest] \in edges
  /\ wpc[w] \in {"stats", "update", "record"} => HasFact(w)
  /\ wpc[w] = "update" => wstat[w] <= Len(shard)

TaskInv == \A w \in Workers : TaskOf(w)

\* what was answered is stored;
AnswerInv ==
  \A a \in answers :
    /\ OfOperation(a.req) => a.receipt \in Rows(ops)
                             /\ ops[a.receipt] = [key |-> a.req.key, digest |-> a.req.digest]
                             /\ a.row \in RowsOf(a.req.key)
    /\ a.req.kind = "sync" => a.row \in Rows(shard) /\ shard[a.row].content = a.req.content

\* and where requests for one key or one source do not overlap, a task that found
\* no row is the only one that may insert it, unless it did not see the row.
AloneOf(w) ==
  /\ wpc[w] = "insert" /\ wreq[w].key \notin misread => RowsOf(wreq[w].key) = {}
  /\ wpc[w] = "add" => \A n \in Rows(shard) :
       shard[n] # [source |-> wreq[w].source, content |-> wreq[w].content]

AloneInv ==
  ~Overlap =>
    /\ \A v, w \in Workers :
         v # w /\ wreq[v] # None /\ wreq[w] # None => ~SameSubject(wreq[v], wreq[w])
    /\ \A w \in Workers : AloneOf(w)
    /\ \A m, n \in Rows(ops) : ops[m].key = ops[n].key => m = n \/ ops[m].key \in misread
    /\ \A m, n \in Rows(shard) : shard[m] = shard[n] => m = n
    /\ \A a \in answers : OfOperation(a.req) => a.row = a.receipt \/ a.req.key \in misread

IInv == TypeOK /\ TaskInv /\ ImportIsWhole /\ AnswerInv /\ AloneInv
=============================================================================
