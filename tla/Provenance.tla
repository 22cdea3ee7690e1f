----------------------------- MODULE Provenance -----------------------------
(***************************************************************************)
(* Provenance edges between memory items: an append-only table with two    *)
(* times per edge, recorded and valid, written in all-or-nothing batches,  *)
(* read as of a point of both, and walked by lineage.                      *)
(*                                                                         *)
(* A batch is one transaction under the connection's mutex, a query one    *)
(* section under it.  lineage is as many queries as it finds items, two    *)
(* for each in direction "both", and edges are recorded between them.      *)
(*                                                                         *)
(* An edge's id is its position in the table, which is also the order of   *)
(* its rowid.  The columns compared by edge_matches_request only (digest,  *)
(* metadata, actor, device, observed_at) are one value, body.  The         *)
(* recorded_at of an edge is the server's clock, unless its request brings *)
(* one, "for migration/import mode only" says ProvenanceEdgeRequest.       *)
(* SQLite compares times as texts: the model's times are the texts that    *)
(* to_rfc3339 writes, whose order is that of time.                         *)
(*                                                                         *)
(* Definitions marked "Mutant" are faulty variants of the definition after *)
(* them: they are in no specification, and show that a property can fail.  *)
(***************************************************************************)
EXTENDS Naturals, Sequences, FiniteSets, Functions

CONSTANTS
  Items,        \* memory items that are no operations
  Ops,          \* operations; also nodes, of kind "operation"
  Malformed,    \* nodes of kind "operation" whose id is no operation id
  ObserveOps,   \* operations of kind observe
  Foreign,      \* <<op, body>> whose actor or device is not the operation's
  FirstOps,     \* operations submitted at the start
  Key,          \* canonical_key of each item
  Parsed,       \* what parse_key makes of a key: an item, or None for an error
  Requests,     \* edge requests: [type, src, dst, op, from, to, body, sup]
  Batches,      \* sequences of [req, rec]: a request, its recorded_at or None
  Roots,        \* items whose lineage is asked for
  Depths,       \* max_depth of lineage
  AsOfs,        \* as-of points of lineage: [rec, valid], None for absent
  Limit,        \* rows that one query returns
  MaxEdges,     \* bound: rows
  MaxTime,      \* bound: clock
  None

Nodes == Items \cup Ops \cup Malformed
Sent == [req : Requests, rec : Nat \cup {None}]

ASSUME ProvenanceAssumption ==
  /\ ObserveOps \subseteq Ops /\ FirstOps \subseteq Ops
  /\ \A r \in Requests :
       /\ r.src \in Nodes /\ r.dst \in Nodes /\ r.op \in Ops
       /\ {r.from, r.to, r.sup} \subseteq Nat \cup {None}
  /\ Key \in [Nodes -> Range(Key)] /\ Parsed \in [Range(Key) -> Nodes \cup {None}]
  /\ Batches \subseteq Seq(Sent) /\ Roots \subseteq Nodes
  /\ \A at \in AsOfs : {at.rec, at.valid} \subseteq Nat \cup {None}
  /\ Limit \in Nat \ {0} /\ Depths \subseteq Nat /\ MaxEdges \in Nat /\ MaxTime \in Nat
  /\ None \notin Nat /\ IsFiniteSet(Nodes)

Directions == {"outgoing", "incoming", "both"}
Walks == [root : Roots, direction : Directions, depth : Depths, at : AsOfs]
Results == [items : SUBSET Items, operations : SUBSET Ops]
Rows == [req : Requests, rec : Nat, given : BOOLEAN]
Entries == [node : Nodes, depth : Nat]

VARIABLES
  edges,      \* provenance_edges: [req, rec], by rowid; history: was rec given
  ops,        \* operation -> recorded_at, or None
  stamped,    \* operation -> recorded_at of the one under way, or None
  now,        \* the server's clock
  acked,      \* history: <<request, edge id>> that were answered
  pc, walk,   \* lineage: its step, and its arguments
  queue,      \* items to expand, with their depth
  visited,    \* the items whose keys are visited_nodes
  found,      \* seen_edges, the edges of the result
  outgoing,   \* first half of a step in direction "both"
  truncated,
  result,     \* items and operations returned
  expanded,   \* history: items whose edges were queried, in order
  first       \* history: edges in force when the walk began

table == <<edges, ops, stamped, now, acked>>
walker == <<walk, queue, visited, found, outgoing, truncated, result, expanded, first>>
vars == <<table, pc, walker>>

-----------------------------------------------------------------------------
(* Recording.                                                              *)

\* What makes two requests the same event: the key of existing_edges.
Event(r) == <<r.op, r.type, r.src, r.dst>>

\* Mutant of SameEvent: the key of the table's unique index, with the digest.
SameRow(r, q) == Event(r) = Event(q) /\ r.body = q.body

SameEvent(r, q) == Event(r) = Event(q)

Existing(rows, r) == {i \in DOMAIN rows : SameEvent(rows[i].req, r)}

\* The operation exists, an observation is of an operation that observes, and
\* actor and device, if they are given, are those of the operation.
OperationMatches(r) ==
  /\ ops[r.op] # None
  /\ r.type = "observed_by" => r.op \in ObserveOps
  /\ <<r.op, r.body>> \notin Foreign

\* The edge that is said to be superseded exists.
ValidSupersedesReference(rows, r) == r.sup # None => r.sup \in DOMAIN rows

\* All checks before the table is looked at: no loop, a window in order.
Acceptable(rows, r) ==
  /\ r.src # r.dst
  /\ r.from # None /\ r.to # None => r.from <= r.to
  /\ OperationMatches(r)
  /\ ValidSupersedesReference(rows, r)

\* A recorded edge says what the request says; recorded_at is not compared.
EdgeMatchesRequest(e, r) == e.req = r

\* The requests of supersede and of contradict.
Supersede(newer, prior, op, from, to, body) ==
  [type |-> "supersedes", src |-> newer, dst |-> prior, op |-> op,
   from |-> from, to |-> to, body |-> body, sup |-> None]

Contradict(evidence, target, op, from, to, body) ==
  [type |-> "contradicts", src |-> evidence, dst |-> target, op |-> op,
   from |-> from, to |-> to, body |-> body, sup |-> None]

\* The row of a request: its recorded_at, or the clock.
RowOf(sent) ==
  [req |-> sent.req, rec |-> IF sent.rec = None THEN now ELSE sent.rec,
   given |-> sent.rec # None]

\* record_provenance_edge_conn within a transaction: a new row, the row of the
\* same event if it says the same, or an error, which ends the transaction.
RecordOne(tx, sent) ==
  LET r == sent.req
      same == {i \in Existing(tx.rows, r) : EdgeMatchesRequest(tx.rows[i], r)} IN
  IF ~ tx.ok THEN tx
  ELSE IF ~ Acceptable(tx.rows, r) \/ (Existing(tx.rows, r) # {} /\ same = {})
       THEN [tx EXCEPT !.ok = FALSE]
  ELSE IF same # {}
       THEN [tx EXCEPT !.ids = Append(@, CHOOSE i \in same : TRUE)]
       ELSE [tx EXCEPT !.rows = Append(@, RowOf(sent)), !.ids = Append(@, Len(tx.rows) + 1)]

RecordAll(batch) ==
  LET tx[n \in 0..Len(batch)] ==
        IF n = 0 THEN [ok |-> TRUE, rows |-> edges, ids |-> <<>>]
                 ELSE RecordOne(tx[n - 1], batch[n])
  IN tx[Len(batch)]

\* One transaction for the batch; a failed one changes nothing.
RecordProvenanceEdges(batch) ==
  LET tx == RecordAll(batch) IN
  /\ tx.ok /\ Len(tx.rows) <= MaxEdges
  /\ edges' = tx.rows
  /\ acked' = acked \cup {<<batch[i].req, tx.ids[i]>> : i \in DOMAIN batch}
  /\ UNCHANGED <<ops, stamped, now, pc, walker>>

\* submit_operation takes the time before it waits for the connection,
StampOperation(o) ==
  /\ stamped[o] = None /\ ops[o] = None
  /\ stamped' = [stamped EXCEPT ![o] = now]
  /\ UNCHANGED <<edges, ops, now, acked, pc, walker>>

\* and inserts the operation with it when it has it.
InsertOperation(o) ==
  /\ stamped[o] # None
  /\ ops' = [ops EXCEPT ![o] = stamped[o]]
  /\ stamped' = [stamped EXCEPT ![o] = None]
  /\ UNCHANGED <<edges, now, acked, pc, walker>>

Tick ==
  /\ now < MaxTime
  /\ now' = now + 1
  /\ UNCHANGED <<edges, ops, stamped, acked, pc, walker>>

-----------------------------------------------------------------------------
(* Reading as of a point in time.                                          *)

RecordedBy(at) == IF at.rec = None THEN now ELSE at.rec

\* Recorded by then and valid then; a window is closed below and open above.
InForce(e, at) ==
  /\ e.rec <= RecordedBy(at)
  /\ at.valid # None =>
       /\ e.req.from = None \/ e.req.from <= at.valid
       /\ e.req.to = None \/ at.valid < e.req.to

\* Mutant of Masked: supersessions recorded later count too.
MaskedEver(i, at) ==
  \E j \in DOMAIN edges \ {i} :
    edges[j].req.type = "supersedes" /\ edges[j].req.dst = edges[i].req.dst

\* Another edge in force says that the target of this one is superseded.
Masked(i, at) ==
  \E j \in DOMAIN edges \ {i} :
    /\ edges[j].req.type = "supersedes" /\ edges[j].req.dst = edges[i].req.dst
    /\ InForce(edges[j], at)

\* query_provenance_edges without a filter and without a limit.
Projection(at, includeSuperseded) ==
  {i \in DOMAIN edges : InForce(edges[i], at) /\ (includeSuperseded \/ ~ Masked(i, at))}

\* ORDER BY rowid LIMIT: the rest is left out, and nothing tells that it was.
FirstRows(S) == {i \in S : Cardinality({j \in S : j <= i}) <= Limit}

\* An operation that was recorded by then, with its edges; None if it was not.
OperationProvenance(o, at) ==
  IF ops[o] = None \/ ops[o] > RecordedBy(at) THEN None
  ELSE FirstRows({i \in Projection(at, TRUE) : edges[i].req.op = o})

-----------------------------------------------------------------------------
(* Lineage.                                                                *)

Leaving(n) == {i \in Projection(walk.at, TRUE) : edges[i].req.src = n}

Entering(n) == {i \in Projection(walk.at, TRUE) : edges[i].req.dst = n}

From(n) == FirstRows(Leaving(n))

To(n) == FirstRows(Entering(n))

Lineage(root, direction, depth, at) ==
  /\ pc = "idle" /\ pc' = "walk"
  /\ walk' = [root |-> root, direction |-> direction, depth |-> depth, at |-> at]
  /\ queue' = <<[node |-> root, depth |-> 0]>>
  /\ visited' = {root} /\ found' = {}
  /\ truncated' = FALSE
  /\ first' = {i \in DOMAIN edges : InForce(edges[i], at)}
  /\ UNCHANGED <<table, outgoing, result, expanded>>

\* The other end of an edge that was found at n.
OtherEnd(i, n) == IF edges[i].req.src = n THEN edges[i].req.dst ELSE edges[i].req.src

\* visited_nodes has the key of n, its own or that of another item.
Known(n, met) == \E m \in met : Key[m] = Key[n]

\* Mutant of Follow: an item beyond the depth is not noted as visited.
FollowWithin(acc, i) ==
  LET next == OtherEnd(i, acc.at.node) IN
  IF i \in acc.found THEN acc
  ELSE IF Known(next, acc.visited) THEN [acc EXCEPT !.found = @ \cup {i}]
  ELSE IF acc.at.depth + 1 < walk.depth
       THEN [acc EXCEPT !.found = @ \cup {i}, !.visited = @ \cup {next},
                        !.queue = Append(@, [node |-> next, depth |-> acc.at.depth + 1])]
       ELSE [acc EXCEPT !.found = @ \cup {i}, !.truncated = TRUE]

\* Mutant of Follow: items are queued whether or not they were met before.
FollowAgain(acc, i) ==
  LET next == OtherEnd(i, acc.at.node) IN
  IF i \in acc.found THEN acc
  ELSE IF acc.at.depth + 1 < walk.depth
       THEN [acc EXCEPT !.found = @ \cup {i}, !.visited = @ \cup {next},
                        !.queue = Append(@, [node |-> next, depth |-> acc.at.depth + 1])]
       ELSE [acc EXCEPT !.found = @ \cup {i}, !.visited = @ \cup {next}, !.truncated = TRUE]

\* Mutant of Follow: truncated one level too late.
FollowLate(acc, i) ==
  LET next == OtherEnd(i, acc.at.node) IN
  IF i \in acc.found THEN acc
  ELSE IF Known(next, acc.visited) THEN [acc EXCEPT !.found = @ \cup {i}]
  ELSE [acc EXCEPT
          !.found = @ \cup {i}, !.visited = @ \cup {next},
          !.queue = IF acc.at.depth + 1 < walk.depth
                    THEN Append(@, [node |-> next, depth |-> acc.at.depth + 1]) ELSE @,
          !.truncated = @ \/ acc.at.depth + 1 > walk.depth]

\* One discovered edge: a new item is queued while the depth allows, or cut off.
Follow(acc, i) ==
  LET next == OtherEnd(i, acc.at.node) IN
  IF i \in acc.found THEN acc
  ELSE IF Known(next, acc.visited) THEN [acc EXCEPT !.found = @ \cup {i}]
  ELSE IF acc.at.depth + 1 < walk.depth
       THEN [acc EXCEPT !.found = @ \cup {i}, !.visited = @ \cup {next},
                        !.queue = Append(@, [node |-> next, depth |-> acc.at.depth + 1])]
       ELSE [acc EXCEPT !.found = @ \cup {i}, !.visited = @ \cup {next}, !.truncated = TRUE]

\* All edges that a query discovered, in the order of their rows.
FollowAll(start, discovered) ==
  LET acc[n \in 0..Len(edges)] ==
        IF n = 0 THEN start
        ELSE IF n \in discovered THEN Follow(acc[n - 1], n) ELSE acc[n - 1]
  IN acc[Len(edges)]

\* The loop's state when the head of the queue has been taken.
Taken == [at |-> Head(queue), queue |-> Tail(queue), visited |-> visited,
          found |-> found, truncated |-> truncated]

\* The head of the queue has been queried.
Expand(acc) ==
  /\ queue' = acc.queue /\ visited' = acc.visited
  /\ found' = acc.found /\ truncated' = acc.truncated
  /\ expanded' = Append(expanded, Head(queue).node)

Pop(step) == pc = step /\ queue # <<>> /\ Head(queue).depth < walk.depth

ExpandOneWay ==
  /\ Pop("walk") /\ walk.direction # "both"
  /\ Expand(FollowAll(Taken, IF walk.direction = "outgoing" THEN From(Head(queue).node)
                                                            ELSE To(Head(queue).node)))
  /\ UNCHANGED <<table, pc, walk, outgoing, result, first>>

\* Direction "both": two queries, and edges may be recorded between them.
ExpandOutgoing ==
  /\ Pop("walk") /\ walk.direction = "both"
  /\ outgoing' = From(Head(queue).node)
  /\ pc' = "second"
  /\ UNCHANGED <<table, walk, queue, visited, found, truncated, result, expanded, first>>

ExpandIncoming ==
  /\ Pop("second")
  /\ Expand(FollowAll(FollowAll(Taken, outgoing), To(Head(queue).node)))
  /\ outgoing' = {} /\ pc' = "walk"
  /\ UNCHANGED <<table, walk, result, first>>

\* Only the root with max_depth 0 is beyond the depth.
SkipRoot ==
  /\ pc = "walk" /\ queue # <<>> /\ Head(queue).depth >= walk.depth
  /\ queue' = Tail(queue)
  /\ UNCHANGED <<table, pc, walk, visited, found, outgoing, truncated, result, expanded, first>>

\* What the keys of visited_nodes are parsed to, and the ends of kind "operation"
\* of the edges of the result, with the root.
ParsedItems == {Parsed[Key[n]] : n \in visited}

Ends(S) == {edges[i].req.src : i \in S} \cup {edges[i].req.dst : i \in S}

OperationIds == ({walk.root} \cup Ends(found)) \cap (Ops \cup Malformed)

RecordedOperations == {o \in OperationIds : ops[o] # None /\ ops[o] <= RecordedBy(walk.at)}

\* Mutant of Complete: operations are not told from items.
CompleteUnfiltered ==
  /\ pc = "walk" /\ queue = <<>>
  /\ pc' = "done" /\ result' = [items |-> ParsedItems, operations |-> {}]
  /\ UNCHANGED <<table, walk, queue, visited, found, outgoing, truncated, expanded, first>>

\* The operations met are looked up; an id that is none fails the whole call.
Complete ==
  /\ pc = "walk" /\ queue = <<>>
  /\ IF OperationIds \cap Malformed # {} THEN pc' = "failed" /\ UNCHANGED result
     ELSE /\ pc' = "done"
          /\ result' = [items |-> ParsedItems \cap Items, operations |-> RecordedOperations]
  /\ UNCHANGED <<table, walk, queue, visited, found, outgoing, truncated, expanded, first>>

Return ==
  /\ pc \in {"done", "failed"} /\ pc' = "idle"
  /\ walk' = None /\ queue' = <<>> /\ visited' = {} /\ found' = {} /\ outgoing' = {}
  /\ truncated' = FALSE /\ result' = None /\ expanded' = <<>> /\ first' = {}
  /\ UNCHANGED table

Init ==
  /\ edges = <<>> /\ acked = {} /\ now = 0
  /\ ops = [o \in Ops |-> IF o \in FirstOps THEN 0 ELSE None]
  /\ stamped = [o \in Ops |-> None]
  /\ pc = "idle"
  /\ walk = None /\ queue = <<>> /\ visited = {} /\ found = {} /\ outgoing = {}
  /\ truncated = FALSE /\ result = None /\ expanded = <<>> /\ first = {}

Next ==
  \/ \E b \in Batches : RecordProvenanceEdges(b)
  \/ \E o \in Ops : StampOperation(o) \/ InsertOperation(o)
  \/ Tick
  \/ \E n \in Roots, d \in Directions, k \in Depths, at \in AsOfs : Lineage(n, d, k, at)
  \/ ExpandOneWay \/ ExpandOutgoing \/ ExpandIncoming \/ SkipRoot \/ Complete \/ Return

Spec == Init /\ [][Next]_vars

-----------------------------------------------------------------------------
(* Properties.                                                             *)

\* Types of the table and of the walk under way.
TypeOK ==
  /\ edges \in Seq(Rows) /\ Len(edges) <= MaxEdges
  /\ ops \in [Ops -> 0..MaxTime \cup {None}] /\ stamped \in [Ops -> 0..MaxTime \cup {None}]
  /\ now \in 0..MaxTime
  /\ acked \subseteq Requests \X DOMAIN edges
  /\ pc \in {"idle", "walk", "second", "done", "failed"}
  /\ queue \in Seq(Entries)
  /\ visited \subseteq Nodes /\ found \subseteq DOMAIN edges /\ first \subseteq DOMAIN edges
  /\ outgoing \subseteq DOMAIN edges /\ truncated \in BOOLEAN
  /\ walk \in Walks \cup {None} /\ result \in Results \cup {None}
  /\ expanded \in Seq(Nodes)

\* The table holds exactly the events that were answered, each one once: a
\* retry gets the row of the first attempt, another content under the same
\* event gets none, a batch that fails leaves nothing behind, and an edge only
\* supersedes an older one (record_provenance_edge_conn, record_provenance_edges).
EventsExact ==
  /\ \A i, j \in DOMAIN edges : Event(edges[i].req) = Event(edges[j].req) => i = j
  /\ {<<edges[i].req, i>> : i \in DOMAIN edges} = acked
  /\ \A i \in DOMAIN edges : edges[i].req.sup # None => edges[i].req.sup < i

\* Edges of this step that their callers say were recorded by t.
Backdated(t) ==
  {i \in DOMAIN edges' \ DOMAIN edges : edges'[i].given /\ edges'[i].rec <= t}

\* Operations that were stamped by t and are not inserted yet.
UnderWay(t) == {o \in Ops : stamped[o] # None /\ stamped[o] <= t}

\* What is seen as of a time that has passed.  What was there stays, with the
\* superseded edges.  Nothing else appears, and no edge gets superseded after the
\* fact, unless a caller records an edge with a recorded_at of back then; the
\* answer about an operation, too, can only change if the operation was under way
\* at that time (query_provenance_edges, operation_provenance, submit_operation).
AsOfStable ==
  [][<<edges, ops>>' # <<edges, ops>> =>
       \A t \in 0..MaxTime, v \in 0..MaxTime \cup {None} :
         LET at == [rec |-> t, valid |-> v] IN
         t < now =>
           /\ Projection(at, TRUE) \subseteq Projection(at, TRUE)'
           /\ Backdated(t) = {} =>
                /\ \A s \in BOOLEAN : Projection(at, s)' = Projection(at, s)
                /\ \A o \in Ops \ UnderWay(t) :
                     OperationProvenance(o, at)' = OperationProvenance(o, at)]_table

\* Reference: what can be reached from root over arcs in at most k steps.
Ahead(arcs, near) == {arc[2] : arc \in {step \in arcs : step[1] \in near}}

Within(root, arcs, k) ==
  LET within[n \in 0..k] ==
        IF n = 0 THEN {root}
        ELSE LET near == within[n - 1] IN near \cup Ahead(arcs, near)
  IN within[k]

\* The ways that the edges S open, in the direction of the walk.
Arcs(S) ==
  {<<edges[i].req.src, edges[i].req.dst>> : i \in {j \in S : walk.direction # "incoming"}}
  \cup
  {<<edges[i].req.dst, edges[i].req.src>> : i \in {j \in S : walk.direction # "outgoing"}}

Reach(S, k) == Within(walk.root, Arcs(S), k)

\* The edges of S that are followed from the items of N.
EdgesAt(S, N) ==
  {i \in S : \/ walk.direction # "incoming" /\ edges[i].req.src \in N
             \/ walk.direction # "outgoing" /\ edges[i].req.dst \in N}

\* No query of the walk reaches the limit, and the keys tell the items apart.
Unlimited ==
  \A n \in Nodes : Cardinality(Leaving(n)) <= Limit /\ Cardinality(Entering(n)) <= Limit

Legible == \A n \in {walk.root} \cup Ends(DOMAIN edges) : Parsed[Key[n]] = n

\* lineage beside writers.  No item is visited that is not within max_depth over the
\* edges in force at the end, and no other edge is in the result.  No item is
\* expanded twice, in graphs with cycles either: the walk of as_of_item_lineage,
\* whose max_depth is no limit, ends.  As long as no item has more edges than a query
\* returns, and the kinds of items have no colon, which parse_key takes for the end
\* of the kind, nothing is missing: every item within max_depth over the edges in
\* force when the walk began is visited and returned, and every edge that leads to
\* one is in the result; and one that does not say truncated has all items that could
\* be reached at all (with max_depth 0 nothing is looked at and truncated is never
\* set).
LineageComplete ==
  /\ pc = "done" =>
       LET inForce == Projection(walk.at, TRUE) IN
       /\ visited \subseteq Reach(inForce, walk.depth) /\ found \subseteq inForce
       /\ Unlimited /\ Legible =>
            /\ Reach(first, walk.depth) \subseteq visited
            /\ result.items = visited \cap Items
            /\ walk.depth > 0 => EdgesAt(first, Reach(first, walk.depth - 1)) \subseteq found
            /\ ~ truncated /\ walk.depth > 0 => Reach(first, Cardinality(Nodes)) \subseteq visited
  /\ IsInjective(expanded)

-----------------------------------------------------------------------------
(* The inductive invariant of the proofs.                                  *)

Queued == {queue[i].node : i \in DOMAIN queue}
Expanded == {expanded[i] : i \in DOMAIN expanded}

\* Rows are of one event each, answered, and supersede older rows.  An operation
\* under way is not recorded.
TableInv ==
  /\ EventsExact
  /\ \A o \in Ops : stamped[o] # None => ops[o] = None

Clear == Unlimited /\ Legible

\* Where the walk stands.
WalkInv ==
  /\ pc # "idle" => walk \in Walks
  /\ pc # "second" => outgoing = {}
  /\ pc = "second" => /\ queue # <<>> /\ Head(queue).depth < walk.depth
                      /\ walk.direction = "both"
                      /\ outgoing \subseteq Leaving(Head(queue).node)
                      /\ Clear => \A i \in first :
                           edges[i].req.src = Head(queue).node => i \in outgoing
  /\ pc \notin {"walk", "second"} => queue = <<>>
  /\ pc = "idle" => expanded = <<>>
  /\ pc = "done" /\ Clear => result.items = visited \cap Items

\* Every item met waits once, or was expanded once, or was cut off.
ItemsInv ==
  /\ IsInjective(expanded)
  /\ \A i, j \in DOMAIN queue : queue[i].node = queue[j].node => i = j
  /\ Queued \cap Expanded = {}
  /\ Queued \cup Expanded \subseteq visited
  /\ pc # "idle" /\ ~ truncated /\ walk.depth > 0 => visited \subseteq Queued \cup Expanded

\* The queue is in the order of depth, over at most two levels; something was cut
\* off only when what waits is on the last level.
DepthInv == pc # "idle" =>
  /\ walk.root \in visited
  /\ \A i, j \in DOMAIN queue : i <= j => /\ queue[i].depth <= queue[j].depth
                                          /\ queue[j].depth <= queue[i].depth + 1
  /\ \A i \in DOMAIN queue : \/ queue[i].depth < walk.depth
                              \/ (walk.depth = 0 /\ queue = <<[node |-> walk.root, depth |-> 0]>>)
  /\ truncated => \A i \in DOMAIN queue : queue[i].depth + 1 >= walk.depth

\* What was found is in force; where nothing hides an edge or an item, both its ends
\* were met, and what was expanded has all its edges found.
FoundInv == pc # "idle" =>
  /\ first \subseteq Projection(walk.at, TRUE) /\ found \subseteq Projection(walk.at, TRUE)
  /\ Clear => /\ Ends(found) \subseteq visited
              /\ EdgesAt(first, Expanded) \subseteq found

\* The walk is by breadth: what is nearer than the head of the queue was expanded, if
\* nothing hid it, and what waits is as near as its depth says.
BreadthInv == pc # "idle" =>
  /\ Clear /\ queue # <<>> =>
       Reach(first, Head(queue).depth) \subseteq
         Expanded \cup {queue[i].node : i \in {j \in DOMAIN queue :
                                              queue[j].depth = Head(queue).depth}}
  /\ Clear /\ queue = <<>> /\ walk.depth > 0 => Reach(first, walk.depth - 1) \subseteq Expanded
  /\ \A i \in DOMAIN queue :
       queue[i].node \in Reach(Projection(walk.at, TRUE), queue[i].depth)
  /\ visited \subseteq Reach(Projection(walk.at, TRUE), walk.depth)

IInv ==
  TypeOK /\ TableInv /\ WalkInv /\ ItemsInv /\ DepthInv /\ FoundInv /\ BreadthInv

=============================================================================
