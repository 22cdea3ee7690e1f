---------------------------- MODULE RoutedSearch ----------------------------
(***************************************************************************)
(* One search over several databases of memory: routed_search over the     *)
(* shards of the active devices, best ranked first and as many as the      *)
(* answer needs, and routed_search_for_profile over the stores of an       *)
(* authorization snapshot; with the cache of open databases they share.    *)
(*                                                                         *)
(* A search is several sections: the catalog is read under the mutex of    *)
(* the pooled database, then each database is opened under the cache's     *)
(* mutex and asked outside of both, the shards of a batch in any order.    *)
(* Devices are quarantined, shards refreshed and facts written meanwhile.  *)
(*                                                                         *)
(* A fact stands for whatever one database holds under an item id: its     *)
(* content and its score for the query.  What a query returns is the       *)
(* external semantic-memory's answer: the TopK best, ties in any way.      *)
(* Latency, generation and counts of a shard decide nothing in a search    *)
(* and are left out; digests are left out, their preimage being the        *)
(* receipt itself.  A shard's state and its device's status are changed in *)
(* one transaction and are one value; a store's is its three statuses.     *)
(*                                                                         *)
(* Definitions marked "Mutant" are faulty variants of the definition after *)
(* them: they are in no specification, and show that a property can fail.  *)
(***************************************************************************)
EXTENDS Naturals, Sequences, SequencesExt

CONSTANTS
  Shards,      \* device shards, by device id
  Stores,      \* profile stores, by store id
  Requester,   \* the shard of the device that searches
  Facts,       \* facts that may be held: [in, item, content, score]
  FirstHeld,   \* sets of facts that may be held at the start
  TopK,        \* results asked for
  Budgets,     \* shard budgets of requests; None takes the default
  Capacity,    \* of the cache of open databases
  MaxChanges,  \* bound: writes, refreshes and status changes
  None

Sources == Shards \cup Stores

ASSUME SearchAssumption ==
  /\ Shards \subseteq Nat /\ Stores \subseteq Nat /\ Shards \cap Stores = {}
  /\ IsFiniteSet(Sources) /\ IsFiniteSet(Facts)
  /\ \A f \in Facts : f.in \in Sources /\ f.item \in Nat /\ f.score \in Nat
  /\ \A f, g \in Facts : f.in = g.in /\ f.item = g.item => f = g
  /\ FirstHeld \subseteq SUBSET Facts
  /\ TopK \in Nat \ {0} /\ Capacity \in Nat \ {0} /\ MaxChanges \in Nat
  /\ Budgets \subseteq (Nat \ {0}) \cup {None}

Kinds == {"sparse", "exhaustive", "profile"}
Requests == [kind : Kinds, budget : Nat]
Results == [in : Sources, ok : BOOLEAN, hits : SUBSET Facts]
Receipts ==
  [kind : Kinds, budget : Nat, fallback : BOOLEAN, complete : BOOLEAN,
   eligible : Seq(Sources), selected : Seq(Sources), skipped : Seq(Sources),
   outcomes : Seq([in : Sources, ok : BOOLEAN]), ids : Seq(Nat)]

ASSUME SentinelAssumption ==
  /\ None \notin Nat /\ None \notin Seq(Facts) /\ \A facts \in SUBSET Facts : facts # None
  /\ None \notin Requests /\ None \notin Results /\ None \notin Receipts

VARIABLES
  held,        \* facts in the databases
  active,      \* sources that may be searched
  overlap,     \* shard -> terms its routing summary shares with the query
  open, lru,   \* ShardStoreCache: stores, lru
  changes,     \* how much of MaxChanges is used
  pc,          \* the search: "idle", "searching", "stored", "answered", "failed", "refused"
  req,         \* its kind and its initial budget
  ranked,      \* ranked_shards, or authorized_stores in order
  batch,       \* sources searched at the moment
  stage,       \* source -> "todo", "opened" or "done" within the batch
  result,      \* source -> what its search has returned
  executions,  \* executions, in order
  selected,    \* selected_count
  answer,      \* the results returned
  receipt,     \* the receipt persisted for them
  seen         \* history: source -> facts it held when it was asked

db == <<held, active, overlap>>
cache == <<open, lru>>
call == <<req, ranked>>
work == <<batch, stage, result, executions, selected>>
outcome == <<answer, receipt>>
vars == <<db, cache, changes, pc, call, work, outcome, seen>>

-----------------------------------------------------------------------------
(* Sorting.  Each element has as many before it as its place says.         *)

SortedBy(S, op(_, _)) ==
  [i \in 1..Cardinality(S) |-> CHOOSE x \in S : Cardinality({y \in S : op(y, x)}) = i - 1]

ById(s, t) == s < t

\* What is left of a sequence, in its order.
Without(seq, e) ==
  LET kept == SortedBy({i \in DOMAIN seq : seq[i] # e}, ById)
  IN [i \in DOMAIN kept |-> seq[kept[i]]]

-----------------------------------------------------------------------------
(* The cache of open databases.                                            *)

\* Mutant of Touched: the key's old place in the queue is kept.
TouchedAgain(s) == Append(lru, s)

\* Taking a database out of the cache or putting it in makes it the youngest.
Touched(s) == Append(Without(lru, s), s)

\* How many of the oldest must go for the cache to be within its capacity; the
\* code's loop does not end when no number is enough.
Evictions(stores, queue) ==
  {n \in 0..Len(queue) :
     Cardinality(stores \ ToSet(SubSeq(queue, 1, n))) <= Capacity}

\* get_key, else open the database and insert_key: one section.
UseCache(s) ==
  IF s \in open
  THEN lru' = Touched(s) /\ UNCHANGED open
  ELSE \E n \in Evictions(open \cup {s}, Touched(s)) :
         /\ n - 1 \notin Evictions(open \cup {s}, Touched(s))
         /\ open' = (open \cup {s}) \ ToSet(SubSeq(Touched(s), 1, n))
         /\ lru' = SubSeq(Touched(s), n + 1, Len(Touched(s)))

-----------------------------------------------------------------------------
(* Ranking.                                                                *)

Score(s) == 2 * overlap[s] + (IF s = Requester THEN 1 ELSE 0)

RankedBefore(s, t) ==
  \/ Score(s) > Score(t)
  \/ Score(s) = Score(t) /\ s < t

\* The catalog rows of active shards of active devices, read in one statement.
Eligible == Shards \cap active

\* Quarantined and revoked shards are masked before they are scored.
RankShards == SortedBy(Eligible, RankedBefore)

-----------------------------------------------------------------------------
(* Merging.                                                                *)

Least(m, n) == IF m < n THEN m ELSE n

Cut(seq) == SubSeq(seq, 1, Least(TopK, Len(seq)))

Place(seq, s) == CHOOSE i \in DOMAIN seq : seq[i] = s

\* Results by score, then item id, then the order in which sources were asked.
Before(f, g) ==
  \/ f.score > g.score
  \/ f.score = g.score /\ f.item < g.item
  \/ f.score = g.score /\ f.item = g.item /\ Place(ranked, f.in) < Place(ranked, g.in)

Hits(execs) == UNION {e.hits : e \in ToSet(execs)}

\* Mutant of Conflicting: only results that reach the answer are compared.
ConflictingAtTop(hits) ==
  \E f, g \in ToSet(Cut(SortedBy(hits, Before))) :
    f.item = g.item /\ f.content # g.content

\* One item id, two contents.
Conflicting(hits) == \E f, g \in hits : f.item = g.item /\ f.content # g.content

\* Mutant of Merged: cut to TopK before duplicates are dropped.
CutThenDrop(hits) ==
  LET top == ToSet(Cut(SortedBy(hits, Before))) IN
  SortedBy({f \in top : \A g \in top : g.item = f.item => ~ Before(g, f)}, Before)

\* The first result of each item, TopK of them.
Merged(hits) ==
  Cut(SortedBy({f \in hits : \A g \in hits : g.item = f.item => ~ Before(g, f)},
                   Before))

-----------------------------------------------------------------------------
(* Receipts.                                                               *)

ReceiptOf(execs, count, results) ==
  [kind |-> req.kind,
   eligible |-> ranked,
   budget |-> req.budget,
   selected |-> SubSeq(ranked, 1, count),
   skipped |-> SubSeq(ranked, count + 1, Len(ranked)),
   outcomes |-> [i \in DOMAIN execs |-> [in |-> execs[i].in, ok |-> execs[i].ok]],
   fallback |-> req.kind = "sparse" /\ Len(execs) > req.budget,
   complete |-> \A e \in ToSet(execs) : e.ok,
   ids |-> [i \in DOMAIN results |-> results[i].item]]

OutcomeSources(r) == {o.in : o \in ToSet(r.outcomes)}

\* Selected and skipped divide the eligible, and each selected has an outcome.
SetsAgree(r) ==
  /\ IsInjective(r.eligible) /\ IsInjective(r.selected) /\ IsInjective(r.skipped)
  /\ Cardinality(OutcomeSources(r)) = Len(r.outcomes)
  /\ ToSet(r.selected) \cap ToSet(r.skipped) = {}
  /\ ToSet(r.selected) \cup ToSet(r.skipped) = ToSet(r.eligible)
  /\ OutcomeSources(r) = ToSet(r.selected)

\* A receipt that passes its own validation.
Valid(r) ==
  /\ SetsAgree(r)
  /\ r.kind = "profile" => (r.complete <=> \A o \in ToSet(r.outcomes) : o.ok)
  /\ IsInjective(r.ids)

\* A stored receipt is put together from its columns and validated once more.
ReadBack(r) == IF Valid(r) THEN r ELSE None

-----------------------------------------------------------------------------
Nothing == [s \in Sources |-> None]

Init ==
  /\ held \in FirstHeld
  /\ active = Sources
  /\ overlap = [s \in Shards |-> 0]
  /\ open = {} /\ lru = <<>>
  /\ changes = 0
  /\ pc = "idle"
  /\ req = None /\ ranked = <<>>
  /\ batch = <<>> /\ stage = [s \in Sources |-> "todo"] /\ result = Nothing
  /\ executions = <<>> /\ selected = 0
  /\ answer = None /\ receipt = None
  /\ seen = Nothing

-----------------------------------------------------------------------------
(* What others do meanwhile.                                               *)

Change ==
  /\ changes < MaxChanges
  /\ changes' = changes + 1
  /\ UNCHANGED <<pc, call, work, outcome, seen>>

\* Verification and every write open a shard beside the search.
DeviceMemory(s) == Change /\ s \in Shards /\ UseCache(s) /\ UNCHANGED db

ClearShardCache == Change /\ open' = {} /\ lru' = <<>> /\ UNCHANGED db

\* A new fact: through the cache for a shard, by its owner for a profile store.
AddFact(f) ==
  /\ Change
  /\ f \notin held
  /\ held' = held \cup {f}
  /\ IF f.in \in Shards THEN UseCache(f.in) ELSE UNCHANGED cache
  /\ UNCHANGED <<active, overlap>>

\* The routing terms are the caller's; the shard is opened for its statistics.
RefreshShardSummary(s) ==
  /\ Change
  /\ overlap' = [overlap EXCEPT ![s] = 1 - @]
  /\ UseCache(s)
  /\ UNCHANGED <<held, active>>

SetStatus(s) ==
  /\ Change
  /\ active' = IF s \in active THEN active \ {s} ELSE active \cup {s}
  /\ UNCHANGED <<held, overlap, cache>>

-----------------------------------------------------------------------------
(* The search.                                                             *)

Start(kind, order, budget, first, count) ==
  /\ pc = "idle" /\ pc' = "searching"
  /\ req' = [kind |-> kind, budget |-> budget]
  /\ ranked' = order
  /\ batch' = first
  /\ selected' = count
  /\ UNCHANGED <<db, cache, changes, stage, result, executions, outcome, seen>>

\* routed_search up to its first batch; the default budget is two shards.
RoutedSearch ==
  LET order == RankShards IN
  \/ \E asked \in Budgets :
       LET budget == Least(IF asked = None THEN 2 ELSE asked, Len(order)) IN
       Start("sparse", order, budget, SubSeq(order, 1, budget), budget)
  \/ Start("exhaustive", order, Len(order), order, Len(order))

\* routed_search_for_profile with a snapshot it has just built: some of the
\* stores that were active, in the order of their ids, one after the other.
RoutedSearchForProfile ==
  \E authorized \in SUBSET (Stores \cap active) :
    LET order == SortedBy(authorized, ById) IN
    Start("profile", order, Len(order), SubSeq(order, 1, Least(1, Len(order))), Len(order))

InBatch(s, step) == pc = "searching" /\ s \in ToSet(batch) /\ stage[s] = step

Done(s, ok, hits) ==
  /\ stage' = [stage EXCEPT ![s] = "done"]
  /\ result' = [result EXCEPT ![s] = [in |-> s, ok |-> ok, hits |-> hits]]
  /\ UNCHANGED <<db, changes, pc, call, batch, executions, selected, outcome>>

\* device_memory looks at the catalog row only, profile_store_memory at the
\* status of store, profile and owner too.
Open(s) ==
  /\ InBatch(s, "todo")
  /\ s \in Shards \/ s \in active
  /\ UseCache(s)
  /\ stage' = [stage EXCEPT ![s] = "opened"]
  /\ UNCHANGED <<db, changes, pc, call, batch, result, executions, selected, outcome, seen>>

\* The store has been taken out of service, or its files cannot be opened.
OpenFails(s) == InBatch(s, "todo") /\ Done(s, FALSE, {}) /\ UNCHANGED <<cache, seen>>

HeldIn(s) == {f \in held : f.in = s}

\* The answers a database may give: its TopK best facts.
TopOf(facts) ==
  {hits \in SUBSET facts :
     /\ Cardinality(hits) = Least(TopK, Cardinality(facts))
     /\ \A f \in hits, g \in facts \ hits : f.score >= g.score}

Ask(s) ==
  /\ InBatch(s, "opened")
  /\ \E hits \in TopOf(HeldIn(s)) : Done(s, TRUE, hits)
  /\ seen' = [seen EXCEPT ![s] = HeldIn(s)]
  /\ UNCHANGED cache

\* Mutant of AskFails: an error is taken for an empty answer.
AskComesBackEmpty(s) ==
  InBatch(s, "opened") /\ Done(s, TRUE, {}) /\ UNCHANGED <<cache, seen>>

AskFails(s) == InBatch(s, "opened") /\ Done(s, FALSE, {}) /\ UNCHANGED <<cache, seen>>

\* The batch is complete: everything that has been executed so far.
BatchDone == pc = "searching" /\ \A s \in ToSet(batch) : stage[s] = "done"

Executed == executions \o [i \in DOMAIN batch |-> result[batch[i]]]

Found == Merged(Hits(Executed))

\* One source more, the next in order.
AskNext(count) ==
  /\ batch' = <<ranked[Len(Executed) + 1]>>
  /\ executions' = Executed
  /\ selected' = count
  /\ UNCHANGED <<db, cache, changes, pc, call, stage, result, outcome, seen>>

\* Mutant of NextStore: counted as an expansion.
NextStoreCounted ==
  /\ BatchDone
  /\ req.kind = "profile" /\ Len(Executed) < Len(ranked)
  /\ AskNext(selected + 1)

\* The next store of a profile's search: its stores are all selected.
NextStore ==
  /\ BatchDone
  /\ req.kind = "profile" /\ Len(Executed) < Len(ranked)
  /\ AskNext(selected)

\* Mutant of Expand: the shards added are not counted.
ExpandUncounted ==
  /\ BatchDone
  /\ req.kind = "sparse" /\ Len(Executed) < Len(ranked)
  /\ ~ Conflicting(Hits(Executed)) /\ Len(Found) < TopK
  /\ AskNext(selected)

\* Too few results: shards are added one by one.
Expand ==
  /\ BatchDone
  /\ req.kind = "sparse" /\ Len(Executed) < Len(ranked)
  /\ ~ Conflicting(Hits(Executed)) /\ Len(Found) < TopK
  /\ AskNext(selected + 1)

\* Mutant of Enough: results are counted before duplicates are dropped.
EnoughHits ==
  \/ Len(Executed) = Len(ranked)
  \/ req.kind = "sparse" /\ Cardinality(Hits(Executed)) >= TopK

\* Nothing more is to be asked.
Enough ==
  \/ Len(Executed) = Len(ranked)
  \/ req.kind = "sparse" /\ Len(Found) >= TopK

\* A conflict fails the search: no answer and no receipt.
ConflictingShardItem ==
  /\ BatchDone
  /\ Conflicting(Hits(Executed))
  /\ req.kind = "profile" => Len(Executed) = Len(ranked)
  /\ pc' = "failed"
  /\ UNCHANGED <<db, cache, changes, call, work, outcome, seen>>

\* The receipt is stored, or its INSERT fails and the search with it.
Persist(new) ==
  /\ pc' \in {IF req.kind = "profile" THEN "stored" ELSE "answered", "failed"}
  /\ IF pc' = "failed" THEN UNCHANGED outcome ELSE answer' = Found /\ receipt' = new

\* The receipt is made, and validated before it is stored.
Finish ==
  /\ BatchDone /\ Enough /\ ~ Conflicting(Hits(Executed))
  /\ LET new == ReceiptOf(Executed, selected, Found) IN
     IF Valid(new) THEN Persist(new) ELSE pc' = "refused" /\ UNCHANGED outcome
  /\ executions' = Executed
  /\ UNCHANGED <<db, cache, changes, call, batch, stage, result, selected, seen>>

\* The answer to a profile's search carries the receipt that is read back.
GetProfileRoutingReceipt ==
  /\ pc = "stored"
  /\ IF ReadBack(receipt) = None THEN pc' = "refused" ELSE pc' \in {"answered", "failed"}
  /\ UNCHANGED <<db, cache, changes, call, work, outcome, seen>>

\* The caller has its answer or its error.
Return ==
  /\ pc \in {"answered", "failed", "refused"}
  /\ pc' = "idle"
  /\ req' = None /\ ranked' = <<>>
  /\ batch' = <<>> /\ stage' = [s \in Sources |-> "todo"] /\ result' = Nothing
  /\ executions' = <<>> /\ selected' = 0
  /\ answer' = None /\ receipt' = None /\ seen' = Nothing
  /\ UNCHANGED <<db, cache, changes>>

Next ==
  \/ ClearShardCache \/ \E f \in Facts : AddFact(f)
  \/ \E s \in Shards : DeviceMemory(s) \/ RefreshShardSummary(s)
  \/ RoutedSearch \/ RoutedSearchForProfile
  \/ \E s \in Sources : SetStatus(s) \/ Open(s) \/ OpenFails(s) \/ Ask(s) \/ AskFails(s)
  \/ NextStore \/ Expand \/ ConflictingShardItem \/ Finish
  \/ GetProfileRoutingReceipt \/ Return

Spec == Init /\ [][Next]_vars

-----------------------------------------------------------------------------
(* Properties.                                                             *)

\* Types of the databases, the cache, and the search under way.
TypeOK ==
  /\ held \subseteq Facts /\ active \subseteq Sources
  /\ overlap \in [Shards -> 0..1]
  /\ open \subseteq Sources /\ lru \in Seq(Sources)
  /\ changes \in 0..MaxChanges
  /\ pc \in {"idle", "searching", "stored", "answered", "failed", "refused"}
  /\ req = None \/ req \in Requests
  /\ ranked \in Seq(Sources) /\ batch \in Seq(Sources)
  /\ stage \in [Sources -> {"todo", "opened", "done"}]
  /\ result \in [Sources -> Results \cup {None}]
  /\ executions \in Seq(Results)
  /\ selected \in 0..Len(ranked)
  /\ answer # None => answer \in Seq(Facts)
  /\ receipt # None => receipt \in Receipts
  /\ seen \in [Sources -> (SUBSET Facts) \cup {None}]

\* The queue names every open database once and nothing else, and no more are
\* open than the capacity (ShardStoreCache): were one missing from the queue,
\* the eviction loop would run for ever with the cache locked.
CacheSound ==
  /\ ToSet(lru) = open
  /\ IsInjective(lru)
  /\ Cardinality(open) <= Capacity

\* The databases of which the search has an answer: those it really asked.
Asked == {s \in Sources : seen[s] # None}

\* What a stored receipt says is what happened: a source is recorded without
\* error if and only if it was asked, the results come from those sources, the
\* ids are the results returned, what was skipped was not asked, and a profile
\* search is complete only if every store it was admitted to has answered.  No
\* search is refused by the validation of the receipt it has just made, and
\* whoever asks for a stored receipt gets it as it was: the counts and lists
\* that routed_search keeps beside each other agree on every path (expansion,
\* failures, an empty catalog).
ReceiptTellsTruth ==
  /\ pc # "refused"
  /\ receipt # None =>
       /\ ReadBack(receipt) = receipt
       /\ {o.in : o \in {x \in ToSet(receipt.outcomes) : x.ok}} = Asked
       /\ \A f \in ToSet(answer) : f.in \in Asked /\ f \in seen[f.in]
       /\ receipt.ids = [i \in DOMAIN answer |-> answer[i].item]
       /\ ToSet(receipt.skipped) \cap Asked = {}
       /\ receipt.kind = "profile" => (receipt.complete <=> ToSet(receipt.eligible) = Asked)

\* A sparse search is short of results only when no shard is left, and adds
\* the shard it adds last because it is short without it (the expansion loop
\* of routed_search): neither too few shards opened nor one too many.
ExpansionIsExact ==
  answer # None /\ req.kind = "sparse" =>
    /\ Len(answer) < TopK => receipt.skipped = <<>>
    /\ Len(receipt.selected) > req.budget =>
         Len(Merged(Hits(SubSeq(executions, 1, Len(executions) - 1)))) < TopK

\* The answer is the best that the databases asked could give together: what
\* any of them held and is not in it is either another copy of a result, no
\* better than it, or no better than all of a full answer.  Each database
\* gives its TopK only, so that this rests on duplicates being dropped before
\* the answer is cut to size.  No search that was answered has seen one item id
\* with two contents, in the results that it returns or below them
\* (merge_routed_results and the test
\* conflicting_content_after_top_k_still_fails_closed).
NothingBetterLeftOut ==
  answer # None =>
    /\ \A s \in Asked : \A f \in seen[s] :
         \/ \E r \in ToSet(answer) : r.item = f.item /\ r.score >= f.score
         \/ /\ \A r \in ToSet(answer) : r.item # f.item /\ r.score >= f.score
            /\ Len(answer) = TopK
    /\ \A e, x \in ToSet(executions) : \A f \in e.hits, g \in x.hits :
         f.item = g.item => f.content = g.content

-----------------------------------------------------------------------------
(* The inductive invariant.                                                *)

\* The databases asked or being asked: a first part of ranked.
Reached == Len(executions) + Len(batch)

\* The hits that the executions so far have found, and the answer from them.
FoundIn(execs) == Merged(Hits(execs))

\* What a search has of one source, at each stage of it;
SourceInv ==
  \A s \in Sources :
    /\ result[s] = None <=> stage[s] # "done"
    /\ result[s] = None => seen[s] = None
    /\ result[s] # None =>
         /\ result[s].in = s
         /\ result[s].ok => seen[s] # None /\ result[s].hits \in TopOf(seen[s])
         /\ ~ result[s].ok => seen[s] = None /\ result[s].hits = {}
    /\ seen[s] # None => \A f \in seen[s] : f.in = s

\* the executions are those of the first sources in order, and the batch is of the
\* next ones;
OrderInv ==
  /\ IsInjective(ranked)
  /\ Len(executions) <= Len(ranked)
  /\ \A i \in DOMAIN executions : executions[i] = result[ranked[i]] /\ executions[i] # None
  /\ pc = "searching" =>
       /\ Reached <= Len(ranked)
       /\ \A i \in DOMAIN batch : batch[i] = ranked[Len(executions) + i]
       /\ \A s \in Sources : stage[s] # "todo" => \E i \in 1..Reached : ranked[i] = s

\* selected_count is kept beside them, and the search has asked one source more than
\* its budget only while what it had was short;
CountInv ==
  /\ pc = "idle" => /\ req = None /\ ranked = <<>> /\ batch = <<>> /\ executions = <<>>
                    /\ stage = [s \in Sources |-> "todo"] /\ result = Nothing /\ seen = Nothing
  /\ pc # "idle" => req # None
  /\ pc = "searching" =>
       IF req.kind = "sparse" THEN selected = Reached /\ req.budget <= Reached
                              ELSE selected = Len(ranked)
  /\ pc = "searching" /\ req.kind = "sparse" /\ Reached > req.budget =>
       Len(batch) = 1 /\ Len(FoundIn(executions)) < TopK

\* and an answer is that of all executions, which its receipt tells.
AnswerInv ==
  /\ pc \in {"idle", "searching"} => answer = None
  /\ pc = "stored" => answer # None
  /\ receipt # None => answer # None
  /\ answer # None =>
       /\ answer = FoundIn(executions)
       /\ receipt = ReceiptOf(executions, selected, answer)
       /\ selected = Len(executions)
       /\ \A s \in Sources : stage[s] = "done" => \E i \in 1..Len(executions) : ranked[i] = s
       /\ ~ Conflicting(Hits(executions))
       /\ Len(executions) = Len(ranked) \/ (req.kind = "sparse" /\ Len(answer) >= TopK)
       /\ req.kind = "sparse" /\ Len(executions) > req.budget =>
            Len(FoundIn(SubSeq(executions, 1, Len(executions) - 1))) < TopK

IInv == TypeOK /\ CacheSound /\ SourceInv /\ OrderInv /\ CountInv /\ AnswerInv /\ pc # "refused"

=============================================================================
