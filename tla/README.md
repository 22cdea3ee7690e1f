# A TLA+ model of Mnemes

Mnemes is a Rust service that pools the memory of several devices: one control
database (`mnemes.db`), one `semantic-memory` shard per device or profile, an
HTTP and an MCP surface, a signed replication path for facts created on a
device, and the client that drives that path. This directory holds TLA+ models
of the parts where interleaving, failure and retry matter, the TLC instances
that check them, and TLAPS proofs about them. Paths below are those of the
repository; `store.rs` is `src/store.rs` and so on.

## Parts of the system

| Part | Code | State | Operations | Hard behaviour | What makes it right |
| --- | --- | --- | --- | --- | --- |
| Fact-create sync client | `bin/mnemes-sync-client.rs` | `watermark.json`, one shared `.tmp` | load, read next row, sign, post, validate ACK, write and rename | killed between POST and rename; two invocations at once; restored journal | the watermark never runs ahead of the shard; every fact arrives in the end |
| Fact-create server path | `replication/fact_create.rs`, `server.rs`, `store.rs` 2785-2862 | shard stream, `fact_create_acks`, `device_shards.fact_count` | authorize, gate, look up, admit, apply, refresh, persist ack | three databases without a common transaction; crash between them; repeated and reused batches | an ack is durable and true; duplicates get the original ack |
| Admission of writer keys | `store.rs`, `bin/mnemes-admin.rs` | `fact_create_admissions` | admit, re-fence, revoke | revocation against a request under way; the CLI's own gate | only an admitted writer changes a shard |
| Fact-supersede path | `replication/fact_supersede.rs`, `store.rs` 2906-3085 | the shard's stream and lineage, own admissions, own acks | as above, with its own gate | two gates on one shard; stale replays; revocation from another process | one fact has one successor; a conflict stays one |
| Devices, actors, authentication | `store.rs` 1203-1353 and 2236-2512, `server.rs` 824-1090 | `devices`, `device_shards.state`, `actors` | register, bootstrap, rotate, set status, heartbeat, register actor | a token is checked in one section and used in a later one; rotations pass each other; lost answers | what was replaced or set aside stays so; the credential in force is in somebody's hands |
| Profile access control | `profile_store.rs`, `store.rs` 1355-2233 | profiles, stores, grants, bindings | register, set status, grant, bind, revoke, snapshot, validate, permit | a decision read in many sections; long-lived snapshots; half-open windows | a permit rests on authority that was there at one instant |
| Operation envelopes | `store.rs` 2619-2674, `server.rs` 1416-1531 | `operation_envelopes`, `audit_events` | submit, read back | look up and insert in two sections; retries | one key, one operation, one receipt |
| Fact sync into a shard | `store.rs` 4046-4136 | shard facts, `synced_facts`, `fact_count` | look up, match content, add, count, record | failure after the add and before the record | a source fact is stored once |
| Journal replay | `sync.rs`, `sync_handler.rs`, `replica.rs` | replica journal and store | export, apply entry, reply | racing appliers; failing entry in a batch; restored device | a sequence is replayed once; cursors skip nothing |
| Shard catalog, store cache | `store.rs` 127-178, 3087-3181 | LRU of open stores | open, evict, refresh counts | eviction loop; stale counts | bounded, live, no lost store |
| Routed search, receipts | `store.rs` 3441-3825, `shards.rs` | routing receipts | rank, budget, batch, expand, merge, validate | partial failure, conflicting contents, stale catalog | receipt agrees with what was done |
| Provenance | `store.rs` 4793-5350 | `provenance_edges` | record, query as of, lineage, supersede, contradict | cycles, as-of windows, edges that hide edges | complete and finite lineage |
| Replication types | `replication/state_machine.rs`, `trusted_key.rs`, `types.rs` | none | predicates | - | agree with their tables |
| Run packs | `run_pack.rs` | an operation and a provenance edge | verify, submit, record | failure between the two, retry | an import that was answered is whole |
| Canonical encoding | `replication/canonical.rs` | none | encode, verify | - | injective |
| Router, MCP, audit | `server.rs`, `bin/mnemes-server.rs` | `audit_events` | parse, authorize, call | - | - |

The client reads the device's journal, posts over HTTP to the server path; the
server path reads admissions that `mnemes-admin` or the server writes, calls
into the shard (`semantic-memory`, a dependency that is not in the repository)
and into the catalog. Routed search reads the catalog, the cache and, for
profiles, access control. Every store operation goes through one
`tokio::sync::Mutex` around the control connection, released between sections
wherever the code awaits something else; those gaps are where the models put
their steps.

## Modules

    ReplicatedLog            abstract promise of replication
      ^ implemented by
    FactCreateReplication    client, network, server, operator, device
      <- FactCreateProofs    theorems         <- MCFactCreate  instances
    FactSupersede            creates and supersedes on one shard, two gates
      implements ReplicatedLog                    <- MCFactSupersede
      <- FactSupersedeProofs theorems
    DeviceRegistry           devices, credentials, actors  <- MCDeviceRegistry
      <- DeviceRegistryProofs theorems
    JournalSync              journal replay library     <- MCJournalSync
      <- JournalSyncProofs   theorems
    IdempotentSubmission     abstract promise of an idempotency key
      ^ implemented by
    PooledWrites             idempotent control writes  <- MCPooledWrites
      <- PooledWritesProofs  theorems
    ProfileAccess            access control             <- MCProfileAccess
      <- ProfileAccessProofs theorems
    RoutedSearch             search over shards, cache  <- MCRoutedSearch
      <- RoutedSearchProofs  theorems
    Provenance               edges, as-of, lineage      <- MCProvenance
      <- ProvenanceProofs    theorems

### FactCreateReplication

One home device, its journal (`journal`), the timer's arguments (`conf`), any
number of client invocations, any number of server tasks, the operator.

| Variables | Code |
| --- | --- |
| `journal`, `conf` | the device's `mutation_journal`; the timer unit's command line |
| `wm`, `tmp` | `watermark.json` and its `.tmp`: content and the invocations that hold it open |
| `cpc`, `cconf`, `cnext`, `cbatch`, `creply` | local variables of `main` in the client |
| `posted`, `requests` | batches ever sent; POSTs not accepted yet |
| `wpc`, `wbatch`, `gate` | tasks in `fact_create_handler` and `apply_fact_create_request`, `fact_create_gate` |
| `acks`, `admissions`, `deviceStatus`, `factCount` | tables of the control database |
| `streamEpoch`, `replica` | the shard's inbox |

A journal record is the chain of payloads that ends with it: sequence,
predecessor digest and envelope digest are functions of the chain, and equal
digests mean equal chains, which is what SHA-256 gives the code. Signatures that
do not verify never pass `decode_json` and are left out.

Client: `LoadWatermark`, `PostNextRecord` or `NothingToPost`, `ReceiveReply`,
then `CreateTmp`, `WriteTmp`, `RenameTmp` (`write_watermark` has no lock, so each
file operation is a step and an open handle follows a renamed file), and
`ClientFails` anywhere. Server: `Accept`, `Authorize`, `LookupAck` (takes the
gate), `CheckAdmission`, `Apply`, `ReadStats` and `UpdateCounts` (the two sections
of `refresh_shard_counts`), `PersistAck`, and `HandlerFails` or `ServerCrash`
anywhere. Around them: `RecordFact`, `RestoreJournal`, `Reconfigure`,
`RestoreWatermark`, `Redeliver`, `ReuseBatchId`, `AdmitKey`, `RevokeKey`,
`SetDeviceStatus`, and `RefreshOutsideGate`: `refresh_shard_summary` and
`sync_fact_to_shard` write the same catalog row without the gate, with statistics
they may have read long before. So `factCount` can fall behind the shard and stay
there until the next refresh; no document bounds that, and no property does.

External: the digest chain of `semantic-memory`, the append to the device's
journal, and `apply_verified_fact_create`. The last is taken to decide and commit
in one transaction with one outcome among those the store matches on
(`Applied`, `Duplicate`, `StalePredecessor`, conflicts). Its awaiting task can be
dropped before it or after it, which `HandlerFails` covers.

### FactSupersede

The stream of one device-owned store when both routes are served. The journal of
the owner is one sequence of creates and supersedes; the shard has one inbox for
it; each family has its own gate, admissions and acks.

| Variables | Code |
| --- | --- |
| `posted` | batches that were ever sent; the network may deliver each at any time and again |
| `task` | the holder of `fact_create_gate` and that of `fact_supersede_gate` |
| `acks`, `admissions`, `factCount` | tables of the control database, one of each per family |
| `streamEpoch`, `replica` | the shard's inbox |
| `conflicts`, `late` | history: refused batches; writes of a family since its admission was changed |

`LookupAndAdmit`, `Apply`, `RefreshShardCounts` (creates only; any length the shard
has had since the batch was applied) and `PersistAck` are the sections of a request,
`RefreshOutsideGate` is as above, `HandlerFails` and `ServerCrash` come between any two of
them, `AdmitKey` and `RevokeKey` are the operator in the server's process or, with
`CliWhileServing`, in one of its own. `Post` tells the owner's own behaviour
(`Regular`: one journal, one epoch, fresh batch ids) from what is irregular: a
journal restored from a backup, a record sealed again with another predecessor
fact as the tests do, an id or an epoch used twice, a key that is not admitted.
The outcome of the shard is external, as in FactCreateReplication: `ApplyOutcome`
has one clause for each outcome `store.rs` and the handler match on. The client
and authentication are that module's subject. A supersede row does not fix the
stream epoch (`store.rs:3023`), a create row does.

### DeviceRegistry

| Variables | Code |
| --- | --- |
| `status`, `credential` | `devices.status`, `devices.credential_fingerprint` |
| `shard` | `device_shards.state` |
| `actors` | `actors`: id, device, operator or not |
| `task` | requests under way: the request, its step, the credential its answer will hold |
| `drawn` | secrets that were ever drawn |
| `handed`, `lost` | history: credentials that reached somebody, or whose answer was lost |

A request is `Arrive`, then `Authenticate` or, for a registration without a token,
`AuthorizeRegistration`, then for a tool `AuthorizeActor`, then one of
`RegisterDevice`, `RotateDeviceCredential`, `SetDeviceStatus`, `HeartbeatDevice`,
`RegisterActor`, then `Answer`; each is one section of the connection's mutex.
`RequestFails`, `ServerCrash` and `Bootstrap` (`mnemes-admin`, in its own process)
come in between. A token is a device and a secret; a fingerprint is the secret it
was made of. The database may be that of an older release, with devices that had
no catalog row until `MnemesStore::open` added it. `barred` records whether a
request was entitled when it arrived, for `LostForGood`.

### JournalSync

`ReplicaApplier::apply_entry` looks a sequence up (`CheckApplied`) before it
opens the transaction that replays and records the row (`ApplyTransaction`); the
unique index on the replica's journal is what stops the second of two racing
appliers. `SyncBatch` is the export, up to the first gap; `ProcessSyncRequest`
takes the rows of a body. Both go on after a failed entry. `NextSequence` is what
`sync_batch` returns (`sync.rs:169`), the sequence after the last one it sent; the
field of that name in the reply of `process_sync_request` is read by nobody and is
left out. The route that would call
`process_sync_request` is disabled in the server, so what a caller does with
`next_sequence` is not in the code: the model's caller advances after a clean
reply and repeats otherwise. That caller is the assumption behind the part of
`SyncedIsDurable` that is about cursors.

### PooledWrites

`submit_operation` with its handler and with `import_run_pack_observation`, which
submits and then records an edge, and `sync_fact_to_shard` with
`refresh_shard_counts`. What the importer checks before it writes (witness,
signature, digests, paths, times) is left out. Each section under the connection's
mutex is an action, and so is `add_fact`. The lookup of a key is two of them:
`LookupKey` finds the id, and `get_operation` then reads the row, with success
(`ReadOperation`) or with an error of the database that its `.ok()` turns into "no
operation" (`ReadSwallowed`, `store.rs:4206`), upon which a second one is inserted.
`misread` is the history of the keys to which that happened. `Overlap` says whether two requests about one key or one
source may be under way together: without it the model is that of callers who
wait for an answer before they retry, with failures at every step.

`IdempotentSubmission` is what the key of an operation promises, with no steps to
come between: a key that stands for nothing gets one operation (`Keep`), and an answer
is an operation that is kept (`Answer`), with the content that was sent. A key may be
excused (`Excuse`) once an operation kept under it was not seen; it may then get a
second one, but is still answered with operations of its own and with the content
sent only. Without `Overlap` submissions and imports implement it
(`ImplementsSubmission`): a stored operation is a row, the receipt its number, and
the excused keys are those of `misread`. `SameKeySameAnswer` is what README.md of the
repository states, of every key; `submit_race` violates it by an overlap, and a
`ReadSwallowed` does so without one.

`LookupSource` answers for a recorded source without a look at the content
(`store.rs:4085`). `SourceStoredOnce` is about what is stored; that a source sent
again with other content is skipped is modelled, and is no violation of it.

### ProfileAccess

Control-plane operations are one section each and one action each. A snapshot is
`ResolveActorProfile`, `ListStores`, then `ReadGrants` per store; the caller may
hold it (`held`) for any time and present it (`Present`), upon which it is built
again and compared by digest (`SameDigest`) before `ListAuthorizedStores` or
`IssueMemoryAccessPermit`. `routed_search_for_profile` uses the first build
directly (`OpenStore`, `OpenFails`). Calls only read, so one call beside any
operators is the general case. Statuses other than active are one value `off`:
the code compares with active only. Grants are identified by the columns of
their UNIQUE key. `atStart`, `atResolve` and `reactivated` are history variables:
what was revoked when the call began, what the one-section decision
`authorize_memory_access` would have been when the binding was last read, and
whether anything was set back to active since the call began. The `at` of a
request is an argument of it; no clock is needed.

### RoutedSearch

| Variables | Code |
| --- | --- |
| `held` | the facts in the shards and profile stores |
| `active`, `overlap` | catalog and device status; terms a shard's summary shares with the query |
| `open`, `lru` | `ShardStoreCache` |
| `req`, `ranked`, `batch`, `stage`, `result`, `executions`, `selected` | locals of `routed_search` and `routed_search_for_profile` |
| `answer`, `receipt` | what is returned, and the row stored |
| `seen` | history: what a database held when it was asked |

`RoutedSearch` and `RoutedSearchForProfile` read the catalog or the snapshot;
`Open`, `OpenFails`, `Ask` and `AskFails` are the steps of one database, in any
order within a batch (`join_all`), one database at a time for a profile. `Expand`
and `NextStore` go on, `ConflictingShardItem` ends the search, `Finish` merges,
validates and stores, `GetProfileRoutingReceipt` reads the receipt back as the
handler of a profile search does. Beside the search: `AddFact`,
`RefreshShardSummary`, `SetStatus`, `DeviceMemory`, `ClearShardCache`.

The cache's eviction loop is written as the least number of evictions that is
enough; where there is none the action is disabled, as the code's loop would not
end. Latency, generations and counters are left out as they decide nothing, and
digests because their preimage is the receipt. Two more things are left out: the check that
the requester is a device (`store.rs:3558`), whose refusal changes nothing; and a
limit of 0, which `server.rs:2197` and 2306 pass on and the merge takes for no limit
(`shards.rs:231`): the model has `TopK >= 1`. What a database returns for a
query is external: its `TopK` best, ties in any way. What a profile may search is
`ProfileAccess`'s subject; here it is any set of active stores.

### Provenance

| Variables | Code |
| --- | --- |
| `edges` | `provenance_edges`, by rowid |
| `ops`, `now` | `operation_envelopes.recorded_at`; the server's clock |
| `stamped` | `recorded_at` in a `submit_operation` that has not inserted yet |
| `walk`, `queue`, `visited`, `found`, `outgoing`, `truncated` | locals of `lineage` |
| `result` | items and operations of `LineageResult` |
| `acked`, `expanded`, `first` | history: answers given; items queried; edges in force at the start |

`RecordProvenanceEdges` is one transaction, `RecordOne` for each request of the
batch (`RecordAll`, a recursive function over its positions);
`Supersede` and `Contradict` build requests for it as the methods of that name do.
The row of a request (`RowOf`) has the `recorded_at` that the request brings, or the
clock's. `submit_operation` takes its `recorded_at` before it waits for the connection
(`StampOperation`, `store.rs:2643`) and inserts with it afterwards (`InsertOperation`).
`Projection` is `query_provenance_edges`, `OperationProvenance` the method of that
name. A walk is `Lineage`, then `ExpandOneWay`, or `ExpandOutgoing` and
`ExpandIncoming` for direction both, then `Complete`; each query is its own
section, so writers come between, and returns the first `Limit` of its rows
(`FirstRows`; 10000 in the code). The loop over the edges that a query discovered
is `FollowAll`, a recursive function over the rows, as a query is ordered by rowid.
`visited_nodes` holds keys: two items of one `Key` count as one (`Known`), and the
items returned are what the keys are `Parsed` to (`ParsedItems`).

`LineageComplete` compares a walk with a reference that knows no queue: `Within` is
the set of nodes that at most k arcs lead to. Of every walk it says that nothing is
there that the edges in force at its end do not lead to within the depth, and that no
item is expanded twice. The rest holds if no item has more edges than a query returns
(`Unlimited`) and keys are parsed to the items they were made of (`Legible`): nothing
within the depth over the edges that were there when the walk began is missing,
neither the nodes nor the edges found at them, and a walk that does not say
`truncated` has all that can be reached. Both conditions are needed, as the code
tells its caller of neither.

`AsOfStable` says how far an answer as of a time that has passed is final. Edges seen
then stay seen. Nothing new is seen, unless a request of this step gave a `recorded_at`
of back then (`Backdated`), as imports and migrations do; and the answer about an
operation may change if its submission was under way at that time (`UnderWay`).

An edge id is its position in the table. Columns that only
`edge_matches_request` compares are one value (`body`); the check of actor and
device against the operation is the set `Foreign`. Times are the texts that
`to_rfc3339` writes, whose order is that of time.

## Runs

| Run | Configuration | Shows |
| --- | --- | --- |
| `fact_create_safety` | `MCFactCreate_safety.cfg` | `TypeOK`, `AckDurable`, `WatermarkBacked`, `AppliedOnlyAdmitted`, `DuplicateGetsOriginalAck`, `ImplementsLog` with two invocations, two tasks and two fences |
| `fact_create_live` | `MCFactCreate_live.cfg` | `EventuallyReplicated` under fairness, with `WatermarkMonotone`; the second kind of row is not a fact-create and stops the stream |
| `watermark_two_invocations` | `MCFactCreate_torn.cfg` | violation of `WatermarkReadable` with two invocations |
| `revoked_device_writes` | `MCFactCreate_revoked.cfg` | violation of `RevokedDeviceNeverWrites` |
| `supersede_stream` | `MCFactSupersede.cfg` | `TypeOK`, `OneSuccessor`, `ConflictIsFinal`, `OneLateWrite`, `ImplementsLog` with a request of each family beside the other, an irregular batch, a failure, and `mnemes-admin` beside the server |
| `device_registry` | `MCDeviceRegistry.cfg` | `TypeOK`, `CatalogMirrorsDevices`, `LostForGood`, `CredentialIsHeld` with two requests under way and a failure |
| `journal_sync` | `MCJournalSync.cfg` | `TypeOK`, `ReplayedOnce`, `SyncedIsDurable`, and `EventuallySynced` under fairness |
| `pooled_writes` | `MCPooledWrites.cfg` | `TypeOK`, `ImportIsWhole`, `SourceStoredOnce`, `ImplementsSubmission`, for callers whose requests about one subject do not overlap, with failures and swallowed errors |
| `submit_race` | `MCPooledWrites_key.cfg` | violation of `SameKeySameAnswer` when they do |
| `profile_access` | `MCProfileAccess.cfg` | `TypeOK`, `OneBindingInForce`, `PermitLinearizes`, `PermitWithinWindows`, `RevocationRespected` |
| `routed_search` | `MCRoutedSearch.cfg` | `TypeOK`, `CacheSound`, `ReceiptTellsTruth`, `ExpansionIsExact`, `NothingBetterLeftOut`, with failures and changes beside the search |
| `provenance` | `MCProvenance.cfg` | `TypeOK`, `EventsExact`, `LineageComplete`, and `AsOfStable` for every step |

### Bounds

`BatchIds` bounds the batches of the fact-create model (a client draws a fresh
UUID per invocation), `MaxJournal` the rows of the journal, `MaxDisturb` the
failures, redeliveries, crashes and operator actions. Two invocations and two
tasks are what a race needs; two rows are what an order needs; three
disturbances allow, for instance, to admit a key, to lose a reply and to revoke.
In the live run one invocation is started again and again, and three batch ids
leave a retry for each of the rows; behaviours that use all ids up are excluded
in the property itself.

The supersede run has three facts and chains of three records: a create, its
supersession, and a second supersession of the same fact by either of two
histories. Three batches, of which one is irregular, are two that race and a
third that is late, altered or of a restored journal; one disturbance is a crash
between shard and ack, or a change of an admission under a request.

The registry run has two devices, one of which an older release may have left,
three secrets (one for each device and one rotation), two actors, two requests
under way and four in all: two that race, and two more that try what the first
two replaced. `SecretSet = FALSE` is the case in which registration can close.

`MaxSeq`, `MaxBatch` and `MaxFail` bound the journal run: two rows in one batch
with a failure between them, and two payloads so that a restored device can
disagree with the replica. `MaxRows` bounds the rows of the pooled writes, operations
and facts together (a request begins only while there is room, and with two requests
under way one more row than the bound can be written): a duplicate needs two rows of
one key, and the third fact is a copy beside both contents. `MaxFail` is a failure
for each of two attempts.

`MaxOps` bounds the control-plane operations beside one access call, `MaxBindings`
and `MaxGrants` the rows. Four operations suffice for bind, grant, and two
changes in the middle of a call; with the instants 0, 1 and 2 there are two
adjacent windows and one that covers both. The same instance with five
operations and one grant (2.8 million states) has no violation either.

The search run has three shards, two profile stores, two results asked for, a
cache of two, and one change beside the search: one more shard than the default
budget, so that there is something to expand into, and more databases than the
cache holds. The databases start with any set of the facts of shards or of
stores: duplicates, ties, an item with two contents. `MaxChanges` bounds the
writes, refreshes, evictions and status changes.

The provenance run has four items, of which two share a key, two operations, a
malformed one, three rows, two instants, and queries of two rows, so that three edges
at one item are more than a query returns. Its requests make a chain, a cycle, a
supersession valid in a window, a retry with other contents, and one request for each
check that can fail, alone or behind a good one in a batch; some bring a time of their
own, passed or present. Walks start at the item in the middle. Depths 0, 1 and 9 are
none, one that cuts, and one that does not.

Deadlock checking is off where, with a bound used up or nothing to do, the
modelled processes really stop. It is on in the search and the provenance runs:
a caller can always ask again there.

### Fairness

`fact_create_live`: weak fairness of `ClientStep(i)` for each invocation and of
`HandlerStep(w)` for each task. tokio polls every ready task and its mutex is
granted in order, so a task past `Accept` goes on; the timer or cron the README
names starts the client again. No fairness is given to the operator, to failures
or to recording facts. `EventuallyReplicated` assumes what only the operator can
provide, and only from some point on: an active device, an admission that covers
the stream, a watermark that can be read, and a journal that extends the shard.

`journal_sync`: weak fairness of `Step(c)`, as a call is synchronous, and strong
fairness of `SyncBatch(c)`: the loop that calls it does so again each time it is
idle, but other calls on the same thread disable it in between.

## What the counterexamples show

* `watermark_two_invocations`. `README.md:501` says the watermark "is written
  atomically". All invocations share one `.tmp`; one can rename what another
  has just truncated, and `watermark.json` is then empty until the other writes.
  If that one dies, every later invocation fails to parse the file.
* `revoked_device_writes`. The documents require that a revoked device's sync be
  rejected immediately. The status is read before the request waits for the
  gate and not again, and `set_device_status` does not take the gate.
* `submit_race`. `README.md:593` says one key always returns the original
  operation. The lookup and the INSERT are two sections without a UNIQUE
  constraint (the code's own TODO names it): two receipts are handed out.

Some more limits are known to the code or documented in it, and have no run.

* `AppliedOnlyAdmitted` needs `CliWhileServing = FALSE`: `mnemes-admin` on a live
  server's data takes a gate of its own process. How far that goes is
  `OneLateWrite`, which FactSupersede checks with `CliWhileServing = TRUE`: one
  request of the family, the one already past its admission check.
* `sync_batch` goes on after an entry that failed, and returns a `next_sequence`
  past it (`sync.rs:171`); only the list of errors says so. The caller modelled in
  JournalSync looks at that list. A caller that took `next_sequence` alone would
  leave the entry out.
* The sentence of `README.md:593` fails without an overlap, too. An error of the database
  in the second half of the lookup (`store.rs:4206`) is taken for "no operation", and a
  retry stores a second one and gets another receipt: with `Overlap = FALSE` and
  `MaxFail = 1`, TLC finds it in the instance of `submit_race`. This is what
  `ImplementsSubmission` excuses, and no more.
* Two overlapping deliveries of one source fact both add it (`store.rs:4079`):
  `SourceStoredOnce`, like `SameKeySameAnswer`, needs `Overlap = FALSE`.
* Without `BOOTSTRAP_SECRET`, two first registrations that overlap, or one that
  overlaps with `mnemes-admin bootstrap`, both succeed (`server.rs:949`), although
  `README.md:270` speaks of the first. `LostForGood` says what does hold: a
  registration that arrives once there is a device is refused.
* The idempotency key of a run pack does not name the device. A second device that
  imports the same pack gets the first one's operation, and its edge, which names
  its own device, is refused. PooledWrites has one device.
* `rotate_device_credential` writes whatever the status is: an operator's rotation
  of a revoked device changes its fingerprint and hands out a credential that is
  good for nothing.
* A profile search uses a snapshot it built once; that its binding and its grant
  held together at one instant is checked for permits and validated lists, not
  for it.

The models show some more that no document speaks of. The catalog's `fact_count` is
read and written in two sections by several paths, of which some take no gate: a
refresh that comes late writes an older count over a newer one (`store.rs:3308`). A
query of a lineage returns 10000 rows, and what is beyond is missing from a result
that does not say truncated (`store.rs:5128`). A kind may contain the colon that ends
it in a canonical key (`types.rs:162`): items whose keys collide are walked as one, or
returned as another. What was seen as of a time that has passed can still change by
an edge with an older `recorded_at` of its caller, or by an operation that was stamped
and waited for the connection (`store.rs:2643`). A source that is sent again with
other content is skipped (`store.rs:4085`).
Two supersedes edges of one target hide each other in a query without superseded
edges (`Masked`). An item of kind operation whose id is none fails every lineage
that meets it (`store.rs:5234`). `max_depth` 0 looks at nothing and does not say
truncated (`store.rs:5118`). Outside the models: `top_k` 0 leaves
`merge_routed_results` without a cut (`shards.rs:231`), `device_memory` makes an
empty database for a shard whose files are lost, after which
`verify_all_shards` reports ok (`store.rs:3115`), and an as-of bound written with
"Z" instead of "+00:00" sorts after the fractions of its second
(`store.rs:5021`).

## Proofs

`FactCreateProofs` proves, for all values of the constants:

| Theorem | States |
| --- | --- |
| `TypeCorrect` | `[]TypeOK` |
| `Invariance` | `[]IInv`, the inductive invariant |
| `AckIsDurable` | `[]AckDurable` |
| `WatermarkIsBacked` | `[]WatermarkBacked` |
| `OnlyAdmittedWrites` | `AppliedOnlyAdmitted`, if `~CliWhileServing` |
| `DuplicatesAreAnswered` | `DuplicateGetsOriginalAck` |
| `Refinement` | the system implements `ReplicatedLog` |
| `WatermarkIsReadable` | `[]WatermarkReadable`, if invocations do not overlap |
| `WatermarkNeverTakenBack` | `WatermarkMonotone`, if invocations do not overlap |

None of the safety properties is inductive. `AckDurable` needs that a task about
to persist an ack still has its record on the shard; that holds because shards
only grow (`OnShardStable`) and because only the holder of the gate applies. So

    IInv == TypeOK /\ GateInv /\ AckDurable /\ TaskInv /\ AckKeyInv
            /\ ClientInv /\ FileInv

with `GateInv` (the gate belongs to the one task past `LookupAck`), `TaskInv`
(what a task established in its earlier steps still holds), `AckKeyInv` (a batch
id never has two acks, so the INSERT succeeds), `ClientInv` (a reply a client
read is durable and for its batch) and `FileInv` (whatever is in the two files is
covered by an ack). `WatermarkBacked` follows from `FileInv` and `AckDurable`; the
refinement from `AckDurable`, `OnShardStable` and `FileInv`. The last two theorems
are for one invocation at a time, started again and again, as the timer does; two at
once do tear the file (run `watermark_two_invocations`). They rest on `SoloInv`: the
invocation finds in the temporary file what it wrote, even after one that was killed
half way, and what it is going to rename is past the watermark that it has read, which
only the operator changes beside it, and only to an older one. The assumptions are
the named ASSUMEs of `FactCreateReplication`: bounds are naturals, epochs are
positive, sentinels differ from data.

`FactSupersedeProofs` proves, for all values of the constants:

| Theorem | States |
| --- | --- |
| `TypeCorrect` | `[]TypeOK` |
| `ReplacedOnce` | `[]OneSuccessor` |
| `ConflictsStay` | `[]ConflictIsFinal` |
| `LateIsBounded` | `[]OneLateWrite` |
| `Refinement` | both families together implement `ReplicatedLog` |

    IInv == TypeOK /\ LineageInv /\ AckInv /\ ConflictInv /\ LateInv /\ OneLateWrite

No gate excludes the other family here, so nothing a task has read about the
shard is in the invariant except what stays true whatever the other does.
`ShardNext` says that a step leaves the shard alone or makes its stream one record
longer; hence what is on the shard stays (`OnShardStays`) and a batch that differs
from it, or supersedes what was not current where it stands, does so for good
(`DoomedStays`). `AckInv` and `ConflictInv` follow, and `LineageInv` (every record
superseded a fact that was current before it) makes replacements unique. `LateInv`
is why one late write is the worst: a request that a changed admission no longer
admits is the only one of its family past the check. The assumptions are the named
ASSUMEs of `FactSupersede`.

`ProfileAccessProofs` proves, for any number of profiles, stores, actors, grants
and bindings, and any operations between two sections of a call:

| Theorem | States |
| --- | --- |
| `TypeCorrect` | `[]TypeOK`, with the UNIQUE key of the grants |
| `SubjectIsUnique` | `[]OneBindingInForce` |
| `PermitsLinearize` | `[]PermitLinearizes` |
| `PermitsEndInTime` | `[]PermitWithinWindows` |
| `RevocationsAreRespected` | `[]RevocationRespected` |

    IInv == TypeOK /\ BindingInv /\ CallInv /\ BackedInv /\ AnswerInv /\ RevokedInv
            /\ RegisteredInv /\ LinearInv

`SubjectIsUnique` stands alone: `BindingInv` says that standing bindings of one
actor have disjoint windows, the overlap test of `bind_actor_profile` gives it for a
new row, a revocation only takes a row away, and two disjoint half-open windows have
no instant in common.

For the calls, `Interference` is all that the control plane may do to one under way:
rows keep everything but their revocation, which is for good, a new grant has a new
key, and what is registered gets live by a reactivation only. `ControlInterferes`
shows it of every operation, and each part of `IInv` is kept under it, then under each
step of the call. `BackedInv` says what a snapshot knew: each store is its reader's
own or rests on grants that were valid and outlast the entry. `LinearInv` is the
argument of `PermitLinearizes`, at the second reading of the binding: a store of the
old snapshot with a grant that is *still* not revoked was authorized then, because its
grants existed already and revocation is never undone (`UnrevokedShrinks`,
`ReadAgainDecides`); so when the second build finds it again, it had been. The clause
over the life cycle needs `RegisteredInv`, as a registration makes a store live
without a reactivation. The assumptions are `AccessAssumption` (instants are
naturals), `BoundAssumption` and `SentinelAssumption`.

`DeviceRegistryProofs` proves, for any number of devices, secrets, actors and
requests under way, and with or without a bootstrap secret:

| Theorem | States |
| --- | --- |
| `TypeCorrect` | `[]TypeOK` |
| `CatalogIsTrue` | `[]CatalogMirrorsDevices` |
| `LostStaysLost` | `[]LostForGood` |
| `CredentialsAreHeld` | `[]CredentialIsHeld` |

    IInv == TypeOK /\ CatalogMirrorsDevices /\ RegistryInv /\ TaskInv /\ CredentialIsHeld

`LostForGood` is not inductive: that a barred request is not let in later needs
that the registry never makes it entitled again. `BarredStays` is that argument: a
row becomes active only when it is new, no secret is drawn twice, so a token whose
secret was drawn before (`RegistryInv` for those handed out, `TaskInv` for those of
a request) matches nothing that is written afterwards, and the devices never
become none. `RegistryWriters` reduces every step to one of three ways to write
(`Insert`, `Rotated`, `SetAside`), from which the catalog's and the type lemmas
follow. `CredentialIsHeld` follows from `HeldStays`, as a request holds a fresh
credential in its last step only (`TaskInv`) and that step hands it out or loses
it, and from `NewIsHeld`, as a secret is written together with the answer that
carries it. The assumptions are `RegistryAssumption` and `SentinelAssumption`.

`JournalSyncProofs` proves, for any number of callers, rows and batch sizes:

| Theorem | States |
| --- | --- |
| `TypeCorrect` | `[]TypeOK` |
| `ReplayIsOnce` | `[]ReplayedOnce` |
| `SyncedStays` | `[]SyncedIsDurable` |

    IInv == TypeOK /\ ReplayedOnce /\ CallInv /\ SyncedIsDurable

`ReplayedOnce` needs that a caller about to apply an entry holds a payload that
decodes, and `SyncedIsDurable` that the entries of a batch under way are
consecutive from the caller's cursor: both are `CallInv`. The step relation is
first reduced to five shapes (the source changes, a call starts, an entry is
chosen, an entry is applied, a call ends). A row that was recorded is never
rewritten and the recorded sequences only grow in number, which carries what was
reported before over every step. The assumptions are `BatchAssumption`,
`BoundAssumption` and `SentinelAssumption`.

`PooledWritesProofs` proves, for any number of tasks, keys, sources and failures:

| Theorem | States |
| --- | --- |
| `TypeCorrect` | `[]TypeOK` |
| `ImportsAreWhole` | `[]ImportIsWhole` |
| `KeysAnswerOnce` | `[]SameAnswerFor(Keys \ misread)`, if `~Overlap`: `SameKeySameAnswer` for the keys whose row was never taken for absent |
| `SourcesAreStoredOnce` | `[]SourceStoredOnce`, if `~Overlap` |
| `Refinement` | submissions and imports implement `IdempotentSubmission`, if `~Overlap` |

    IInv == TypeOK /\ TaskInv /\ ImportIsWhole /\ AnswerInv /\ AloneInv

`TaskInv` is what a task still knows after it has released the mutex: the row that
it holds is there and is of its own key or content. It survives the other tasks
because rows are only added (`Grows`), and this half needs no assumption on how
requests overlap, so neither does `ImportIsWhole`. `AloneInv` is the half that does:
a task between its lookup and its insert is the only one that can insert what it
did not find, and if its key is not in `misread` there really was nothing. Neither
condition can go: an overlap or a swallowed error gives a second row. The
refinement follows: an INSERT is the abstract `Keep`, as its key has no row or is
excused (`InsertKeeps`), `ReadSwallowed` is the abstract `Excuse`, a response the
abstract `Answer`, every other step stutters. The assumptions are `SentinelAssumption` and `BoundAssumption`.

`RoutedSearchProofs` proves, for any number of shards, stores and facts, any budget,
`TopK` and capacity of the cache, and any changes beside the search:

| Theorem | States |
| --- | --- |
| `TypeCorrect` | `[]TypeOK` |
| `Invariance` | `[]IInv` |
| `CacheIsSound` | `[]CacheSound` |
| `ReceiptsTellTruth` | `[]ReceiptTellsTruth` |
| `ExpansionExact` | `[]ExpansionIsExact` |
| `NothingBetterIsLeftOut` | `[]NothingBetterLeftOut` |

    IInv == TypeOK /\ CacheSound /\ SourceInv /\ OrderInv /\ CountInv /\ AnswerInv
            /\ pc # "refused"

`SourceInv` is what is known of one source at each stage: its result is there when it
is done, an error has no hits, an answer is among the `TopK` best of what the
database held when it was asked. `OrderInv` says that the executions are the results
of the first of the ranked sources and the batch the ones that come next, so that
sources done in any order are executed in one; `CountInv` that `selected_count`,
which the code counts on its own, agrees with them, and that a source more than the
budget was added only while the answer was short. `AnswerInv` carries that to the
stored receipt. `ReceiptIsValid` is the reason why no search is ever `refused`: what
`routed_search_for_profile` puts together always passes its own validation.

Ranking, the answer's order and the cache's queue rest on one lemma about sorting:
in a finite set with a total order, the number of elements before an element numbers
the set without gaps (`EveryPlaceTaken`, by counting), so a function that puts each
element there lists it in order (`Sorting`). `NothingBetterLeftOut` joins two
facts: whatever a database returned is in the answer, a copy of something in it, or
no better than a full answer (`HitsAreCovered`), and whatever it did not return is no
better than `TopK` hits that it did, which alone make a full answer at least as good
(`FullAnswer`). TLC checks `IInv` on the instance of the run (1,051,376 states) too.
The assumptions are `SearchAssumption` and `SentinelAssumption`; the first says that a
database holds an item once.

`ProvenanceProofs` proves, for any requests and batches, any graph, cyclic or not, any
depth, any points in time, any limit of a query, any keys, and any writes between the
queries of a walk:

| Theorem | States |
| --- | --- |
| `TypeCorrect` | `[]TypeOK` |
| `Invariance` | `[]IInv` |
| `EventsRecordedOnce` | `[]EventsExact` |
| `LineageIsComplete` | `[]LineageComplete` |
| `PastIsStable` | `AsOfStable` |

    IInv == TypeOK /\ TableInv /\ WalkInv /\ ItemsInv /\ DepthInv /\ FoundInv /\ BreadthInv

The two loops, over a batch and over discovered edges, are recursive functions.
`Recursion` shows that a function so defined exists and `RecordAllKeeps` and
`FollowAllKeeps` that what one turn keeps the whole loop keeps; both come from `UpTo`,
induction up to a bound stated about a set, which is how it can be had without an
operator as parameter.

For the table, `RecordAllRightly` is the invariant of a transaction: its rows are of
distinct events, those before it are untouched, and each id it answers is of a row
that says what was asked. A step therefore changes no row, and adds rows of the present
or of the time that their caller gave (`Grown`), which gives `EventsExact`, and
`PastIsFixed`: unless a row is backdated, neither a new edge nor a new supersession is
seen as of an earlier time. An operation gets the time of its stamp, so it was under
way from then on.

For a walk, `ItemsInv` (a node waits once or was expanded once), `DepthInv` (the queue
spans two levels at most), `FoundInv` (edges found are in force, expanded nodes have
all of theirs found) and `BreadthInv` (what is nearer than the head of the queue was
expanded, what waits is as near as its depth says) are what breadth-first search
keeps. They are split at the turn of the loop: `LoopTurn` keeps them for one edge,
`LoopEnds` restores them once the head has been expanded, and `WalkKept` keeps them
when others write, since edges in force stay in force (`InForceGrows`) and more arcs
reach more (`WithinGrows`). What they say about completeness is under the condition
`Clear == Unlimited /\ Legible`. A query then returns all that it should
(`FirstRowsOf`, `Queries`) and an item whose key is known was met (`KnownWasMet`);
and as rows are only added, a walk that is clear at its end has been clear since it
began (`ClearBefore`), so that nothing was missed before. Nodes within k arcs are handled by four lemmas, of which
`WithinClosed` turns a finished queue into completeness: a set that holds the root and
all that is ahead of it holds what can be reached. TLC checks `IInv` on the instance
of the run without depth 1 (479,225 states). The only assumption is
`ProvenanceAssumption`.

Only model-checked: the two liveness properties (`EventuallyReplicated` and
`EventuallySynced`), as fairness and ENABLED are beyond the prover. Every safety
property of a passing run has its theorem.

## Not modelled, and why

* The bytes: canonical encoding, digests, signatures, the layout of requests. The
  models compare values where the code compares digests.
* `semantic-memory`, except the outcomes the store matches on and the shape of
  what a query returns; embedding.
* What the run-pack importer checks before it writes, the router, and the MCP
  surface apart from its authorization: they verify or parse, then call a store
  operation.
* `ReplicaLifecycle` and trusted keys (`replication/state_machine.rs`,
  `trusted_key.rs`): pure predicates that no running code calls yet.
* The re-creation of a lost shard directory (`store.rs:3115`).
* Scripts for migration and deployment: file operations with no protocol state.
* `--gen-key`, `list` and `get` calls, metrics: they write no modelled state.

## Plan

In this order.

1. `ReplicaLifecycle` and trusted keys as operators against reference tables, once
   running code calls them.
2. An abstract access decision, taken at one instant, that `ProfileAccess` implements;
   `PermitLinearizes` states the heart of it.
