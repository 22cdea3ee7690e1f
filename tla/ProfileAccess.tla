--------------------------- MODULE ProfileAccess ----------------------------
(***************************************************************************)
(* Profiles, stores, grants and actor bindings of the pooled database, and *)
(* the calls that turn them into access: an authorization snapshot, the    *)
(* permit issued from it, and a search over the stores it names.           *)
(*                                                                         *)
(* Every operation on the control plane is one section under the           *)
(* connection's mutex and one action.  A snapshot is several sections: the *)
(* actor's binding, the list of active stores, then the grants of one      *)
(* store after the other; anything may be changed between two of them.  A  *)
(* call only reads, so one call under way beside the operators is enough.  *)
(*                                                                         *)
(* A status is "active" or "off" (quarantined and revoked are told apart   *)
(* nowhere here), "none" before registration.  A binding's id and epoch is *)
(* its position; a grant is identified by the columns of its UNIQUE key.   *)
(* revoked_at is read only as NULL or not NULL.  Digests are values        *)
(* compared by equality.                                                   *)
(*                                                                         *)
(* Definitions marked "Mutant" are faulty variants of the definition after *)
(* them: they are in no specification, and show that a property can fail.  *)
(***************************************************************************)
EXTENDS Integers, Sequences, FiniteSets, FiniteSetsExt

CONSTANTS
  Devices, Profiles, Stores, Actors, Namespaces, Effects,
  Asked,           \* namespace selections of requests; {} asks for all
  OwnerDevice,     \* profile -> device: owner_device_id it is registered with
  StoreProfile,    \* store -> profile it is registered for
  NamespaceOf,     \* store -> its namespace
  ActorDevice,     \* actor -> device
  OperatorDevice,  \* the device of the actor that issues grants and bindings
  Times,           \* instants of validity windows and of requests
  PermitTtl,       \* 60 seconds, in units of Times
  FirstProfiles, FirstStores,   \* registered at the start
  MaxBindings, MaxGrants,       \* bounds: rows
  MaxOps,                       \* bound: control-plane operations
  None

ASSUME AccessAssumption ==
  /\ Stores \subseteq Nat /\ Times \subseteq Nat /\ IsFiniteSet(Stores)
  /\ OwnerDevice \in [Profiles -> Devices]
  /\ StoreProfile \in [Stores -> Profiles]
  /\ NamespaceOf \in [Stores -> Namespaces]
  /\ Asked \subseteq SUBSET Namespaces
  /\ ActorDevice \in [Actors -> Devices]
  /\ OperatorDevice \in Devices
  /\ PermitTtl \in Nat \ {0}
  /\ FirstProfiles \subseteq Profiles
  /\ FirstStores \subseteq {s \in Stores : StoreProfile[s] \in FirstProfiles}

ASSUME BoundAssumption == MaxBindings \in Nat /\ MaxOps \in Nat

VARIABLES
  device, profile, store,   \* status columns
  bindings,                 \* actor_profile_bindings
  grants,                   \* memory_access_grants
  ops,                      \* how much of MaxOps is used
  pc, req,                  \* the call under way: its step and its arguments
  sub,                      \* the binding it resolved
  todo,                     \* stores listed and not yet looked at
  auth,                     \* authorized_stores collected so far
  snap,                     \* the snapshot presented for validation
  answer,                   \* what the call returned or opened
  atStart, atResolve,       \* history: see the properties
  reactivated

control == <<device, profile, store, bindings, grants, ops>>
call == <<pc, req, sub, todo, auth, snap, answer>>
history == <<atStart, atResolve, reactivated>>
vars == <<control, call, history>>

Statuses == {"none", "active", "off"}
Windows == {w \in [from: Times, until: Times] : w.from < w.until}
Bindings == [actor: Actors, profile: Profiles, from: Times, until: Times, revoked: BOOLEAN]
GrantKeys == [grantee: Profiles, store: Stores, effect: Effects, from: Times]
Grants == [key: GrantKeys, until: Times, revoked: BOOLEAN]
Requests ==
  {r \in [kind: {"search", "snapshot"}, actor: Actors, effect: Effects, namespaces: Asked, at: Times] :
     r.kind = "search" => r.effect = "search"}
Admitted == [store: Stores, grants: SUBSET GrantKeys, until: Times]
Snapshots == [sub: 1..MaxBindings, auth: SUBSET Admitted]

ASSUME SentinelAssumption == None \notin Requests /\ None \notin Snapshots

Init ==
  /\ device = [d \in Devices |-> "active"]
  /\ profile = [p \in Profiles |-> IF p \in FirstProfiles THEN "active" ELSE "none"]
  /\ store = [s \in Stores |-> IF s \in FirstStores THEN "active" ELSE "none"]
  /\ bindings = <<>> /\ grants = {} /\ ops = 0
  /\ pc = "idle" /\ req = None /\ sub = 0
  /\ todo = {} /\ auth = {} /\ snap = None /\ answer = {}
  /\ atStart = None /\ atResolve = None /\ reactivated = FALSE

-----------------------------------------------------------------------------
\* The control plane.
Operation ==
  /\ ops < MaxOps /\ ops' = ops + 1
  /\ UNCHANGED <<call, atStart, atResolve>>

ProfileLive(p) == profile[p] = "active" /\ device[OwnerDevice[p]] = "active"

\* The joins over a store, its profile and its owner device.
StoreLive(s) == store[s] = "active" /\ ProfileLive(StoreProfile[s])

OperatorLive == device[OperatorDevice] = "active"

RegisterMemoryProfile(p) ==
  /\ Operation
  /\ device[OwnerDevice[p]] = "active"
  /\ profile[p] = "none"
  /\ profile' = [profile EXCEPT ![p] = "active"]
  /\ UNCHANGED <<device, store, bindings, grants, reactivated>>

RegisterMemoryStore(s) ==
  /\ Operation
  /\ ProfileLive(StoreProfile[s])
  /\ store[s] = "none"
  /\ store' = [store EXCEPT ![s] = "active"]
  /\ UNCHANGED <<device, profile, bindings, grants, reactivated>>

Reactivation(st) == reactivated' = (pc # "idle" /\ (reactivated \/ st = "active"))

\* The three status updates accept any change of a row that exists.
SetMemoryProfileStatus(p, st) ==
  /\ Operation
  /\ profile[p] # "none" /\ profile[p] # st
  /\ profile' = [profile EXCEPT ![p] = st]
  /\ Reactivation(st)
  /\ UNCHANGED <<device, store, bindings, grants>>

SetMemoryStoreStatus(s, st) ==
  /\ Operation
  /\ store[s] # "none" /\ store[s] # st
  /\ store' = [store EXCEPT ![s] = st]
  /\ Reactivation(st)
  /\ UNCHANGED <<device, profile, bindings, grants>>

SetDeviceStatus(d, st) ==
  /\ Operation
  /\ device[d] # st
  /\ device' = [device EXCEPT ![d] = st]
  /\ Reactivation(st)
  /\ UNCHANGED <<profile, store, bindings, grants>>

\* Mutant: the table has no UNIQUE key.
GrantAgain(key, until, revoked) ==
  /\ Operation
  /\ OperatorLive
  /\ StoreLive(key.store)
  /\ ProfileLive(key.grantee)
  /\ key.from < until
  /\ Cardinality(grants) < MaxGrants
  /\ grants' = grants \cup {[key |-> key, until |-> until, revoked |-> revoked]}
  /\ UNCHANGED <<device, profile, store, bindings, reactivated>>

\* A row with the same UNIQUE key, revoked or not, makes the INSERT fail.
GrantMemoryAccess(key, until, revoked) ==
  /\ Operation
  /\ OperatorLive
  /\ StoreLive(key.store)
  /\ ProfileLive(key.grantee)
  /\ key.from < until
  /\ \A g \in grants : g.key # key
  /\ Cardinality(grants) < MaxGrants
  /\ grants' = grants \cup {[key |-> key, until |-> until, revoked |-> revoked]}
  /\ UNCHANGED <<device, profile, store, bindings, reactivated>>

\* revoked_at is the caller's; the table refuses one before the window.
RevokeMemoryAccess(g, revokedAt) ==
  /\ Operation
  /\ g \in grants /\ ~g.revoked
  /\ revokedAt >= g.key.from
  /\ grants' = (grants \ {g}) \cup {[g EXCEPT !.revoked = TRUE]}
  /\ UNCHANGED <<device, profile, store, bindings, reactivated>>

Insert(a, p, w) ==
  bindings' = Append(bindings, [actor |-> a, profile |-> p, from |-> w.from,
                                until |-> w.until, revoked |-> FALSE])

MayBind(a, p) ==
  /\ Operation
  /\ OperatorLive
  /\ device[ActorDevice[a]] = "active"
  /\ ActorDevice[a] = OwnerDevice[p]
  /\ ProfileLive(p)
  /\ Len(bindings) < MaxBindings

\* Mutant: a binding is refused only when it starts inside another one.
BindFromInside(a, p, w) ==
  /\ MayBind(a, p)
  /\ \A n \in 1..Len(bindings) :
       LET b == bindings[n] IN
       ~(b.actor = a /\ ~b.revoked /\ b.from <= w.from /\ w.from < b.until)
  /\ Insert(a, p, w)
  /\ UNCHANGED <<device, profile, store, grants, reactivated>>

BindActorProfile(a, p, w) ==
  /\ MayBind(a, p)
  /\ \A n \in 1..Len(bindings) :
       LET b == bindings[n] IN
       ~(b.actor = a /\ ~b.revoked /\ b.from < w.until /\ b.until > w.from)
  /\ Insert(a, p, w)
  /\ UNCHANGED <<device, profile, store, grants, reactivated>>

RevokeActorProfileBinding(n, revokedAt) ==
  /\ Operation
  /\ n \in 1..Len(bindings) /\ ~bindings[n].revoked
  /\ revokedAt >= bindings[n].from
  /\ bindings' = [bindings EXCEPT ![n].revoked = TRUE]
  /\ UNCHANGED <<device, profile, store, grants, reactivated>>

ControlStep ==
  \/ \E p \in Profiles : RegisterMemoryProfile(p)
  \/ \E s \in Stores : RegisterMemoryStore(s)
  \/ \E p \in Profiles, st \in {"active", "off"} : SetMemoryProfileStatus(p, st)
  \/ \E s \in Stores, st \in {"active", "off"} : SetMemoryStoreStatus(s, st)
  \/ \E d \in Devices, st \in {"active", "off"} : SetDeviceStatus(d, st)
  \/ \E key \in GrantKeys, until \in Times, r \in BOOLEAN : GrantMemoryAccess(key, until, r)
  \/ \E g \in grants, t \in Times : RevokeMemoryAccess(g, t)
  \/ \E a \in Actors, p \in Profiles, w \in Windows : BindActorProfile(a, p, w)
  \/ \E n \in 1..MaxBindings, t \in Times : RevokeActorProfileBinding(n, t)

-----------------------------------------------------------------------------
\* The decision, as PoolStore::authorize_memory_access takes it in one section.

\* Mutant: a revoked grant still admits.
AllowsRevoked(g, e, at) == g.key.effect = e /\ g.key.from <= at /\ at < g.until

\* MemoryAccessGrant::allows.  A grant has its store's namespace: grants are
\* issued so, and a store's namespace never changes.
Allows(g, e, at) == ~g.revoked /\ g.key.effect = e /\ g.key.from <= at /\ at < g.until

GrantsOf(p, s) == {g \in grants : g.key.grantee = p /\ g.key.store = s}

\* The pure decision on what was read.
Decide(p, s, gs, e, at) == StoreProfile[s] = p \/ \E g \in gs : Allows(g, e, at)

AuthorizeMemoryAccess(p, s, e, at) ==
  ProfileLive(p) /\ StoreLive(s) /\ Decide(p, s, GrantsOf(p, s), e, at)

\* The rows resolve_actor_profile selects.
InForce(a, at) ==
  {n \in 1..Len(bindings) : /\ bindings[n].actor = a /\ ~bindings[n].revoked
                            /\ bindings[n].from <= at /\ at < bindings[n].until}

\* The row it accepts: the only one, with its actor, profile and device intact.
\* (bind_actor_profile made the actor's device the profile's owner.)
Resolves(a, at, n) == InForce(a, at) = {n} /\ ProfileLive(bindings[n].profile)

-----------------------------------------------------------------------------
\* The calls.
Goto(step) == pc' = step

\* What has been revoked so far.
Revoked ==
  [bindings |-> {n \in 1..Len(bindings) : bindings[n].revoked},
   grants |-> {g.key : g \in {h \in grants : h.revoked}}]

\* routed_search_for_profile, or a caller's build_authorization_snapshot.
Begin(r) ==
  /\ pc = "idle"
  /\ req' = r /\ Goto("resolve")
  /\ atStart' = Revoked
  /\ UNCHANGED <<control, sub, todo, auth, snap, answer, atResolve, reactivated>>

\* The call returns, with an answer or an error.
Return ==
  /\ pc' = "idle" /\ req' = None /\ sub' = 0
  /\ todo' = {} /\ auth' = {} /\ snap' = None /\ answer' = {}
  /\ atStart' = None /\ atResolve' = None /\ reactivated' = FALSE
  /\ UNCHANGED control

ResolveActorProfile ==
  /\ pc = "resolve"
  /\ \E n \in 1..Len(bindings) : Resolves(req.actor, req.at, n) /\ sub' = n
  /\ Goto("stores")
  /\ atResolve' = [authority |-> {s \in Stores : Decide(bindings[sub'].profile, s,
                                     GrantsOf(bindings[sub'].profile, s), req.effect, req.at)},
                   decision |-> {s \in Stores : AuthorizeMemoryAccess(bindings[sub'].profile, s,
                                     req.effect, req.at)}]
  /\ UNCHANGED <<control, req, todo, auth, snap, answer, atStart, reactivated>>

\* Mutant: the join over the owner profile and device is left out.
ListStoresAnyOwner ==
  /\ pc = "stores"
  /\ todo' = {s \in Stores : /\ store[s] = "active"
                             /\ req.namespaces = {} \/ NamespaceOf[s] \in req.namespaces}
  /\ auth' = {}
  /\ Goto("grants")
  /\ UNCHANGED <<control, req, sub, snap, answer, history>>

ListStores ==
  /\ pc = "stores"
  /\ todo' = {s \in Stores : /\ StoreLive(s)
                             /\ req.namespaces = {} \/ NamespaceOf[s] \in req.namespaces}
  /\ auth' = {}
  /\ Goto("grants")
  /\ UNCHANGED <<control, req, sub, snap, answer, history>>

\* Mutant: the binding's own expiry is left out of the minimum.
EarliestGrant(gs, n) == IF gs = {} THEN bindings[n].until ELSE Min({g.until : g \in gs})

\* authorization_expires_at.
ExpiresAt(gs, n) == Min({g.until : g \in gs} \cup {bindings[n].until})

\* The next store in the order of its id: memory_grants_for_profile_store and
\* the decision.
ReadGrants ==
  \E s \in todo :
    LET p == bindings[sub].profile
        allowing == {g \in GrantsOf(p, s) : Allows(g, req.effect, req.at)}
    IN
    /\ pc = "grants"
    /\ \A t \in todo : s <= t
    /\ todo' = todo \ {s}
    /\ auth' = IF Decide(p, s, GrantsOf(p, s), req.effect, req.at)
                 THEN auth \cup {[store |-> s, grants |-> {g.key : g \in allowing},
                                  until |-> ExpiresAt(allowing, sub)]}
                 ELSE auth
    /\ UNCHANGED <<control, pc, req, sub, snap, answer, history>>

\* The snapshot is complete.  A search goes on with its stores; another caller
\* holds it for as long as it likes, and is then back here with a second one.
Built ==
  /\ pc = "grants" /\ todo = {} /\ snap = None
  /\ \/ req.kind = "search" /\ Goto("open") /\ todo' = {x.store : x \in auth} /\ UNCHANGED snap
     \/ req.kind = "snapshot" /\ Goto("held") /\ snap' = [sub |-> sub, auth |-> auth] /\ UNCHANGED todo
  /\ UNCHANGED <<control, req, sub, auth, answer, history>>

\* issue_memory_access_permit and list_authorized_stores validate first: a
\* snapshot is built again with the same arguments.
Present ==
  /\ pc = "held"
  /\ Goto("resolve")
  /\ atStart' = Revoked
  /\ UNCHANGED <<control, req, sub, todo, auth, snap, answer, atResolve, reactivated>>

\* Mutant: only the subject of the two snapshots is compared.
SameSubject == sub = snap.sub

\* The digest covers the subject and each store with its grants and expiry.
SameDigest == sub = snap.sub /\ auth = snap.auth

\* list_authorized_stores returns the snapshot's stores.
ListAuthorizedStores ==
  /\ pc = "grants" /\ todo = {} /\ snap # None
  /\ SameDigest
  /\ Goto("listed")
  /\ answer' = {[store |-> x.store, grants |-> x.grants, until |-> x.until] : x \in snap.auth}
  /\ UNCHANGED <<control, req, sub, todo, auth, snap, history>>

\* issue_memory_access_permit for one of them.
IssueMemoryAccessPermit ==
  /\ pc = "grants" /\ todo = {} /\ snap # None
  /\ SameDigest
  /\ \E x \in snap.auth :
       LET expires == Min({x.until, req.at + PermitTtl}) IN
       /\ expires > req.at
       /\ answer' = {[store |-> x.store, grants |-> x.grants, until |-> expires]}
  /\ Goto("issued")
  /\ UNCHANGED <<control, req, sub, todo, auth, snap, history>>

\* routed_search_for_profile, the next store: profile_store_memory reads its
\* status again and opens it; an error is an outcome, and the search goes on.
OpenStore ==
  \E s \in todo :
    /\ pc = "open"
    /\ \A t \in todo : s <= t
    /\ todo' = todo \ {s}
    /\ answer' = IF StoreLive(s) THEN answer \cup {x \in auth : x.store = s} ELSE answer
    /\ UNCHANGED <<control, pc, req, sub, auth, snap, history>>

\* Opening or searching an active store may fail.
OpenFails ==
  \E s \in todo :
    /\ pc = "open"
    /\ \A t \in todo : s <= t
    /\ todo' = todo \ {s}
    /\ UNCHANGED <<control, pc, req, sub, auth, snap, answer, history>>

CallStep ==
  \/ \E r \in Requests : Begin(r)
  \/ ResolveActorProfile \/ ListStores \/ ReadGrants \/ Built
  \/ Present \/ ListAuthorizedStores \/ IssueMemoryAccessPermit
  \/ OpenStore \/ OpenFails
  \/ pc # "idle" /\ Return

Next == ControlStep \/ CallStep

Spec == Init /\ [][Next]_vars

-----------------------------------------------------------------------------
\* Types, and the UNIQUE key of memory_access_grants.
TypeOK ==
  /\ device \in [Devices -> {"active", "off"}]
  /\ profile \in [Profiles -> Statuses]
  /\ store \in [Stores -> Statuses]
  /\ bindings \in Seq(Bindings)
  /\ grants \subseteq Grants
  /\ \A g, h \in grants : g.key = h.key => g = h
  /\ ops \in 0..MaxOps
  /\ pc \in {"idle", "resolve", "stores", "grants", "held", "listed", "issued", "open"}
  /\ req \in Requests \cup {None}
  /\ sub \in 0..MaxBindings
  /\ todo \subseteq Stores
  /\ auth \subseteq Admitted
  /\ snap \in Snapshots \cup {None}
  /\ \A x \in answer : x.store \in Stores /\ x.grants \subseteq GrantKeys /\ x.until \in Nat

\* At no instant are two bindings of one actor in force, after any sequence of
\* bind and revoke: resolve_actor_profile never answers "multiple active
\* bindings", which would lock the actor out until an operator steps in.
OneBindingInForce ==
  \A a \in Actors, t \in Times : \A m, n \in InForce(a, t) : m = n

\* The inductive form: the windows of an actor's standing bindings are disjoint.
DisjointWindows ==
  \A m, n \in 1..Len(bindings) :
    LET b == bindings[m]  c == bindings[n] IN
    m # n /\ b.actor = c.actor /\ ~b.revoked /\ ~c.revoked =>
      b.until <= c.from \/ c.until <= b.from

BindingInv == bindings \in Seq(Bindings) /\ DisjointWindows

Vouched == pc \in {"issued", "listed"}

\* What a permit or a validated list admits, the actor's binding and the grants
\* (or ownership) entitled it to at one instant of the call: the second reading
\* of the binding.  The snapshot, the validation and their sections may lie
\* apart, with revocations, new grants and new bindings in between.  If nothing
\* was set back to active meanwhile, the one-section decision
\* authorize_memory_access would have admitted the store at that instant, the
\* life cycle of store, owner profile and devices included.
PermitLinearizes ==
  Vouched => \A x \in answer :
    /\ x.store \in atResolve.authority
    /\ ~reactivated => x.store \in atResolve.decision

\* For as long as a permit lasts, the window of the binding and of a grant it
\* rests on (or ownership) last too, and it lasts at most PermitTtl: "it cannot
\* exceed the snapshot that produced it".
PermitWithinWindows ==
  \A x \in answer : Vouched =>
    /\ x.until > req.at
    /\ pc = "issued" => x.until <= req.at + PermitTtl
    /\ \A t \in Times : req.at <= t /\ t < x.until =>
         /\ bindings[sub].from <= t /\ t < bindings[sub].until
         /\ \/ StoreProfile[x.store] = bindings[sub].profile
            \/ \E g \in grants : g.key \in x.grants /\ g.key.from <= t /\ t < g.until

\* A revocation that was complete when the call began is respected by it: no
\* store is opened, listed or permitted on a binding or a grant revoked before.
\* (For a permit the call is its own, however old the snapshot.)
RevocationRespected ==
  \A x \in answer : sub \notin atStart.bindings /\ x.grants \cap atStart.grants = {}
-----------------------------------------------------------------------------
\* The inductive invariant of the calls.  Where a call is says what it has:
Read == {"grants", "held", "listed", "issued", "open"}   \* it has looked at grants
Resolved == {"stores"} \cup Read

CallInv ==
  /\ Len(bindings) <= MaxBindings
  /\ pc = "idle" => snap = None /\ auth = {}
  /\ pc # "idle" => req \in Requests
  /\ pc \in Resolved => /\ sub \in 1..Len(bindings)
                       /\ bindings[sub].from <= req.at /\ req.at < bindings[sub].until
  /\ snap # None => snap.sub \in 1..Len(bindings)
  /\ pc = "held" => snap # None
  /\ answer # {} => pc \in {"listed", "issued", "open"}

\* a store is in a snapshot for its owner, or for grants of the reader that were
\* valid and that outlast it, as the binding does;
Backed(x, n) ==
  /\ x.grants = {} => StoreProfile[x.store] = bindings[n].profile
  /\ x.until <= bindings[n].until /\ req.at < x.until
  /\ \A k \in x.grants :
       /\ k.grantee = bindings[n].profile /\ k.store = x.store
       /\ k.effect = req.effect /\ k.from <= req.at
       /\ \E g \in grants : g.key = k /\ x.until <= g.until

BackedInv ==
  /\ pc \in Read => \A x \in auth : Backed(x, sub)
  /\ snap # None => \A x \in snap.auth : Backed(x, snap.sub)

\* what a call answers with comes from its snapshot, which a validation found again;
AnswerInv ==
  /\ Vouched => /\ snap # None /\ sub = snap.sub /\ auth = snap.auth
                /\ \A a \in answer : \E x \in auth :
                     /\ a.store = x.store /\ a.grants = x.grants
                     /\ req.at < a.until /\ a.until <= x.until
                     /\ pc = "issued" => a.until <= req.at + PermitTtl
  /\ pc = "open" => answer \subseteq auth

\* what was revoked when the call began still is, and is not used;
RevokedInv ==
  /\ pc # "idle" => atStart.bindings \subseteq Revoked.bindings /\ atStart.grants \subseteq Revoked.grants
  /\ pc \in Resolved => sub \notin atStart.bindings
  /\ pc \in Read => \A x \in auth : x.grants \cap atStart.grants = {}

\* and since the second reading of the binding, for the stores of the snapshot:
\* one whose grants are not revoked was authorized then, and one that is live
\* without a reactivation was live then.
Unrevoked(x) == x.grants = {} \/ \E g \in grants : g.key \in x.grants /\ ~g.revoked
Registered(s) == store[s] # "none" /\ profile[StoreProfile[s]] # "none"

RegisteredInv ==
  /\ pc = "grants" => \A s \in todo : Registered(s)
  /\ pc = "grants" => \A x \in auth : Registered(x.store)
  /\ snap # None => \A x \in snap.auth : Registered(x.store)

ReadAgain == snap # None /\ sub = snap.sub

DecidedThen(s) == ~reactivated /\ s \in atResolve.authority => s \in atResolve.decision

LinearInv ==
  ReadAgain =>
    /\ pc \in {"stores", "grants"} => \A x \in snap.auth : Unrevoked(x) => x.store \in atResolve.authority
    /\ pc = "stores" => \A x \in snap.auth : StoreLive(x.store) => DecidedThen(x.store)
    /\ pc = "grants" => \A x \in snap.auth : x.store \in todo => DecidedThen(x.store)
    /\ pc \in {"grants", "listed", "issued"} =>
         \A x \in auth \cap snap.auth : x.store \in atResolve.authority /\ DecidedThen(x.store)

IInv == TypeOK /\ BindingInv /\ CallInv /\ BackedInv /\ AnswerInv /\ RevokedInv
        /\ RegisteredInv /\ LinearInv
=============================================================================
