--------------------------- MODULE DeviceRegistry ---------------------------
(***************************************************************************)
(* The registry of devices, credentials and actors, and the requests that  *)
(* change it: the routes under /v1/devices and /v1/actors, where a device  *)
(* speaks for itself, and the MCP tools, where an operator speaks for any  *)
(* device.  A handler authenticates in one section of the connection's     *)
(* mutex and acts in a later one, so two requests of one device, or of a   *)
(* device and its operator, pass each other.                               *)
(*                                                                         *)
(* A token is a device and a secret drawn at random, and a fingerprint is  *)
(* the secret it was made of.  Times, labels and audit rows decide nothing *)
(* and are left out, and so are requests with a token or an actor that     *)
(* were never given to anybody: they are refused.                          *)
(*                                                                         *)
(* Definitions marked "Mutant" are faulty variants of the definition after *)
(* them: they are in no specification, and show that a property can fail.  *)
(***************************************************************************)
EXTENDS Integers, FiniteSets

CONSTANTS
  Devices, ActorIds, Secrets,   \* bounds: what the random generators can draw
  Tasks,                        \* bound: requests under way together
  Before,           \* devices an older release may have left in the database
  SecretSet,        \* the server runs with BOOTSTRAP_SECRET
  MaxRequests,      \* bound: requests
  MaxDisturb,       \* bound: failures
  None

ASSUME RegistryAssumption ==
  /\ Before \subseteq Devices /\ SecretSet \in BOOLEAN
  /\ MaxRequests \in Nat /\ MaxDisturb \in Nat

Statuses == {"active", "revoked", "quarantined"}
Token == [device: Devices, secret: Secrets]
Actor == [id: ActorIds, device: Devices, operator: BOOLEAN]

HttpOps == {"heartbeat", "rotate", "revoke", "quarantine", "register_actor"}
OperatorOps == {"register_device", "rotate", "revoke", "register_actor"}

\* A registration over HTTP has neither token nor target; over HTTP a device
\* speaks for itself, or is refused.
Request ==
  [op: {"register_device"}, token: {None}, actor: {None}, target: {None}]
    \cup {r \in [op: HttpOps, token: Token, actor: {None}, target: Devices] :
            r.target = r.token.device}
    \cup [op: OperatorOps \cup {"heartbeat"}, token: Token, actor: ActorIds, target: Devices]

Task == [request: Request,
         barred: BOOLEAN,                   \* history: not entitled at its arrival
         pc: {"authenticate", "actor", "execute", "answer"},
         fresh: Token \cup {None}]          \* the credential its answer will hold

ASSUME SentinelAssumption ==
  None \notin Devices \cup ActorIds \cup Secrets \cup Token \cup Task \cup Statuses

VARIABLES
  status, credential,   \* devices.status and credential_fingerprint; None without a row
  shard,                \* device_shards.state; None without a row
  actors,               \* actors
  task,                 \* requests under way
  drawn,                \* secrets that were drawn
  handed,               \* history: tokens that were answered to somebody
  lost,                 \* history: tokens whose answer was lost
  arrived, disturb      \* how much of MaxRequests and of MaxDisturb is used

registry == <<status, credential, shard, drawn>>
history  == <<handed, lost>>
bounds == <<arrived, disturb>>
vars == <<registry, actors, task, history, bounds>>

Registered == {d \in Devices : status[d] # None}
TokenOf(d) == [device |-> d, secret |-> credential[d]]
Valid(k) == status[k.device] = "active" /\ credential[k.device] = k.secret

\* Without a secret, registration over HTTP is open while there is no device.
Entitled(r) == IF r.token = None THEN SecretSet \/ Registered = {} ELSE Valid(r.token)

\* An empty registry, or that of an older release with an operator, to which
\* MnemesStore::open has added the catalog rows.
Init ==
  \E old \in {{}, Before} :
    /\ status \in [Devices -> Statuses \cup {None}]
    /\ \A d \in Devices : status[d] # None <=> d \in old
    /\ credential \in [Devices -> Secrets \cup {None}]
    /\ \A d \in Devices : credential[d] # None <=> d \in old
    /\ \A d, e \in old : credential[d] = credential[e] => d = e
    /\ shard = status
    /\ actors \in SUBSET [id: ActorIds, device: old, operator: {TRUE}]
    /\ Cardinality(actors) = Cardinality(old)
    /\ \A a, b \in actors : a.id = b.id => a = b
    /\ task = [t \in Tasks |-> None]
    /\ drawn = {credential[d] : d \in old}
    /\ handed = {TokenOf(d) : d \in old}
    /\ lost = {}
    /\ arrived = 0 /\ disturb = 0

-----------------------------------------------------------------------------
Arrive(t, r) ==
  /\ task[t] = None
  /\ arrived < MaxRequests /\ arrived' = arrived + 1
  /\ task' = [task EXCEPT ![t] =
       [request |-> r, barred |-> ~Entitled(r),
        pc |-> "authenticate", fresh |-> None]]
  /\ UNCHANGED <<registry, actors, history, disturb>>

At(t, pc) == task[t] # None /\ task[t].pc = pc
Advance(t, pc) == task' = [task EXCEPT ![t].pc = pc]
Done(t) == task' = [task EXCEPT ![t] = None]
AnswerWith(t, token) == task' = [task EXCEPT ![t].pc = "answer", ![t].fresh = token]

\* The status and the fingerprint are read in one section.  get_device reads the
\* row again afterwards: of that, only the id is used.  A request that is refused
\* changes nothing.
Authenticate(t) ==
  LET r == task[t].request IN
  /\ At(t, "authenticate")
  /\ r.token # None
  /\ IF ~Entitled(r) THEN Done(t)
     ELSE Advance(t, IF r.actor = None THEN "execute" ELSE "actor")
  /\ UNCHANGED <<registry, actors, history, bounds>>

\* The actor is the device's own.  A heartbeat is for its own device only, whoever
\* the actor is; the other tools are the operator's.
AuthorizeActor(t) ==
  LET r == task[t].request IN
  /\ At(t, "actor")
  /\ IF \E a \in actors :
          /\ a.id = r.actor /\ a.device = r.token.device
          /\ IF r.op = "heartbeat" THEN r.target = r.token.device ELSE a.operator
       THEN Advance(t, "execute") ELSE Done(t)
  /\ UNCHANGED <<registry, actors, history, bounds>>

\* register_device_handler: without a secret the devices are counted here, and
\* the device is inserted in another section.
AuthorizeRegistration(t) ==
  /\ At(t, "authenticate")
  /\ task[t].request.token = None
  /\ IF Entitled(task[t].request) THEN Advance(t, "execute") ELSE Done(t)
  /\ UNCHANGED <<registry, actors, history, bounds>>

-----------------------------------------------------------------------------
\* Device row and catalog row in one transaction.
Insert(d, secret) ==
  /\ status[d] = None /\ secret \notin drawn
  /\ status' = [status EXCEPT ![d] = "active"]
  /\ shard' = [shard EXCEPT ![d] = IF @ = None THEN "active" ELSE @]
  /\ credential' = [credential EXCEPT ![d] = secret]
  /\ drawn' = drawn \cup {secret}

RegisterDevice(t) ==
  /\ At(t, "execute") /\ task[t].request.op = "register_device"
  /\ \E d \in Devices, secret \in Secrets :
       /\ Insert(d, secret)
       /\ AnswerWith(t, [device |-> d, secret |-> secret])
  /\ UNCHANGED <<actors, history, bounds>>

\* Mutant: the row is written before the status is looked at.
RotateThenRefuse(t) ==
  LET d == task[t].request.target IN
  /\ At(t, "execute") /\ task[t].request.op = "rotate"
  /\ \E secret \in Secrets \ drawn :
       IF status[d] = None
         THEN Done(t) /\ UNCHANGED registry
         ELSE /\ credential' = [credential EXCEPT ![d] = secret]
              /\ drawn' = drawn \cup {secret}
              /\ IF status[d] = "active"
                   THEN AnswerWith(t, [device |-> d, secret |-> secret]) ELSE Done(t)
              /\ UNCHANGED <<status, shard>>
  /\ UNCHANGED <<actors, history, bounds>>

\* Whatever the status of the device.
RotateDeviceCredential(t) ==
  LET d == task[t].request.target IN
  /\ At(t, "execute") /\ task[t].request.op = "rotate"
  /\ \E secret \in Secrets \ drawn :
       IF status[d] = None
         THEN Done(t) /\ UNCHANGED registry
         ELSE /\ credential' = [credential EXCEPT ![d] = secret]
              /\ drawn' = drawn \cup {secret}
              /\ AnswerWith(t, [device |-> d, secret |-> secret])
              /\ UNCHANGED <<status, shard>>
  /\ UNCHANGED <<actors, history, bounds>>

NewStatus(op) == IF op = "revoke" THEN "revoked" ELSE "quarantined"

\* Mutant: the catalog is not told.
SetStatusOnly(t) ==
  LET r == task[t].request IN
  /\ At(t, "execute") /\ r.op \in {"revoke", "quarantine"}
  /\ IF status[r.target] = None
       THEN Done(t) /\ UNCHANGED status
       ELSE /\ status' = [status EXCEPT ![r.target] = NewStatus(r.op)]
            /\ Advance(t, "answer")
  /\ UNCHANGED <<credential, shard, drawn, actors, history, bounds>>

\* Whatever the status was before.
SetDeviceStatus(t) ==
  LET r == task[t].request IN
  /\ At(t, "execute") /\ r.op \in {"revoke", "quarantine"}
  /\ IF status[r.target] = None
       THEN Done(t) /\ UNCHANGED <<status, shard>>
       ELSE /\ status' = [status EXCEPT ![r.target] = NewStatus(r.op)]
            /\ shard' = [shard EXCEPT ![r.target] = IF @ = None THEN @ ELSE NewStatus(r.op)]
            /\ Advance(t, "answer")
  /\ UNCHANGED <<credential, drawn, actors, history, bounds>>

\* Mutant: a device that gives a sign of life is active.
HeartbeatReactivates(t) ==
  LET d == task[t].request.target IN
  /\ At(t, "execute") /\ task[t].request.op = "heartbeat"
  /\ status' = [status EXCEPT ![d] = "active"]
  /\ shard' = [shard EXCEPT ![d] = "active"]
  /\ Advance(t, "answer")
  /\ UNCHANGED <<credential, drawn, actors, history, bounds>>

HeartbeatDevice(t) ==
  /\ At(t, "execute") /\ task[t].request.op = "heartbeat"
  /\ IF status[task[t].request.target] = "active" THEN Advance(t, "answer") ELSE Done(t)
  /\ UNCHANGED <<registry, actors, history, bounds>>

\* Mutant: the table does not refer to the devices.
RegisterActorAnywhere(t) ==
  LET d == task[t].request.target IN
  /\ At(t, "execute") /\ task[t].request.op = "register_actor"
  /\ \E i \in ActorIds \ {a.id : a \in actors}, operator \in BOOLEAN :
       actors' = actors \cup {[id |-> i, device |-> d, operator |-> operator]}
  /\ Advance(t, "answer")
  /\ UNCHANGED <<registry, history, bounds>>

RegisterActor(t) ==
  LET d == task[t].request.target IN
  /\ At(t, "execute") /\ task[t].request.op = "register_actor"
  /\ IF status[d] = None
       THEN Done(t) /\ UNCHANGED actors
       ELSE /\ \E i \in ActorIds \ {a.id : a \in actors}, operator \in BOOLEAN :
                 actors' = actors \cup {[id |-> i, device |-> d, operator |-> operator]}
            /\ Advance(t, "answer")
  /\ UNCHANGED <<registry, history, bounds>>

\* The audit row is written, and the answer reaches the caller.
Answer(t) ==
  /\ At(t, "answer")
  /\ handed' = handed \cup ({task[t].fresh} \ {None})
  /\ Done(t)
  /\ UNCHANGED <<registry, actors, lost, bounds>>

-----------------------------------------------------------------------------
Disturb == disturb < MaxDisturb /\ disturb' = disturb + 1 /\ UNCHANGED arrived

\* An error, a closed connection, or an answer that does not arrive.
RequestFails(t) ==
  /\ Disturb
  /\ task[t] # None
  /\ lost' = lost \cup ({task[t].fresh} \ {None})
  /\ Done(t)
  /\ UNCHANGED <<registry, actors, handed>>

\* The server dies and opens the store again.
ServerCrash ==
  /\ Disturb
  /\ \E t \in Tasks : task[t] # None
  /\ lost' = lost \cup ({task[t].fresh : t \in {u \in Tasks : task[u] # None}} \ {None})
  /\ task' = [t \in Tasks |-> None]
  /\ UNCHANGED <<registry, actors, handed>>

\* mnemes-admin bootstrap, in a process of its own: the count and the rows are one
\* transaction.  It may die before the credential is printed.
Bootstrap ==
  /\ Registered = {}
  /\ \E d \in Devices, secret \in Secrets, i \in ActorIds \ {a.id : a \in actors} :
       LET token == [device |-> d, secret |-> secret] IN
       /\ Insert(d, secret)
       /\ actors' = actors \cup {[id |-> i, device |-> d, operator |-> TRUE]}
       /\ \/ handed' = handed \cup {token} /\ UNCHANGED <<lost, bounds>>
          \/ Disturb /\ lost' = lost \cup {token} /\ UNCHANGED handed
  /\ UNCHANGED task

Requests == {r \in Request : /\ r.token \in handed \cup {None}
                            /\ r.actor \in {a.id : a \in actors} \cup {None}}

Next ==
  \/ Bootstrap
  \/ ServerCrash
  \/ \E t \in Tasks :
       \/ \E r \in Requests : Arrive(t, r)
       \/ Authenticate(t)
       \/ AuthorizeActor(t)
       \/ AuthorizeRegistration(t)
       \/ RegisterDevice(t)
       \/ RotateDeviceCredential(t)
       \/ SetDeviceStatus(t)
       \/ HeartbeatDevice(t)
       \/ RegisterActor(t)
       \/ Answer(t)
       \/ RequestFails(t)

Spec == Init /\ [][Next]_vars
-----------------------------------------------------------------------------
TypeOK ==
  /\ status \in [Devices -> Statuses \cup {None}]
  /\ credential \in [Devices -> Secrets \cup {None}]
  /\ shard \in [Devices -> Statuses \cup {None}]
  /\ actors \subseteq Actor
  /\ task \in [Tasks -> Task \cup {None}]
  /\ drawn \subseteq Secrets /\ handed \subseteq Token /\ lost \subseteq Token
  /\ arrived \in 0..MaxRequests /\ disturb \in 0..MaxDisturb
  /\ \A a \in actors : a.device \in Registered
  /\ \A a, b \in actors : a.id = b.id => a = b

\* docs/DEVICE_SHARDED_MEMORY.md: registration creates one catalog row, older
\* devices get theirs when the store is opened, and a change of state changes
\* both.  So no search is let to a shard by a row that the device's status denies.
CatalogMirrorsDevices == shard = status

\* docs/PHASE4_OPERATIONS.md: "verify the old credential receives 401/403", and
\* README.md: "registration is closed".  A request that is not entitled when it
\* arrives gets nowhere, whatever else is under way: neither a token that was
\* replaced, nor a device that was set aside, nor an open registration comes back.
\* What had arrived before may still act.
LostForGood ==
  \A t \in Tasks : task[t] # None /\ task[t].pc # "authenticate" => ~task[t].barred

\* The credential that the registry accepts for a device is in somebody's hands,
\* or will be with the answer under way: of rotations that pass each other the last
\* to write is answered too.  Only an answer that is lost locks a device out.
CredentialIsHeld ==
  \A d \in Registered :
    \/ TokenOf(d) \in handed \cup lost
    \/ \E t \in Tasks : task[t] # None /\ task[t].fresh = TokenOf(d)

-----------------------------------------------------------------------------
\* The inductive invariant: a device has a secret exactly when it has a row, and
\* every secret in use, handed out or on its way was drawn, so that the next one
\* is another;
RegistryInv ==
  /\ \A d \in Devices : status[d] = None <=> credential[d] = None
  /\ \A d \in Registered : credential[d] \in drawn
  /\ \A k \in handed : k.secret \in drawn

\* a new credential waits for the answer only; and a request that was not
\* entitled when it arrived still is not, and has not been authenticated.
TaskInv ==
  \A t \in Tasks : task[t] # None =>
    /\ task[t].request.token # None => task[t].request.token.secret \in drawn
    /\ task[t].fresh # None => task[t].pc = "answer" /\ task[t].fresh.secret \in drawn
    /\ task[t].barred => task[t].pc = "authenticate" /\ ~Entitled(task[t].request)

IInv == TypeOK /\ CatalogMirrorsDevices /\ RegistryInv /\ TaskInv /\ CredentialIsHeld
=============================================================================
