------------------------ MODULE DeviceRegistryProofs ------------------------
(***************************************************************************)
(* Proofs about DeviceRegistry, for every value of its constants.          *)
(***************************************************************************)
EXTENDS DeviceRegistry, TLAPS

Steps == {"authenticate", "actor", "execute", "answer"}

\* Only the registration over HTTP comes without a token; every other request
\* has the device it is about.
LEMMA RequestType ==
  ASSUME NEW r \in Request
  PROVE  /\ r.token \in Token \cup {None}
         /\ r.token = None => r.op = "register_device"
         /\ r.op # "register_device" => r.target \in Devices
  <1>1. CASE r \in [op: {"register_device"}, token: {None}, actor: {None}, target: {None}]
    BY <1>1
  <1>2. CASE r \in [op: HttpOps, token: Token, actor: {None}, target: Devices]
    BY <1>2, SentinelAssumption
  <1>3. CASE r \in [op: OperatorOps \cup {"heartbeat"}, token: Token, actor: ActorIds,
                    target: Devices]
    BY <1>3, SentinelAssumption
  <1> QED
    BY <1>1, <1>2, <1>3 DEF Request

-----------------------------------------------------------------------------
\* How the steps change the tasks.
LEMMA AdvanceTask ==
  ASSUME TypeOK, NEW t \in Tasks, task[t] # None, NEW pc \in Steps, Advance(t, pc)
  PROVE  /\ task' \in [Tasks -> Task \cup {None}]
         /\ \A u \in Tasks \ {t} : task'[u] = task[u]
         /\ task'[t] # None
         /\ task'[t].request = task[t].request /\ task'[t].barred = task[t].barred
         /\ task'[t].fresh = task[t].fresh /\ task'[t].pc = pc
  <1>1. task[t] \in Task
    BY DEF TypeOK
  <1>2. task'[t] = [task[t] EXCEPT !.pc = pc] /\ \A u \in Tasks \ {t} : task'[u] = task[u]
    BY DEF Advance, TypeOK
  <1>3. [task[t] EXCEPT !.pc = pc] \in Task
    BY <1>1 DEF Task, Steps
  <1>4. task' \in [Tasks -> Task \cup {None}]
    BY <1>3 DEF Advance, TypeOK
  <1> QED
    BY <1>1, <1>2, <1>3, <1>4, SentinelAssumption DEF Task

LEMMA AnswerTask ==
  ASSUME TypeOK, NEW t \in Tasks, task[t] # None, NEW k \in Token, AnswerWith(t, k)
  PROVE  /\ task' \in [Tasks -> Task \cup {None}]
         /\ \A u \in Tasks \ {t} : task'[u] = task[u]
         /\ task'[t] # None
         /\ task'[t].request = task[t].request /\ task'[t].barred = task[t].barred
         /\ task'[t].fresh = k /\ task'[t].pc = "answer"
  <1> DEFINE new == [[task[t] EXCEPT !.pc = "answer"] EXCEPT !.fresh = k]
  <1>1. task[t] \in Task
    BY DEF TypeOK
  <1>2. task'[t] = new /\ \A u \in Tasks \ {t} : task'[u] = task[u]
    BY DEF AnswerWith, TypeOK
  <1>3. new \in Task
    BY <1>1 DEF Task
  <1>4. task' \in [Tasks -> Task \cup {None}]
    BY <1>2, <1>3 DEF AnswerWith, TypeOK
  <1> QED
    BY <1>1, <1>2, <1>3, <1>4, SentinelAssumption DEF Task

LEMMA DoneTask ==
  ASSUME TypeOK, NEW t \in Tasks, Done(t)
  PROVE  /\ task' \in [Tasks -> Task \cup {None}]
         /\ \A u \in Tasks \ {t} : task'[u] = task[u]
         /\ task'[t] = None
  BY DEF Done, TypeOK

-----------------------------------------------------------------------------
\* The registry has three writers: a new device, a new secret of a known one, and
\* a known device that is set aside.
Rotated(d, secret) ==
  /\ status[d] # None /\ secret \notin drawn
  /\ credential' = [credential EXCEPT ![d] = secret]
  /\ drawn' = drawn \cup {secret}
  /\ UNCHANGED <<status, shard>>

SetAside(d, st) ==
  /\ status[d] # None
  /\ status' = [status EXCEPT ![d] = st]
  /\ shard' = [shard EXCEPT ![d] = IF @ = None THEN @ ELSE st]
  /\ UNCHANGED <<credential, drawn>>

LEMMA TargetType ==
  ASSUME TypeOK, NEW t \in Tasks, At(t, "execute"), task[t].request.op # "register_device"
  PROVE  task[t].request.target \in Devices
  <1>1. task[t].request \in Request
    BY DEF TypeOK, Task, At
  <1> QED
    BY <1>1, RequestType

LEMMA RegistryWriters ==
  ASSUME TypeOK, [Next]_vars
  PROVE  \/ UNCHANGED registry
         \/ \E d \in Devices, secret \in Secrets : Insert(d, secret)
         \/ \E d \in Devices, secret \in Secrets : Rotated(d, secret)
         \/ \E d \in Devices, st \in {"revoked", "quarantined"} : SetAside(d, st)
  <1>1. CASE UNCHANGED vars
    BY <1>1 DEF vars
  <1>2. CASE Bootstrap
    BY <1>2 DEF Bootstrap
  <1>3. CASE ServerCrash
    BY <1>3 DEF ServerCrash
  <1>4. ASSUME NEW t \in Tasks,
               \/ \E r \in Requests : Arrive(t, r)
               \/ Authenticate(t) \/ AuthorizeActor(t) \/ AuthorizeRegistration(t)
               \/ HeartbeatDevice(t) \/ RegisterActor(t) \/ Answer(t) \/ RequestFails(t)
        PROVE  UNCHANGED registry
    BY <1>4 DEF Arrive, Authenticate, AuthorizeActor, AuthorizeRegistration, HeartbeatDevice,
         RegisterActor, Answer, RequestFails
  <1>5. ASSUME NEW t \in Tasks, RegisterDevice(t)
        PROVE  \E d \in Devices, secret \in Secrets : Insert(d, secret)
    BY <1>5 DEF RegisterDevice
  <1>6. ASSUME NEW t \in Tasks, RotateDeviceCredential(t)
        PROVE  \/ UNCHANGED registry
               \/ \E d \in Devices, secret \in Secrets : Rotated(d, secret)
    <2>1. task[t].request.target \in Devices
      BY <1>6, TargetType DEF RotateDeviceCredential
    <2> QED
      BY <1>6, <2>1 DEF RotateDeviceCredential, Rotated
  <1>7. ASSUME NEW t \in Tasks, SetDeviceStatus(t)
        PROVE  \/ UNCHANGED registry
               \/ \E d \in Devices, st \in {"revoked", "quarantined"} : SetAside(d, st)
    <2>1. task[t].request.target \in Devices
      BY <1>7, TargetType DEF SetDeviceStatus
    <2> QED
      BY <1>7, <2>1 DEF SetDeviceStatus, SetAside, NewStatus, registry
  <1> QED
    BY <1>1, <1>2, <1>3, <1>4, <1>5, <1>6, <1>7 DEF Next

\* What every writer leaves in order.
RegistryType ==
  /\ status \in [Devices -> Statuses \cup {None}]
  /\ credential \in [Devices -> Secrets \cup {None}]
  /\ shard \in [Devices -> Statuses \cup {None}]
  /\ drawn \subseteq Secrets

LEMMA RegistryTypeNext ==
  ASSUME TypeOK, [Next]_vars
  PROVE  RegistryType' /\ drawn \subseteq drawn' /\ Registered \subseteq Registered'
  <1> USE DEF TypeOK, RegistryType, Statuses
  <1>1. CASE UNCHANGED registry
    BY <1>1 DEF registry, Registered
  <1>2. ASSUME NEW d \in Devices, NEW secret \in Secrets, Insert(d, secret)
        PROVE  RegistryType' /\ drawn \subseteq drawn' /\ Registered \subseteq Registered'
    <2>1. RegistryType' /\ drawn \subseteq drawn'
      BY <1>2 DEF Insert
    <2>2. Registered \subseteq Registered'
      BY <1>2 DEF Insert, Registered
    <2> QED
      BY <2>1, <2>2
  <1>3. ASSUME NEW d \in Devices, NEW secret \in Secrets, Rotated(d, secret)
        PROVE  RegistryType' /\ drawn \subseteq drawn' /\ Registered \subseteq Registered'
    BY <1>3 DEF Rotated, Registered
  <1>4. ASSUME NEW d \in Devices, NEW st \in {"revoked", "quarantined"}, SetAside(d, st)
        PROVE  RegistryType' /\ drawn \subseteq drawn' /\ Registered \subseteq Registered'
    <2>1. RegistryType' /\ drawn \subseteq drawn'
      BY <1>4 DEF SetAside
    <2>2. st # None
      BY SentinelAssumption
    <2>3. Registered \subseteq Registered'
      BY <1>4, <2>2 DEF SetAside, Registered
    <2> QED
      BY <2>1, <2>3
  <1> QED
    BY <1>1, <1>2, <1>3, <1>4, RegistryWriters

-----------------------------------------------------------------------------
\* Type correctness: the tasks,
LEMMA TaskTypeNext ==
  ASSUME TypeOK, [Next]_vars
  PROVE  /\ task' \in [Tasks -> Task \cup {None}]
         /\ handed' \subseteq Token /\ lost' \subseteq Token
  <1> DEFINE Goal == /\ task' \in [Tasks -> Task \cup {None}]
                     /\ handed' \subseteq Token /\ lost' \subseteq Token
  <1> USE DEF history, Steps
  <1>1. CASE UNCHANGED vars
    BY <1>1 DEF vars, TypeOK
  <1>2. CASE Bootstrap
    BY <1>2 DEF Bootstrap, TypeOK, Token
  <1>3. ASSUME NEW t \in Tasks, task[t] # None PROVE task[t].fresh \in Token \cup {None}
    BY <1>3 DEF TypeOK, Task
  <1>4. CASE ServerCrash
    BY <1>3, <1>4 DEF ServerCrash, TypeOK
  <1>5. ASSUME NEW t \in Tasks, NEW r \in Requests, Arrive(t, r) PROVE Goal
    <2>1. r \in Request
      BY DEF Requests
    <2>2. (~Entitled(r)) \in BOOLEAN
      BY RegistryAssumption DEF Entitled, Valid
    <2>3. [request |-> r, barred |-> ~Entitled(r), pc |-> "authenticate", fresh |-> None] \in Task
      BY <2>1, <2>2 DEF Task
    <2> QED
      BY <1>5, <2>3 DEF Arrive, TypeOK
  <1>6. ASSUME NEW t \in Tasks,
               \/ Authenticate(t) \/ AuthorizeActor(t) \/ AuthorizeRegistration(t)
               \/ SetDeviceStatus(t) \/ HeartbeatDevice(t) \/ RegisterActor(t)
        PROVE  Goal
    <2>1. task[t] # None /\ UNCHANGED history
      BY <1>6 DEF Authenticate, AuthorizeActor, AuthorizeRegistration, SetDeviceStatus,
           HeartbeatDevice, RegisterActor, At
    <2>2. Done(t) \/ \E pc \in Steps : Advance(t, pc)
      BY <1>6 DEF Authenticate, AuthorizeActor, AuthorizeRegistration, SetDeviceStatus,
           HeartbeatDevice, RegisterActor
    <2> QED
      BY <2>1, <2>2, AdvanceTask, DoneTask DEF TypeOK
  <1>7. ASSUME NEW t \in Tasks, RegisterDevice(t) \/ RotateDeviceCredential(t) PROVE Goal
    <2>1. task[t] # None /\ UNCHANGED history
      BY <1>7 DEF RegisterDevice, RotateDeviceCredential, At
    <2>2. Done(t) \/ \E k \in Token : AnswerWith(t, k)
      BY <1>7, TargetType DEF RegisterDevice, RotateDeviceCredential, Token
    <2> QED
      BY <2>1, <2>2, AnswerTask, DoneTask DEF TypeOK
  <1>8. ASSUME NEW t \in Tasks, Answer(t) \/ RequestFails(t) PROVE Goal
    <2>1. task[t] # None /\ Done(t)
      BY <1>8 DEF Answer, RequestFails, At
    <2> QED
      BY <1>3, <1>8, <2>1, DoneTask DEF Answer, RequestFails, TypeOK
  <1> QED
    BY <1>1, <1>2, <1>4, <1>5, <1>6, <1>7, <1>8 DEF Next

\* the actors, of which only two steps add one,
LEMMA ActorsNext ==
  ASSUME TypeOK, [Next]_vars
  PROVE  /\ actors' \subseteq Actor
         /\ \A a \in actors' : a.device \in Registered'
         /\ \A a, b \in actors' : a.id = b.id => a = b
  <1> DEFINE Goal == /\ actors' \subseteq Actor
                     /\ \A a \in actors' : a.device \in Registered'
                     /\ \A a, b \in actors' : a.id = b.id => a = b
  <1>0. Registered \subseteq Registered'
    BY RegistryTypeNext
  <1>1. CASE UNCHANGED actors
    BY <1>0, <1>1 DEF TypeOK
  <1>2. ASSUME NEW d \in Devices, NEW i \in ActorIds \ {a.id : a \in actors}, NEW operator \in BOOLEAN,
               actors' = actors \cup {[id |-> i, device |-> d, operator |-> operator]},
               d \in Registered'
        PROVE  Goal
    <2> DEFINE new == [id |-> i, device |-> d, operator |-> operator]
    <2>1. new \in Actor /\ new.device = d /\ new.id = i
      BY DEF Actor
    <2>2. \A a \in actors : a.id # new.id
      BY <2>1
    <2>3. actors' = actors \cup {new}
      BY <1>2
    <2> HIDE DEF new
    <2> QED
      BY <1>0, <1>2, <2>1, <2>2, <2>3 DEF TypeOK
  <1>3. CASE Bootstrap
    <2>1. PICK d \in Devices, secret \in Secrets, i \in ActorIds \ {a.id : a \in actors} :
            /\ Insert(d, secret)
            /\ actors' = actors \cup {[id |-> i, device |-> d, operator |-> TRUE]}
      BY <1>3 DEF Bootstrap
    <2>2. d \in Registered'
      BY <2>1, SentinelAssumption DEF Insert, Registered, TypeOK, Statuses
    <2> QED
      BY <1>2, <2>1, <2>2
  <1>4. ASSUME NEW t \in Tasks, RegisterActor(t) PROVE Goal
    <2>1. CASE UNCHANGED actors
      BY <1>1, <2>1
    <2>2. CASE ~UNCHANGED actors
      <3> DEFINE d == task[t].request.target
      <3>1. d \in Devices
        BY <1>4, TargetType DEF RegisterActor
      <3>2. PICK i \in ActorIds \ {a.id : a \in actors}, operator \in BOOLEAN :
              actors' = actors \cup {[id |-> i, device |-> d, operator |-> operator]}
        BY <1>4, <2>2 DEF RegisterActor
      <3>3. d \in Registered
        BY <1>4, <2>2, <3>1 DEF RegisterActor, Registered
      <3> HIDE DEF d
      <3> QED
        BY <1>0, <1>2, <3>1, <3>2, <3>3
    <2> QED
      BY <2>1, <2>2
  <1>5. Bootstrap \/ (\E t \in Tasks : RegisterActor(t)) \/ UNCHANGED actors
    BY DEF Next, vars, ServerCrash, Arrive, Authenticate, AuthorizeActor, AuthorizeRegistration,
           RegisterDevice, RotateDeviceCredential, SetDeviceStatus, HeartbeatDevice, Answer,
           RequestFails, registry
  <1> QED
    BY <1>1, <1>3, <1>4, <1>5

\* and the bounds.
LEMMA BoundsNext ==
  ASSUME TypeOK, [Next]_vars
  PROVE  arrived' \in 0..MaxRequests /\ disturb' \in 0..MaxDisturb
  <1>1. \/ UNCHANGED bounds
        \/ Disturb
        \/ arrived < MaxRequests /\ arrived' = arrived + 1 /\ UNCHANGED disturb
    BY DEF Next, vars, Bootstrap, ServerCrash, Arrive, Authenticate, AuthorizeActor,
           AuthorizeRegistration, RegisterDevice, RotateDeviceCredential, SetDeviceStatus,
           HeartbeatDevice, RegisterActor, Answer, RequestFails, bounds
  <1> QED
    BY <1>1, RegistryAssumption DEF TypeOK, bounds, Disturb

LEMMA TypeInit == Init => TypeOK
  <1> SUFFICES ASSUME Init PROVE TypeOK
    OBVIOUS
  <1>1. PICK old \in {{}, Before} :
          /\ status \in [Devices -> Statuses \cup {None}]
          /\ \A d \in Devices : status[d] # None <=> d \in old
          /\ credential \in [Devices -> Secrets \cup {None}]
          /\ \A d \in Devices : credential[d] # None <=> d \in old
          /\ shard = status
          /\ actors \in SUBSET [id: ActorIds, device: old, operator: {TRUE}]
          /\ \A a, b \in actors : a.id = b.id => a = b
          /\ task = [t \in Tasks |-> None]
          /\ drawn = {credential[d] : d \in old}
          /\ handed = {TokenOf(d) : d \in old}
          /\ lost = {} /\ arrived = 0 /\ disturb = 0
    BY DEF Init
  <1>2. old \subseteq Devices
    BY RegistryAssumption
  <1>3. \A d \in old : credential[d] \in Secrets /\ d \in Registered
    BY <1>1, <1>2 DEF Registered
  <1>4. drawn \subseteq Secrets /\ handed \subseteq Token
    BY <1>1, <1>2, <1>3 DEF Token, TokenOf
  <1>5. /\ actors \subseteq Actor
        /\ \A a \in actors : a.device \in Registered
    BY <1>1, <1>2, <1>3 DEF Actor
  <1>6. arrived \in 0..MaxRequests /\ disturb \in 0..MaxDisturb
    BY <1>1, RegistryAssumption
  <1>7. task \in [Tasks -> Task \cup {None}] /\ lost \subseteq Token
    BY <1>1
  <1> QED
    BY <1>1, <1>4, <1>5, <1>6, <1>7 DEF TypeOK

LEMMA TypeNext == ASSUME TypeOK, [Next]_vars PROVE TypeOK'
  BY RegistryTypeNext, TaskTypeNext, ActorsNext, BoundsNext DEF RegistryType, TypeOK

\* Every variable keeps its type; an actor's device has a row, and ids of actors
\* are unique (register_actor, bootstrap: the tables' keys).
THEOREM TypeCorrect == Spec => []TypeOK
  BY TypeInit, TypeNext, PTL DEF Spec

-----------------------------------------------------------------------------
\* The catalog follows the devices in each of the three ways to write.
LEMMA CatalogNext ==
  ASSUME TypeOK, CatalogMirrorsDevices, [Next]_vars
  PROVE  CatalogMirrorsDevices'
  <1> USE DEF CatalogMirrorsDevices, TypeOK
  <1>1. CASE UNCHANGED registry
    BY <1>1 DEF registry
  <1>2. ASSUME NEW d \in Devices, NEW secret \in Secrets, Insert(d, secret)
        PROVE  CatalogMirrorsDevices'
    BY <1>2 DEF Insert
  <1>3. ASSUME NEW d \in Devices, NEW secret \in Secrets, Rotated(d, secret)
        PROVE  CatalogMirrorsDevices'
    BY <1>3 DEF Rotated
  <1>4. ASSUME NEW d \in Devices, NEW st \in {"revoked", "quarantined"}, SetAside(d, st)
        PROVE  CatalogMirrorsDevices'
    BY <1>4 DEF SetAside
  <1> QED
    BY <1>1, <1>2, <1>3, <1>4, RegistryWriters

\* A request that is not entitled does not become so: a device is made active only
\* when its row is new, and a secret is never drawn twice.
LEMMA BarredStays ==
  ASSUME TypeOK, RegistryInv, [Next]_vars, NEW r \in Request,
         r.token # None => r.token.secret \in drawn, ~Entitled(r)
  PROVE  ~Entitled(r)'
  <1>1. CASE r.token = None
    <2>1. Registered \subseteq Registered' /\ Registered # {} /\ ~SecretSet
      BY <1>1, RegistryTypeNext DEF Entitled
    <2> QED
      BY <1>1, <2>1 DEF Entitled
  <1>2. CASE r.token # None
    <2>1. PICK k \in Token : k = r.token
      BY <1>2, RequestType
    <2>2. k.device \in Devices /\ k.secret \in drawn /\ ~Valid(k)
      BY <1>2, <2>1 DEF Entitled, Token
    <2>3. ASSUME UNCHANGED registry PROVE ~Valid(k)'
      BY <2>2, <2>3 DEF registry, Valid
    <2>4. ASSUME NEW d \in Devices, NEW secret \in Secrets, Insert(d, secret) PROVE ~Valid(k)'
      BY <2>2, <2>4 DEF Insert, Valid, TypeOK
    <2>5. ASSUME NEW d \in Devices, NEW secret \in Secrets, Rotated(d, secret) PROVE ~Valid(k)'
      BY <2>2, <2>5 DEF Rotated, Valid, TypeOK
    <2>6. ASSUME NEW d \in Devices, NEW st \in {"revoked", "quarantined"}, SetAside(d, st)
          PROVE  ~Valid(k)'
      BY <2>2, <2>6 DEF SetAside, Valid, TypeOK
    <2>7. ~Valid(k)'
      BY <2>3, <2>4, <2>5, <2>6, RegistryWriters
    <2> QED
      BY <1>2, <2>1, <2>7 DEF Entitled
  <1> QED
    BY <1>1, <1>2

\* The registry's own part of the invariant.
LEMMA RegistryInvNext == ASSUME TypeOK, RegistryInv, TaskInv, [Next]_vars PROVE RegistryInv'
  <1>1. /\ \A d \in Devices : (status[d] = None <=> credential[d] = None)'
        /\ \A d \in Registered' : credential'[d] \in drawn'
    <2> USE DEF TypeOK, RegistryInv, Registered
    <2> DEFINE Goal == /\ \A d \in Devices : (status[d] = None <=> credential[d] = None)'
                       /\ \A d \in Registered' : credential'[d] \in drawn'
    <2>0. "active" # None /\ "revoked" # None /\ "quarantined" # None /\ None \notin Secrets
      BY SentinelAssumption DEF Statuses
    <2>1. CASE UNCHANGED registry
      BY <2>1 DEF registry
    <2>2. ASSUME NEW d \in Devices, NEW secret \in Secrets, Insert(d, secret) PROVE Goal
      BY <2>0, <2>2 DEF Insert
    <2>3. ASSUME NEW d \in Devices, NEW secret \in Secrets, Rotated(d, secret) PROVE Goal
      BY <2>0, <2>3 DEF Rotated
    <2>4. ASSUME NEW d \in Devices, NEW st \in {"revoked", "quarantined"}, SetAside(d, st) PROVE Goal
      BY <2>0, <2>4 DEF SetAside
    <2> QED
      BY <2>1, <2>2, <2>3, <2>4, RegistryWriters
  <1>2. \A k \in handed' : k.secret \in drawn'
    <2>1. drawn \subseteq drawn'
      BY RegistryTypeNext
    <2>2. CASE UNCHANGED handed
      BY <2>1, <2>2 DEF RegistryInv
    <2>3. CASE Bootstrap
      <3>1. PICK d \in Devices, secret \in Secrets :
              /\ Insert(d, secret)
              /\ \/ handed' = handed \cup {[device |-> d, secret |-> secret]}
                 \/ UNCHANGED handed
        BY <2>3 DEF Bootstrap
      <3>2. secret \in drawn'
        BY <3>1 DEF Insert
      <3> QED
        BY <2>1, <3>1, <3>2 DEF RegistryInv
    <2>4. ASSUME NEW t \in Tasks, Answer(t) PROVE \A k \in handed' : k.secret \in drawn'
      BY <2>1, <2>4 DEF Answer, At, TaskInv, RegistryInv
    <2>5. UNCHANGED handed \/ Bootstrap \/ \E t \in Tasks : Answer(t)
      BY DEF Next, vars, ServerCrash, Arrive, Authenticate, AuthorizeActor,
           AuthorizeRegistration, RegisterDevice, RotateDeviceCredential, SetDeviceStatus,
           HeartbeatDevice, RegisterActor, RequestFails, history
    <2> QED
      BY <2>2, <2>3, <2>4, <2>5
  <1> QED
    BY <1>1, <1>2 DEF RegistryInv

-----------------------------------------------------------------------------
\* The tasks' part, for one task.
TaskOK(t) ==
  /\ task[t].request.token # None => task[t].request.token.secret \in drawn
  /\ task[t].fresh # None => task[t].pc = "answer" /\ task[t].fresh.secret \in drawn
  /\ task[t].barred => task[t].pc = "authenticate" /\ ~Entitled(task[t].request)

LEMMA TaskOKNext ==
  ASSUME TypeOK, RegistryInv, TaskInv, [Next]_vars, NEW u \in Tasks, task'[u] # None
  PROVE  TaskOK(u)'
  <1>0. drawn \subseteq drawn'
    BY RegistryTypeNext
  <1>1. ASSUME task[u] # None,
               task'[u].request = task[u].request, task'[u].barred = task[u].barred,
               task'[u].fresh # None => task'[u].pc = "answer" /\ task'[u].fresh.secret \in drawn',
               task[u].barred => task'[u].pc = "authenticate"
        PROVE  TaskOK(u)'
    <2>1. task[u].request \in Request /\ TaskOK(u)
      BY <1>1 DEF TypeOK, Task, TaskInv, TaskOK
    <2>2. PICK r \in Request : r = task[u].request
      BY <2>1
    <2>3. CASE ~task[u].barred
      BY <1>0, <1>1, <2>1, <2>3 DEF TaskOK
    <2>4. CASE task[u].barred
      <3>1. r.token # None => r.token.secret \in drawn
        BY <2>1, <2>2 DEF TaskOK
      <3>2. ~Entitled(r)
        BY <2>1, <2>2, <2>4 DEF TaskOK
      <3>3. ~Entitled(r)'
        BY <3>1, <3>2, BarredStays
      <3>4. task'[u].request = r
        BY <1>1, <2>2
      <3>5. ~Entitled(task[u].request)'
        BY <3>3, <3>4 DEF Entitled, Valid
      <3> QED
        BY <1>0, <1>1, <2>1, <2>4, <3>5 DEF TaskOK
    <2> QED
      BY <2>3, <2>4
  <1>2. ASSUME task'[u] = task[u] PROVE TaskOK(u)'
    BY <1>0, <1>1, <1>2 DEF TaskInv
  <1>3. CASE UNCHANGED vars
    BY <1>2, <1>3 DEF vars
  <1>4. CASE Bootstrap
    BY <1>2, <1>4 DEF Bootstrap
  <1>5. CASE ServerCrash
    BY <1>5 DEF ServerCrash
  <1>6. ASSUME NEW t \in Tasks, NEW r \in Requests, Arrive(t, r) PROVE TaskOK(u)'
    <2>1. CASE u # t
      BY <1>2, <1>6, <2>1 DEF Arrive, TypeOK
    <2>2. CASE u = t
      <3> DEFINE new == [request |-> r, barred |-> ~Entitled(r), pc |-> "authenticate", fresh |-> None]
      <3>1. task'[u] = new /\ UNCHANGED registry
        BY <1>6, <2>2 DEF Arrive, TypeOK
      <3>2. r.token # None => r.token.secret \in drawn
        BY DEF Requests, RegistryInv
      <3>3. Entitled(r)' <=> Entitled(r)
        BY <3>1 DEF Entitled, Valid, Registered, registry
      <3>4. new.request = r /\ new.pc = "authenticate" /\ new.fresh = None /\ (new.barred <=> ~Entitled(r))
        OBVIOUS
      <3> HIDE DEF new
      <3>5. task'[u].request = r /\ task'[u].pc = "authenticate" /\ task'[u].fresh = None
            /\ (task'[u].barred <=> ~Entitled(r))
        BY <3>1, <3>4
      <3>6. task'[u].barred => ~Entitled(task[u].request)'
        BY <3>3, <3>5 DEF Entitled, Valid
      <3> QED
        BY <1>0, <3>2, <3>5, <3>6 DEF TaskOK
    <2> QED
      BY <2>1, <2>2
  <1>7. ASSUME NEW t \in Tasks, task[t] # None, Done(t) PROVE TaskOK(u)'
    BY <1>2, <1>7, DoneTask
  <1>8. ASSUME NEW t \in Tasks, task[t] # None, task[t].pc # "answer", ~task[t].barred,
               NEW pc \in Steps, Advance(t, pc)
        PROVE  TaskOK(u)'
    <2>1. CASE u # t
      BY <1>2, <1>8, <2>1, AdvanceTask
    <2>2. CASE u = t
      <3>1. task[t].fresh = None
        BY <1>8 DEF TaskInv
      <3> QED
        BY <1>1, <1>8, <2>2, <3>1, AdvanceTask
    <2> QED
      BY <2>1, <2>2
  <1>9. ASSUME NEW t \in Tasks, task[t] # None, ~task[t].barred,
               NEW k \in Token, k.secret \in drawn', AnswerWith(t, k)
        PROVE  TaskOK(u)'
    <2>1. CASE u # t
      BY <1>2, <1>9, <2>1, AnswerTask
    <2>2. CASE u = t
      BY <1>1, <1>9, <2>2, AnswerTask
    <2> QED
      BY <2>1, <2>2
  <1>10. ASSUME NEW t \in Tasks, Authenticate(t) \/ AuthorizeRegistration(t) PROVE TaskOK(u)'
    <2>1. task[t] # None /\ task[t].pc = "authenticate"
      BY <1>10 DEF Authenticate, AuthorizeRegistration, At
    <2>2. Done(t) \/ (Entitled(task[t].request) /\ \E pc \in Steps : Advance(t, pc))
      BY <1>10 DEF Authenticate, AuthorizeRegistration, Steps
    <2>3. Entitled(task[t].request) => ~task[t].barred
      BY <2>1 DEF TaskInv
    <2> QED
      BY <1>7, <1>8, <2>1, <2>2, <2>3
  <1>11. ASSUME NEW t \in Tasks,
                \/ AuthorizeActor(t) \/ SetDeviceStatus(t) \/ HeartbeatDevice(t) \/ RegisterActor(t)
         PROVE  TaskOK(u)'
    <2>1. task[t] # None /\ task[t].pc \in {"actor", "execute"}
      BY <1>11 DEF AuthorizeActor, SetDeviceStatus, HeartbeatDevice, RegisterActor, At
    <2>2. Done(t) \/ \E pc \in Steps : Advance(t, pc)
      BY <1>11 DEF AuthorizeActor, SetDeviceStatus, HeartbeatDevice, RegisterActor, Steps
    <2>3. ~task[t].barred
      BY <2>1 DEF TaskInv
    <2> QED
      BY <1>7, <1>8, <2>1, <2>2, <2>3
  <1>12. ASSUME NEW t \in Tasks, RegisterDevice(t) \/ RotateDeviceCredential(t) PROVE TaskOK(u)'
    <2>1. task[t] # None /\ task[t].pc = "execute"
      BY <1>12 DEF RegisterDevice, RotateDeviceCredential, At
    <2>2. Done(t) \/ \E k \in Token : k.secret \in drawn' /\ AnswerWith(t, k)
      BY <1>12, TargetType DEF RegisterDevice, RotateDeviceCredential, Insert, Token
    <2>3. ~task[t].barred
      BY <2>1 DEF TaskInv
    <2> QED
      BY <1>7, <1>9, <2>1, <2>2, <2>3
  <1>13. ASSUME NEW t \in Tasks, Answer(t) \/ RequestFails(t) PROVE TaskOK(u)'
    BY <1>7, <1>13 DEF Answer, RequestFails, At
  <1> QED
    BY <1>3, <1>4, <1>5, <1>6, <1>10, <1>11, <1>12, <1>13 DEF Next

LEMMA TaskInvNext == ASSUME TypeOK, RegistryInv, TaskInv, [Next]_vars PROVE TaskInv'
  <1>1. \A u \in Tasks : task'[u] # None => TaskOK(u)'
    BY TaskOKNext
  <1> QED
    BY <1>1 DEF TaskInv, TaskOK

-----------------------------------------------------------------------------
\* A credential is held: somebody has it, or an answer under way does.
Held(k) ==
  \/ k \in handed \cup lost
  \/ \E t \in Tasks : task[t] # None /\ task[t].fresh = k

\* A request that ends before its answer holds no credential, and one that ends
\* with its answer, or loses it, leaves the credential in the history.
LEMMA HeldStays ==
  ASSUME TypeOK, TaskInv, [Next]_vars, NEW k \in Token, Held(k)
  PROVE  Held(k)'
  <1>1. CASE k \in handed \cup lost
    <2>1. handed \subseteq handed' /\ lost \subseteq lost'
      BY DEF Next, vars, Bootstrap, ServerCrash, Arrive, Authenticate, AuthorizeActor,
           AuthorizeRegistration, RegisterDevice, RotateDeviceCredential, SetDeviceStatus,
           HeartbeatDevice, RegisterActor, Answer, RequestFails, history
    <2> QED
      BY <1>1, <2>1 DEF Held
  <1>2. CASE k \notin handed \cup lost
    <2>1. PICK u \in Tasks : task[u] # None /\ task[u].fresh = k
      BY <1>2 DEF Held
    <2>2. k # None
      BY SentinelAssumption
    <2>3. task[u].pc = "answer"
      BY <2>1, <2>2 DEF TaskInv
    <2>4. ASSUME task'[u] = task[u] PROVE Held(k)'
      BY <2>1, <2>4 DEF Held
    <2>5. CASE UNCHANGED vars
      BY <2>4, <2>5 DEF vars
    <2>6. CASE Bootstrap
      BY <2>4, <2>6 DEF Bootstrap
    <2>7. CASE ServerCrash
      BY <2>1, <2>2, <2>7 DEF ServerCrash, Held
    <2>8. ASSUME NEW t \in Tasks, \E r \in Requests : Arrive(t, r) PROVE Held(k)'
      BY <2>1, <2>4, <2>8 DEF Arrive, TypeOK
    <2>9. ASSUME NEW t \in Tasks,
                 \/ Authenticate(t) \/ AuthorizeActor(t) \/ AuthorizeRegistration(t)
                 \/ RegisterDevice(t) \/ RotateDeviceCredential(t) \/ SetDeviceStatus(t)
                 \/ HeartbeatDevice(t) \/ RegisterActor(t)
          PROVE  Held(k)'
      <3>1. task[t] # None /\ task[t].pc # "answer"
        BY <2>9 DEF Authenticate, AuthorizeActor, AuthorizeRegistration, RegisterDevice,
             RotateDeviceCredential, SetDeviceStatus, HeartbeatDevice, RegisterActor, At
      <3>2. \/ Done(t)
            \/ \E pc \in Steps : Advance(t, pc)
            \/ \E fresh \in Token : AnswerWith(t, fresh)
        BY <2>9, TargetType DEF Authenticate, AuthorizeActor, AuthorizeRegistration,
             RegisterDevice, RotateDeviceCredential, SetDeviceStatus, HeartbeatDevice,
             RegisterActor, Steps, Token
      <3>3. task'[u] = task[u]
        BY <2>3, <3>1, <3>2, AdvanceTask, AnswerTask, DoneTask
      <3> QED
        BY <2>4, <3>3
    <2>10. ASSUME NEW t \in Tasks, Answer(t) \/ RequestFails(t) PROVE Held(k)'
      <3>1. CASE t = u
        BY <2>1, <2>2, <2>10, <3>1 DEF Answer, RequestFails, Held
      <3>2. CASE t # u
        BY <2>4, <2>10, <3>2, DoneTask DEF Answer, RequestFails
      <3> QED
        BY <3>1, <3>2
    <2> QED
      BY <2>5, <2>6, <2>7, <2>8, <2>9, <2>10 DEF Next
  <1> QED
    BY <1>1, <1>2

\* A secret is put in the registry together with the answer that holds it.
LEMMA NewIsHeld ==
  ASSUME TypeOK, [Next]_vars, NEW d \in Devices, credential'[d] # credential[d],
         NEW k \in Token, k = [device |-> d, secret |-> credential'[d]]
  PROVE  Held(k)'
  <1>1. ASSUME NEW e \in Devices, NEW secret \in Secrets,
               credential' = [credential EXCEPT ![e] = secret]
        PROVE  k = [device |-> e, secret |-> secret]
    BY <1>1 DEF TypeOK
  <1>2. CASE Bootstrap
    <2>1. PICK e \in Devices, secret \in Secrets :
            /\ Insert(e, secret)
            /\ [device |-> e, secret |-> secret] \in handed' \cup lost'
      BY <1>2 DEF Bootstrap
    <2> QED
      BY <1>1, <2>1 DEF Insert, Held
  <1>3. ASSUME NEW t \in Tasks, RegisterDevice(t) \/ RotateDeviceCredential(t) PROVE Held(k)'
    <2>1. task[t] # None
      BY <1>3 DEF RegisterDevice, RotateDeviceCredential, At
    <2>2. PICK e \in Devices, secret \in Secrets :
            /\ credential' = [credential EXCEPT ![e] = secret]
            /\ AnswerWith(t, [device |-> e, secret |-> secret])
      BY <1>3, TargetType DEF RegisterDevice, RotateDeviceCredential, Insert, registry
    <2>3. AnswerWith(t, k)
      BY <1>1, <2>2
    <2> QED
      BY <2>1, <2>3, AnswerTask DEF Held
  <1>4. ASSUME NEW t \in Tasks,
               \/ \E r \in Requests : Arrive(t, r)
               \/ Authenticate(t) \/ AuthorizeActor(t) \/ AuthorizeRegistration(t)
               \/ SetDeviceStatus(t) \/ HeartbeatDevice(t) \/ RegisterActor(t)
               \/ Answer(t) \/ RequestFails(t)
        PROVE  FALSE
    BY <1>4 DEF Arrive, Authenticate, AuthorizeActor, AuthorizeRegistration, SetDeviceStatus,
         HeartbeatDevice, RegisterActor, Answer, RequestFails, registry
  <1>5. CASE UNCHANGED vars \/ ServerCrash
    BY <1>5 DEF vars, ServerCrash, registry
  <1> QED
    BY <1>2, <1>3, <1>4, <1>5 DEF Next

LEMMA CredentialIsHeldNext ==
  ASSUME TypeOK, RegistryInv, TaskInv, CredentialIsHeld, [Next]_vars
  PROVE  CredentialIsHeld'
  <1>1. ASSUME NEW d \in Devices, status'[d] # None, NEW k \in Token,
               k = [device |-> d, secret |-> credential'[d]]
        PROVE  Held(k)'
    <2>1. CASE credential'[d] # credential[d]
      BY <1>1, <2>1, NewIsHeld
    <2>2. CASE credential'[d] = credential[d]
      <3>1. credential'[d] # None
        BY <1>1, RegistryInvNext DEF RegistryInv
      <3>2. d \in Registered /\ TokenOf(d) = k
        BY <1>1, <2>2, <3>1 DEF RegistryInv, Registered, TokenOf
      <3>3. Held(k)
        BY <3>2 DEF CredentialIsHeld, Held
      <3> QED
        BY <3>3, HeldStays
    <2> QED
      BY <2>1, <2>2
  <1>2. ASSUME NEW d \in Devices, status'[d] # None
        PROVE  [device |-> d, secret |-> credential'[d]] \in Token
    BY <1>2, RegistryInvNext, RegistryTypeNext DEF RegistryInv, RegistryType, Registered, Token
  <1>3. ASSUME NEW d \in Devices, status'[d] # None
        PROVE  \/ [device |-> d, secret |-> credential'[d]] \in handed' \cup lost'
               \/ \E t \in Tasks : /\ task'[t] # None
                                   /\ task'[t].fresh = [device |-> d, secret |-> credential'[d]]
    BY <1>1, <1>2, <1>3 DEF Held
  <1> QED
    BY <1>3 DEF CredentialIsHeld, Registered, TokenOf

-----------------------------------------------------------------------------
LEMMA InvInit == Init => IInv
  <1> SUFFICES ASSUME Init PROVE IInv
    OBVIOUS
  <1>1. TypeOK
    BY TypeInit
  <1>2. PICK old \in {{}, Before} :
          /\ \A d \in Devices : status[d] # None <=> d \in old
          /\ \A d \in Devices : credential[d] # None <=> d \in old
          /\ shard = status
          /\ task = [t \in Tasks |-> None]
          /\ drawn = {credential[d] : d \in old}
          /\ handed = {TokenOf(d) : d \in old}
    BY DEF Init
  <1>3. Registered = old
    BY <1>2, RegistryAssumption DEF Registered
  <1>4. CatalogMirrorsDevices /\ TaskInv
    BY <1>2 DEF CatalogMirrorsDevices, TaskInv
  <1>5. RegistryInv
    BY <1>2, <1>3 DEF RegistryInv, TokenOf
  <1>6. CredentialIsHeld
    BY <1>2, <1>3 DEF CredentialIsHeld
  <1> QED
    BY <1>1, <1>4, <1>5, <1>6 DEF IInv

LEMMA InvNext == IInv /\ [Next]_vars => IInv'
  BY TypeNext, CatalogNext, RegistryInvNext, TaskInvNext, CredentialIsHeldNext DEF IInv

LEMMA Invariant == Spec => []IInv
  BY InvInit, InvNext, PTL DEF Spec

\* The catalog's rows tell the truth about the devices (register_device,
\* set_device_status and bootstrap write both tables in one transaction, and
\* MnemesStore::open adds the rows that an older release did not write).
THEOREM CatalogIsTrue == Spec => []CatalogMirrorsDevices
  <1>1. IInv => CatalogMirrorsDevices
    BY DEF IInv
  <1> QED
    BY <1>1, Invariant, PTL

\* A request that was not entitled when it arrived is never let in, however the
\* requests are interleaved: not with a replaced or revoked credential
\* (authenticate_device_credential), nor by a registration that was closed
\* (register_device_handler).
THEOREM LostStaysLost == Spec => []LostForGood
  <1>1. IInv => LostForGood
    BY DEF IInv, TaskInv, LostForGood
  <1> QED
    BY <1>1, Invariant, PTL

\* The credential in force is held by somebody, or by an answer under way, whatever
\* rotations pass each other (rotate_device_credential, register_device, bootstrap).
THEOREM CredentialsAreHeld == Spec => []CredentialIsHeld
  <1>1. IInv => CredentialIsHeld
    BY DEF IInv
  <1> QED
    BY <1>1, Invariant, PTL

=============================================================================
