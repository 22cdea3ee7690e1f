------------------------ MODULE ProfileAccessProofs -------------------------
(***************************************************************************)
(* Proofs about ProfileAccess, for every value of its constants.           *)
(***************************************************************************)
EXTENDS ProfileAccess, SequenceTheorems, WellFoundedInduction, TLAPS

\* The table of bindings has two writers.
LEMMA BindingWriters ==
  ASSUME [Next]_vars
  PROVE  \/ UNCHANGED bindings
         \/ \E a \in Actors, p \in Profiles, w \in Windows : BindActorProfile(a, p, w)
         \/ \E n \in 1..MaxBindings, t \in Times : RevokeActorProfileBinding(n, t)
  <1> USE DEF control
  <1>1. CASE UNCHANGED vars
    BY <1>1 DEF vars
  <1>2. CASE ControlStep
    BY <1>2 DEF ControlStep, RegisterMemoryProfile, RegisterMemoryStore, SetMemoryProfileStatus,
         SetMemoryStoreStatus, SetDeviceStatus, GrantMemoryAccess, RevokeMemoryAccess
  <1>3. CASE CallStep
    BY <1>3 DEF CallStep, Begin, Return, ResolveActorProfile, ListStores, ReadGrants, Built,
         Present, ListAuthorizedStores, IssueMemoryAccessPermit, OpenStore, OpenFails
  <1> QED
    BY <1>1, <1>2, <1>3 DEF Next

LEMMA BindingRow ==
  ASSUME BindingInv, NEW n \in 1..Len(bindings)
  PROVE  /\ bindings[n] \in Bindings
         /\ bindings[n].from \in Nat /\ bindings[n].until \in Nat
  <1>1. bindings[n] \in Bindings
    BY DEF BindingInv
  <1> QED
    BY <1>1, AccessAssumption DEF Bindings

LEMMA BindingInit == Init => BindingInv
  BY DEF Init, BindingInv, DisjointWindows

\* A new binding's window is disjoint from every standing one of its actor; a
\* revocation only takes one away.
LEMMA BindingNext == ASSUME BindingInv, [Next]_vars PROVE BindingInv'
  <1>1. CASE UNCHANGED bindings
    BY <1>1 DEF BindingInv, DisjointWindows
  <1>2. ASSUME NEW a \in Actors, NEW p \in Profiles, NEW w \in Windows, BindActorProfile(a, p, w)
        PROVE  BindingInv'
    <2> DEFINE new == [actor |-> a, profile |-> p, from |-> w.from, until |-> w.until, revoked |-> FALSE]
    <2>1. new \in Bindings
      BY DEF Windows, Bindings
    <2>2. bindings' = Append(bindings, new)
      BY <1>2 DEF BindActorProfile, Insert
    <2>3. bindings' \in Seq(Bindings)
      BY <2>1, <2>2 DEF BindingInv
    <2>4. \A n \in 1..Len(bindings) :
            bindings[n].actor = a /\ ~bindings[n].revoked =>
              w.until <= bindings[n].from \/ bindings[n].until <= w.from
      <3> SUFFICES ASSUME NEW n \in 1..Len(bindings), bindings[n].actor = a, ~bindings[n].revoked
                   PROVE  w.until <= bindings[n].from \/ bindings[n].until <= w.from
        OBVIOUS
      <3>1. w.from \in Nat /\ w.until \in Nat
        BY AccessAssumption DEF Windows
      <3>2. bindings[n].from \in Nat /\ bindings[n].until \in Nat
        BY BindingRow
      <3>3. ~(bindings[n].from < w.until /\ bindings[n].until > w.from)
        BY <1>2 DEF BindActorProfile
      <3> QED
        BY <3>1, <3>2, <3>3
    <2>5. \A n \in 1..Len(bindings') : IF n = Len(bindings) + 1 THEN bindings'[n] = new
                                       ELSE n \in 1..Len(bindings) /\ bindings'[n] = bindings[n]
      BY <2>1, <2>2 DEF BindingInv
    <2>6. DisjointWindows'
      BY <2>4, <2>5 DEF BindingInv, DisjointWindows
    <2> QED
      BY <2>3, <2>6 DEF BindingInv
  <1>3. ASSUME NEW n \in 1..MaxBindings, NEW t \in Times, RevokeActorProfileBinding(n, t)
        PROVE  BindingInv'
    <2>1. n \in 1..Len(bindings) /\ bindings' = [bindings EXCEPT ![n].revoked = TRUE]
      BY <1>3 DEF RevokeActorProfileBinding
    <2>2. bindings' \in Seq(Bindings) /\ Len(bindings') = Len(bindings)
      <3> DEFINE row == [bindings[n] EXCEPT !.revoked = TRUE]
      <3>1. row \in Bindings
        BY <2>1, BindingRow DEF Bindings
      <3>2. bindings' = [bindings EXCEPT ![n] = row]
        BY <2>1
      <3>3. bindings \in Seq(Bindings) /\ n \in 1..Len(bindings)
        BY <2>1 DEF BindingInv
      <3>4. \A r \in Bindings : /\ [bindings EXCEPT ![n] = r] \in Seq(Bindings)
                                 /\ Len([bindings EXCEPT ![n] = r]) = Len(bindings)
        BY <3>3, ExceptSeq
      <3> HIDE DEF row
      <3> QED
        BY <3>1, <3>2, <3>4, Zenon
    <2>3. \A m \in 1..Len(bindings) :
            /\ bindings'[m].actor = bindings[m].actor
            /\ bindings'[m].from = bindings[m].from /\ bindings'[m].until = bindings[m].until
            /\ ~bindings'[m].revoked => ~bindings[m].revoked
      BY <2>1 DEF BindingInv, Bindings
    <2> QED
      BY <2>2, <2>3 DEF BindingInv, DisjointWindows
  <1> QED
    BY <1>1, <1>2, <1>3, BindingWriters

\* At no instant are two bindings of one actor in force: resolve_actor_profile
\* never finds more than one row, whatever was bound and revoked before.
THEOREM SubjectIsUnique == Spec => []OneBindingInForce
  <1>1. BindingInv => OneBindingInForce
    <2> SUFFICES ASSUME BindingInv, NEW a \in Actors, NEW t \in Times,
                        NEW m \in InForce(a, t), NEW n \in InForce(a, t)
                 PROVE  m = n
      BY DEF OneBindingInForce
    <2>1. t \in Nat
      BY AccessAssumption
    <2>2. m \in 1..Len(bindings) /\ n \in 1..Len(bindings)
      BY DEF InForce
    <2>3. ~(bindings[m].until <= bindings[n].from) /\ ~(bindings[n].until <= bindings[m].from)
      BY <2>1, <2>2, BindingRow DEF InForce
    <2> QED
      BY <2>2, <2>3 DEF InForce, BindingInv, DisjointWindows
  <1> QED
    BY BindingInit, BindingNext, <1>1, PTL DEF Spec

-----------------------------------------------------------------------------
\* The minimum of naturals.
LEMMA MinIsLeast ==
  ASSUME NEW T \in SUBSET Nat, T # {}
  PROVE  Min(T) \in T /\ \A y \in T : Min(T) <= y
  <1> DEFINE R == OpToRel(<, Nat)
  <1>1. IsWellFoundedOn(R, Nat)
    BY NatLessThanWellFounded
  <1>2. R = {ss \in Nat \X Nat : ss[1] < ss[2]}
    BY Zenon DEF OpToRel
  <1> HIDE DEF R
  <1>3. PICK x \in T : \A y \in T : ~(<<y, x>> \in R)
    BY <1>1, WFMin
  <1>4. ASSUME NEW y \in T PROVE x <= y
    <2>1. ~(<<y, x>> \in {ss \in Nat \X Nat : ss[1] < ss[2]})
      BY <1>2, <1>3
    <2>2. ~(y < x)
      BY <2>1
    <2> QED
      BY <2>2
  <1> QED
    BY <1>4 DEF Min

\* The expiry of a store in a snapshot is at most that of the binding and of each
\* allowing grant, and is one of them.
LEMMA ExpiryIsLeast ==
  ASSUME TypeOK, NEW gs \in SUBSET grants, NEW n \in 1..Len(bindings)
  PROVE  /\ ExpiresAt(gs, n) \in Times
         /\ ExpiresAt(gs, n) <= bindings[n].until
         /\ \A g \in gs : ExpiresAt(gs, n) <= g.until
         /\ ExpiresAt(gs, n) \in {g.until : g \in gs} \cup {bindings[n].until}
  <1> DEFINE T == {g.until : g \in gs} \cup {bindings[n].until}
  <1>1. bindings[n] \in Bindings
    BY DEF TypeOK
  <1>2. T \subseteq Times /\ T \subseteq Nat /\ T # {}
    <2>1. bindings[n].until \in Times
      BY <1>1 DEF Bindings
    <2>2. \A g \in gs : g.until \in Times
      BY DEF TypeOK, Grants
    <2>3. Times \subseteq Nat
      BY AccessAssumption
    <2> QED
      BY <2>1, <2>2, <2>3
  <1>3. bindings[n].until \in T /\ \A g \in gs : g.until \in T
    OBVIOUS
  <1>4. Min(T) \in T /\ \A y \in T : Min(T) <= y
    <2> HIDE DEF T
    <2> QED
      BY <1>2, MinIsLeast
  <1> QED
    BY <1>2, <1>3, <1>4 DEF ExpiresAt

-----------------------------------------------------------------------------
\* Types.
LEMMA TypeInit == Init => TypeOK
  BY BoundAssumption DEF Init, TypeOK, Statuses

LEMMA TypeControl ==
  ASSUME TypeOK, BindingInv', ControlStep
  PROVE  TypeOK'
  <1>b. bindings' \in Seq(Bindings)
    BY DEF BindingInv
  <1>1. ASSUME Operation PROVE ops' \in 0..MaxOps /\ UNCHANGED <<call, atStart, atResolve>>
    BY <1>1, BoundAssumption DEF Operation, TypeOK
  <1>2. ASSUME NEW p \in Profiles, RegisterMemoryProfile(p) PROVE TypeOK'
    BY <1>1, <1>2, <1>b DEF RegisterMemoryProfile, TypeOK, call, Statuses
  <1>3. ASSUME NEW s \in Stores, RegisterMemoryStore(s) PROVE TypeOK'
    BY <1>1, <1>3, <1>b DEF RegisterMemoryStore, TypeOK, call, Statuses
  <1>4. ASSUME NEW p \in Profiles, NEW st \in {"active", "off"}, SetMemoryProfileStatus(p, st)
        PROVE  TypeOK'
    BY <1>1, <1>4, <1>b DEF SetMemoryProfileStatus, TypeOK, call, Statuses
  <1>5. ASSUME NEW s \in Stores, NEW st \in {"active", "off"}, SetMemoryStoreStatus(s, st)
        PROVE  TypeOK'
    BY <1>1, <1>5, <1>b DEF SetMemoryStoreStatus, TypeOK, call, Statuses
  <1>6. ASSUME NEW d \in Devices, NEW st \in {"active", "off"}, SetDeviceStatus(d, st)
        PROVE  TypeOK'
    BY <1>1, <1>6, <1>b DEF SetDeviceStatus, TypeOK, call
  <1>7. ASSUME NEW key \in GrantKeys, NEW until \in Times, NEW r \in BOOLEAN,
               GrantMemoryAccess(key, until, r)
        PROVE  TypeOK'
    <2> DEFINE new == [key |-> key, until |-> until, revoked |-> r]
    <2>1. new \in Grants /\ new.key = key
      BY DEF Grants
    <2>2. grants' = grants \cup {new} /\ \A g \in grants : g.key # key
      BY <1>7 DEF GrantMemoryAccess
    <2> HIDE DEF new
    <2>3. grants' \subseteq Grants /\ \A g, h \in grants' : g.key = h.key => g = h
      BY <2>1, <2>2 DEF TypeOK
    <2> QED
      BY <1>1, <1>7, <1>b, <2>3 DEF GrantMemoryAccess, TypeOK, call
  <1>8. ASSUME NEW g \in grants, NEW t \in Times, RevokeMemoryAccess(g, t) PROVE TypeOK'
    <2> DEFINE new == [g EXCEPT !.revoked = TRUE]
    <2>1. new \in Grants /\ new.key = g.key
      BY DEF TypeOK, Grants
    <2>2. grants' = (grants \ {g}) \cup {new}
      BY <1>8 DEF RevokeMemoryAccess
    <2> HIDE DEF new
    <2>3. grants' \subseteq Grants /\ \A x, h \in grants' : x.key = h.key => x = h
      BY <2>1, <2>2 DEF TypeOK
    <2> QED
      BY <1>1, <1>8, <1>b, <2>3 DEF RevokeMemoryAccess, TypeOK, call
  <1>9. ASSUME NEW a \in Actors, NEW p \in Profiles, NEW w \in Windows, BindActorProfile(a, p, w)
        PROVE  TypeOK'
    BY <1>1, <1>9, <1>b DEF BindActorProfile, MayBind, TypeOK, call
  <1>10. ASSUME NEW n \in 1..MaxBindings, NEW t \in Times, RevokeActorProfileBinding(n, t)
         PROVE  TypeOK'
    BY <1>1, <1>10, <1>b DEF RevokeActorProfileBinding, TypeOK, call
  <1> QED
    BY <1>2, <1>3, <1>4, <1>5, <1>6, <1>7, <1>8, <1>9, <1>10 DEF ControlStep

LEMMA TypeCall ==
  ASSUME TypeOK, CallInv, CallStep
  PROVE  TypeOK'
  <1>s. sub \in 1..Len(bindings) => sub \in 1..MaxBindings
    BY BoundAssumption DEF CallInv, TypeOK
  <1>1. ASSUME NEW r \in Requests, Begin(r) PROVE TypeOK'
    BY <1>1 DEF Begin, Goto, TypeOK, control
  <1>2. ASSUME Return PROVE TypeOK'
    BY <1>2, BoundAssumption DEF Return, TypeOK, control
  <1>3. ASSUME ResolveActorProfile PROVE TypeOK'
    <2>1. PICK n \in 1..Len(bindings) : sub' = n
      BY <1>3 DEF ResolveActorProfile
    <2>2. sub' \in 0..MaxBindings
      BY <2>1, BoundAssumption DEF CallInv, TypeOK
    <2> QED
      BY <1>3, <2>2 DEF ResolveActorProfile, Goto, TypeOK, control
  <1>4. ASSUME ListStores PROVE TypeOK'
    BY <1>4 DEF ListStores, Goto, TypeOK, control
  <1>5. ASSUME ReadGrants PROVE TypeOK'
    <2> DEFINE p == bindings[sub].profile
               allowing(s) == {g \in GrantsOf(p, s) : Allows(g, req.effect, req.at)}
               new(s) == [store |-> s, grants |-> {g.key : g \in allowing(s)},
                          until |-> ExpiresAt(allowing(s), sub)]
    <2>1. PICK s \in todo :
            /\ pc = "grants" /\ todo' = todo \ {s}
            /\ auth' = (IF Decide(p, s, GrantsOf(p, s), req.effect, req.at) THEN auth \cup {new(s)} ELSE auth)
            /\ UNCHANGED <<control, pc, req, sub, snap, answer>>
      BY <1>5 DEF ReadGrants
    <2>2. sub \in 1..Len(bindings) /\ s \in Stores
      BY <2>1 DEF CallInv, Resolved, Read, TypeOK
    <2>3. allowing(s) \subseteq grants
      BY DEF GrantsOf
    <2>4. ExpiresAt(allowing(s), sub) \in Times
      BY <2>2, <2>3, ExpiryIsLeast
    <2>5. {g.key : g \in allowing(s)} \subseteq GrantKeys
      BY <2>3 DEF TypeOK, Grants
    <2>6. new(s) \in Admitted
      BY <2>2, <2>4, <2>5 DEF Admitted
    <2> HIDE DEF new
    <2>7. auth' \subseteq Admitted
      BY <2>1, <2>6 DEF TypeOK
    <2> QED
      BY <2>1, <2>7 DEF TypeOK, control
  <1>6. ASSUME Built PROVE TypeOK'
    <2>1. todo' \subseteq Stores
      BY <1>6 DEF Built, TypeOK, Admitted
    <2>2. snap' \in Snapshots \cup {None}
      <3>1. sub \in 1..MaxBindings
        BY <1>6, <1>s DEF Built, CallInv, Resolved, Read
      <3> QED
        BY <1>6, <3>1 DEF Built, TypeOK, Snapshots
    <2>3. pc' \in {"open", "held"}
      BY <1>6 DEF Built, Goto
    <2> QED
      BY <1>6, <2>1, <2>2, <2>3 DEF Built, TypeOK, control
  <1>7. ASSUME Present PROVE TypeOK'
    BY <1>7 DEF Present, Goto, TypeOK, control
  <1>8. ASSUME ListAuthorizedStores PROVE TypeOK'
    <2>1. \A x \in snap.auth : x \in Admitted
      BY <1>8 DEF ListAuthorizedStores, TypeOK, Snapshots
    <2>2. \A x \in answer' : x.store \in Stores /\ x.grants \subseteq GrantKeys /\ x.until \in Nat
      BY <1>8, <2>1, AccessAssumption DEF ListAuthorizedStores, Admitted
    <2> QED
      BY <1>8, <2>2 DEF ListAuthorizedStores, Goto, TypeOK, control
  <1>9. ASSUME IssueMemoryAccessPermit PROVE TypeOK'
    <2>1. PICK x \in snap.auth :
            answer' = {[store |-> x.store, grants |-> x.grants, until |-> Min({x.until, req.at + PermitTtl})]}
      BY <1>9 DEF IssueMemoryAccessPermit
    <2>2. x \in Admitted
      BY <1>9 DEF IssueMemoryAccessPermit, TypeOK, Snapshots
    <2>3. req.at \in Nat /\ x.until \in Nat
      BY <1>9, <2>2, AccessAssumption DEF IssueMemoryAccessPermit, CallInv, Admitted, Requests
    <2>4. Min({x.until, req.at + PermitTtl}) \in Nat
      BY <2>3, MinIsLeast, AccessAssumption
    <2>5. \A y \in answer' : y.store \in Stores /\ y.grants \subseteq GrantKeys /\ y.until \in Nat
      BY <2>1, <2>2, <2>4 DEF Admitted
    <2> QED
      BY <1>9, <2>5 DEF IssueMemoryAccessPermit, Goto, TypeOK, control
  <1>10. ASSUME OpenStore PROVE TypeOK'
    <2>1. \A x \in auth : x.store \in Stores /\ x.grants \subseteq GrantKeys /\ x.until \in Nat
      BY AccessAssumption DEF TypeOK, Admitted
    <2>2. \A x \in answer' : x.store \in Stores /\ x.grants \subseteq GrantKeys /\ x.until \in Nat
      BY <1>10, <2>1 DEF OpenStore, TypeOK
    <2> QED
      BY <1>10, <2>2 DEF OpenStore, TypeOK, control
  <1>11. ASSUME OpenFails PROVE TypeOK'
    BY <1>11 DEF OpenFails, TypeOK, control
  <1> QED
    BY <1>1, <1>2, <1>3, <1>4, <1>5, <1>6, <1>7, <1>8, <1>9, <1>10, <1>11 DEF CallStep

-----------------------------------------------------------------------------
\* What the control plane may do to a call under way.  Rows of bindings and grants
\* keep all but their revocation, which is for good; a grant that is new has a new
\* key; what is registered stays so, and gets live by a reactivation only.
RowsKept ==
  /\ Len(bindings) <= Len(bindings')
  /\ Len(bindings) <= MaxBindings => Len(bindings') <= MaxBindings
  /\ \A n \in 1..Len(bindings) :
       /\ bindings'[n].profile = bindings[n].profile
       /\ bindings'[n].from = bindings[n].from /\ bindings'[n].until = bindings[n].until
       /\ bindings[n].revoked => bindings'[n].revoked
  /\ \A g \in grants : \E h \in grants' :
       h.key = g.key /\ h.until = g.until /\ (g.revoked => h.revoked)
  /\ \A h \in grants' : ~h.revoked => h \in grants \/ \A g \in grants : g.key # h.key

StatusesKept ==
  /\ \A s \in Stores : Registered(s) => Registered(s)'
  /\ pc # "idle" /\ ~reactivated' =>
       /\ ~reactivated
       /\ \A s \in Stores : Registered(s) /\ StoreLive(s)' => StoreLive(s)

Interference ==
  /\ UNCHANGED <<call, atStart, atResolve>>
  /\ RowsKept /\ StatusesKept

LEMMA RowsKeptByAll ==
  ASSUME TypeOK, UNCHANGED <<bindings, grants>>
  PROVE  RowsKept
  BY DEF RowsKept, TypeOK

LEMMA RowsKeptByBindings ==
  ASSUME TypeOK, UNCHANGED grants, Len(bindings) <= Len(bindings'),
         Len(bindings) <= MaxBindings => Len(bindings') <= MaxBindings,
         \A n \in 1..Len(bindings) :
           /\ bindings'[n].profile = bindings[n].profile
           /\ bindings'[n].from = bindings[n].from /\ bindings'[n].until = bindings[n].until
           /\ bindings[n].revoked => bindings'[n].revoked
  PROVE  RowsKept
  BY DEF RowsKept

LEMMA StatusesKeptByAll ==
  ASSUME UNCHANGED <<device, profile, store, reactivated>>
  PROVE  StatusesKept
  BY DEF StatusesKept, Registered, StoreLive, ProfileLive

LEMMA ControlRows ==
  ASSUME TypeOK, ControlStep
  PROVE  RowsKept
  <1>1. ASSUME NEW key \in GrantKeys, NEW until \in Times, NEW r \in BOOLEAN,
               GrantMemoryAccess(key, until, r)
        PROVE  RowsKept
    <2> DEFINE new == [key |-> key, until |-> until, revoked |-> r]
    <2>1. grants' = grants \cup {new} /\ (\A g \in grants : g.key # key) /\ bindings' = bindings
      BY <1>1 DEF GrantMemoryAccess
    <2>2. new.key = key
      OBVIOUS
    <2> HIDE DEF new
    <2>3. \A g \in grants : g \in grants'
      BY <2>1
    <2>4. \A h \in grants' : h \in grants \/ h = new
      BY <2>1
    <2> QED
      BY <2>1, <2>2, <2>3, <2>4 DEF RowsKept, TypeOK
  <1>2. ASSUME NEW g \in grants, NEW t \in Times, RevokeMemoryAccess(g, t) PROVE RowsKept
    <2> DEFINE new == [g EXCEPT !.revoked = TRUE]
    <2>1. grants' = (grants \ {g}) \cup {new} /\ bindings' = bindings
      BY <1>2 DEF RevokeMemoryAccess
    <2>2. new.key = g.key /\ new.until = g.until /\ new.revoked
      BY DEF TypeOK, Grants
    <2> HIDE DEF new
    <2>3. \A x \in grants : x \in grants' \/ (x = g /\ new \in grants')
      BY <2>1
    <2>4. \A h \in grants' : h \in grants \/ h = new
      BY <2>1
    <2> QED
      BY <2>1, <2>2, <2>3, <2>4 DEF RowsKept, TypeOK
  <1>3. ASSUME NEW a \in Actors, NEW p \in Profiles, NEW w \in Windows, BindActorProfile(a, p, w)
        PROVE  RowsKept
    <2>1. PICK row : bindings' = Append(bindings, row)
      BY <1>3 DEF BindActorProfile, Insert
    <2>2. /\ Len(bindings) \in Nat /\ Len(bindings') = Len(bindings) + 1
          /\ \A n \in 1..Len(bindings) : bindings'[n] = bindings[n]
      BY <2>1 DEF TypeOK
    <2>3. Len(bindings) < MaxBindings /\ grants' = grants
      BY <1>3 DEF BindActorProfile, MayBind
    <2> QED
      BY <2>2, <2>3, RowsKeptByBindings, BoundAssumption
  <1>4. ASSUME NEW n \in 1..MaxBindings, NEW t \in Times, RevokeActorProfileBinding(n, t)
        PROVE  RowsKept
    <2>1. bindings' = [bindings EXCEPT ![n].revoked = TRUE] /\ grants' = grants
      BY <1>4 DEF RevokeActorProfileBinding
    <2>2. Len(bindings) \in Nat /\ Len(bindings') = Len(bindings)
      BY <2>1 DEF TypeOK
    <2>3. \A m \in 1..Len(bindings) :
            /\ bindings'[m].profile = bindings[m].profile
            /\ bindings'[m].from = bindings[m].from /\ bindings'[m].until = bindings[m].until
            /\ bindings[m].revoked => bindings'[m].revoked
      BY <2>1 DEF TypeOK, Bindings
    <2> QED
      BY <2>1, <2>2, <2>3, RowsKeptByBindings
  <1>5. ASSUME UNCHANGED <<bindings, grants>> PROVE RowsKept
    BY <1>5, RowsKeptByAll
  <1> QED
    BY <1>1, <1>2, <1>3, <1>4, <1>5 DEF ControlStep, RegisterMemoryProfile, RegisterMemoryStore,
      SetMemoryProfileStatus, SetMemoryStoreStatus, SetDeviceStatus

LEMMA ControlStatuses ==
  ASSUME TypeOK, ControlStep
  PROVE  StatusesKept
  <1>a. /\ StoreProfile \in [Stores -> Profiles] /\ OwnerDevice \in [Profiles -> Devices]
    BY AccessAssumption
  <1>1. ASSUME NEW p \in Profiles, RegisterMemoryProfile(p) PROVE StatusesKept
    BY <1>a, <1>1 DEF RegisterMemoryProfile, StatusesKept, Registered, StoreLive, ProfileLive, TypeOK
  <1>2. ASSUME NEW s \in Stores, RegisterMemoryStore(s) PROVE StatusesKept
    BY <1>a, <1>2 DEF RegisterMemoryStore, StatusesKept, Registered, StoreLive, ProfileLive, TypeOK
  <1>3. ASSUME NEW p \in Profiles, NEW st \in {"active", "off"}, SetMemoryProfileStatus(p, st)
        PROVE  StatusesKept
    BY <1>a, <1>3 DEF SetMemoryProfileStatus, Reactivation, StatusesKept, Registered, StoreLive,
      ProfileLive, TypeOK
  <1>4. ASSUME NEW s \in Stores, NEW st \in {"active", "off"}, SetMemoryStoreStatus(s, st)
        PROVE  StatusesKept
    BY <1>a, <1>4 DEF SetMemoryStoreStatus, Reactivation, StatusesKept, Registered, StoreLive,
      ProfileLive, TypeOK
  <1>5. ASSUME NEW d \in Devices, NEW st \in {"active", "off"}, SetDeviceStatus(d, st)
        PROVE  StatusesKept
    BY <1>a, <1>5 DEF SetDeviceStatus, Reactivation, StatusesKept, Registered, StoreLive,
      ProfileLive, TypeOK
  <1>6. ASSUME UNCHANGED <<device, profile, store, reactivated>> PROVE StatusesKept
    BY <1>6, StatusesKeptByAll
  <1> QED
    BY <1>1, <1>2, <1>3, <1>4, <1>5, <1>6 DEF ControlStep, GrantMemoryAccess, RevokeMemoryAccess,
      BindActorProfile, RevokeActorProfileBinding

LEMMA ControlInterferes ==
  ASSUME TypeOK, ControlStep \/ UNCHANGED vars
  PROVE  Interference
  <1>1. CASE ControlStep
    <2>1. UNCHANGED <<call, atStart, atResolve>>
      BY <1>1 DEF ControlStep, Operation, RegisterMemoryProfile, RegisterMemoryStore,
        SetMemoryProfileStatus, SetMemoryStoreStatus, SetDeviceStatus, GrantMemoryAccess,
        RevokeMemoryAccess, BindActorProfile, MayBind, RevokeActorProfileBinding
    <2> QED
      BY <1>1, <2>1, ControlRows, ControlStatuses DEF Interference
  <1>2. CASE UNCHANGED vars
    BY <1>2, RowsKeptByAll, StatusesKeptByAll DEF Interference, vars, control, history
  <1> QED
    BY <1>1, <1>2

\* Under it each part of the invariant is kept.
LEMMA CallInvKept ==
  ASSUME TypeOK, CallInv, Interference
  PROVE  CallInv'
  BY DEF CallInv, Interference, RowsKept, call, Resolved, Read, TypeOK

LEMMA BackedKept ==
  ASSUME Interference, NEW n \in 1..Len(bindings), NEW x, Backed(x, n)
  PROVE  Backed(x, n)'
  <1>1. bindings'[n].profile = bindings[n].profile /\ bindings'[n].until = bindings[n].until /\ req' = req
    BY DEF Interference, RowsKept, call
  <1>2. ASSUME NEW k \in x.grants
        PROVE  \E h \in grants' : h.key = k /\ x.until <= h.until
    <2>1. PICK g \in grants : g.key = k /\ x.until <= g.until
      BY DEF Backed
    <2>2. PICK h \in grants' : h.key = g.key /\ h.until = g.until
      BY DEF Interference, RowsKept
    <2> QED
      BY <2>1, <2>2
  <1> QED
    BY <1>1, <1>2 DEF Backed

LEMMA BackedInvKept ==
  ASSUME CallInv, BackedInv, Interference
  PROVE  BackedInv'
  <1>1. UNCHANGED <<pc, sub, auth, snap>>
    BY DEF Interference, call
  <1>2. ASSUME pc \in Read, NEW x \in auth PROVE Backed(x, sub)'
    <2>1. PICK n \in 1..Len(bindings) : n = sub
      BY <1>2 DEF CallInv, Resolved
    <2>2. Backed(x, n)
      BY <1>2, <2>1 DEF BackedInv
    <2>3. Backed(x, n)'
      BY <2>2, BackedKept
    <2> QED
      BY <1>1, <2>1, <2>3 DEF Backed
  <1>3. ASSUME snap # None, NEW x \in snap.auth PROVE Backed(x, snap.sub)'
    <2>1. PICK n \in 1..Len(bindings) : n = snap.sub
      BY <1>3 DEF CallInv
    <2>2. Backed(x, n)
      BY <1>3, <2>1 DEF BackedInv
    <2>3. Backed(x, n)'
      BY <2>2, BackedKept
    <2> QED
      BY <1>1, <2>1, <2>3 DEF Backed
  <1> QED
    BY <1>1, <1>2, <1>3 DEF BackedInv

LEMMA AnswerInvKept ==
  ASSUME AnswerInv, Interference
  PROVE  AnswerInv'
  BY DEF AnswerInv, Vouched, Interference, call

LEMMA RevokedInvKept ==
  ASSUME TypeOK, RevokedInv, Interference
  PROVE  RevokedInv'
  <1>1. UNCHANGED <<pc, sub, auth, atStart>>
    BY DEF Interference, call
  <1>2. Revoked.bindings \subseteq Revoked'.bindings
    BY DEF Revoked, Interference, RowsKept, TypeOK
  <1>3. Revoked.grants \subseteq Revoked'.grants
    <2> SUFFICES ASSUME NEW g \in grants, g.revoked
                 PROVE  \E h \in grants' : h.revoked /\ h.key = g.key
      BY DEF Revoked
    <2> QED
      BY DEF Interference, RowsKept
  <1> QED
    BY <1>1, <1>2, <1>3 DEF RevokedInv

LEMMA RegisteredInvKept ==
  ASSUME TypeOK, RegisteredInv, Interference
  PROVE  RegisteredInv'
  <1>1. UNCHANGED <<pc, todo, auth, snap>>
    BY DEF Interference, call
  <1>2. \A s \in Stores : Registered(s) => Registered(s)'
    BY DEF Interference, StatusesKept
  <1>3. /\ todo \subseteq Stores
        /\ \A x \in auth : x.store \in Stores
        /\ snap # None => \A x \in snap.auth : x.store \in Stores
    BY DEF TypeOK, Snapshots, Admitted
  <1> QED
    BY <1>1, <1>2, <1>3 DEF RegisteredInv

\* Of a store that is in a snapshot, no new grant counts: its keys exist already.
LEMMA UnrevokedShrinks ==
  ASSUME Interference, NEW x, NEW n \in 1..Len(bindings), Backed(x, n), Unrevoked(x)'
  PROVE  Unrevoked(x)
  <1>1. CASE x.grants = {}
    BY <1>1 DEF Unrevoked
  <1>2. CASE x.grants # {}
    <2>1. PICK h \in grants' : h.key \in x.grants /\ ~h.revoked
      BY <1>2 DEF Unrevoked
    <2>2. \E g \in grants : g.key = h.key
      BY <2>1 DEF Backed
    <2>3. h \in grants
      BY <2>1, <2>2 DEF Interference, RowsKept
    <2> QED
      BY <2>1, <2>3 DEF Unrevoked
  <1> QED
    BY <1>1, <1>2

LEMMA LinearInvKept ==
  ASSUME TypeOK, CallInv, BackedInv, RegisteredInv, LinearInv, Interference
  PROVE  LinearInv'
  <1>1. UNCHANGED <<pc, sub, todo, auth, snap, atResolve>>
    BY DEF Interference, call
  <1> SUFFICES ASSUME ReadAgain PROVE LinearInv'
    BY <1>1 DEF LinearInv, ReadAgain
  <1>2. pc # "idle" /\ snap \in Snapshots
    BY DEF ReadAgain, CallInv, TypeOK
  <1>3. ASSUME NEW s PROVE DecidedThen(s) => DecidedThen(s)'
    BY <1>1, <1>2 DEF DecidedThen, Interference, StatusesKept
  <1>4. ASSUME NEW x \in snap.auth, Unrevoked(x)' PROVE Unrevoked(x)
    <2>1. PICK n \in 1..Len(bindings) : n = snap.sub
      BY DEF ReadAgain, CallInv
    <2>2. Backed(x, n)
      BY <2>1 DEF ReadAgain, BackedInv
    <2> QED
      BY <1>4, <2>2, UnrevokedShrinks
  <1>5. ASSUME pc = "stores", NEW x \in snap.auth, StoreLive(x.store)'
        PROVE  DecidedThen(x.store)'
    <2>1. x.store \in Stores /\ Registered(x.store)
      BY <1>2 DEF Snapshots, Admitted, ReadAgain, RegisteredInv
    <2>2. CASE reactivated'
      BY <2>2 DEF DecidedThen
    <2>3. CASE ~reactivated'
      <3>1. StoreLive(x.store)
        BY <1>2, <1>5, <2>1, <2>3 DEF Interference, StatusesKept
      <3> QED
        BY <1>3, <1>5, <3>1 DEF LinearInv
    <2> QED
      BY <2>2, <2>3
  <1> QED
    BY <1>1, <1>3, <1>4, <1>5 DEF LinearInv, ReadAgain

-----------------------------------------------------------------------------
\* What a call does to the invariant.  Of a step that reads grants: the store it
\* admits, if it does, is backed by grants none of which is revoked.
LEMMA ReadGrantsAdmits ==
  ASSUME TypeOK, CallInv, ReadGrants
  PROVE  /\ pc = "grants" /\ UNCHANGED <<control, pc, req, sub, snap, answer, history>>
         /\ \E s \in todo :
              /\ todo' = todo \ {s}
              /\ \/ auth' = auth
                 \/ \E x : /\ auth' = auth \cup {x} /\ x.store = s /\ Backed(x, sub)
                          /\ \A k \in x.grants : \E g \in grants : g.key = k /\ ~g.revoked
  <1> DEFINE p == bindings[sub].profile
             allowing(s) == {g \in GrantsOf(p, s) : Allows(g, req.effect, req.at)}
             new(s) == [store |-> s, grants |-> {g.key : g \in allowing(s)},
                        until |-> ExpiresAt(allowing(s), sub)]
  <1>1. pc = "grants" /\ UNCHANGED <<control, pc, req, sub, snap, answer, history>>
    BY DEF ReadGrants
  <1>2. PICK s \in todo :
          /\ todo' = todo \ {s}
          /\ auth' = (IF Decide(p, s, GrantsOf(p, s), req.effect, req.at) THEN auth \cup {new(s)} ELSE auth)
    BY DEF ReadGrants
  <1>3. CASE ~Decide(p, s, GrantsOf(p, s), req.effect, req.at)
    BY <1>1, <1>2, <1>3
  <1>4. CASE Decide(p, s, GrantsOf(p, s), req.effect, req.at)
    <2>1. PICK n \in 1..Len(bindings) : /\ n = sub /\ bindings[n].from <= req.at /\ req.at < bindings[n].until
      BY <1>1 DEF CallInv, Resolved, Read
    <2>2. PICK gs \in SUBSET grants : gs = allowing(s)
      BY DEF GrantsOf
    <2>3. \A g \in gs : /\ g.key.grantee = p /\ g.key.store = s /\ ~g.revoked
                        /\ g.key.effect = req.effect /\ g.key.from <= req.at /\ req.at < g.until
      BY <2>2 DEF GrantsOf, Allows
    <2>4. gs = {} => StoreProfile[s] = p
      BY <1>4, <2>2 DEF Decide
    <2>5. PICK x : x = new(s)
      OBVIOUS
    <2>6. /\ x.store = s /\ x.grants = {g.key : g \in gs}
          /\ x.until = ExpiresAt(gs, n)
      BY <2>1, <2>2, <2>5
    <2>7. /\ x.until <= bindings[n].until /\ \A g \in gs : x.until <= g.until
          /\ x.until \in {g.until : g \in gs} \cup {bindings[n].until}
      BY <2>6, ExpiryIsLeast
    <2>8. req.at < x.until
      BY <2>1, <2>3, <2>7
    <2>9. \A k \in x.grants : \E g \in gs : k = g.key
      BY <2>6
    <2>10. Backed(x, sub)
      <3>1. x.grants = {} => StoreProfile[x.store] = bindings[sub].profile
        BY <2>4, <2>6
      <3>2. \A k \in x.grants :
              /\ k.grantee = bindings[sub].profile /\ k.store = x.store
              /\ k.effect = req.effect /\ k.from <= req.at
              /\ \E g \in grants : g.key = k /\ x.until <= g.until
        BY <2>3, <2>6, <2>7, <2>9
      <3> QED
        BY <2>1, <2>7, <2>8, <3>1, <3>2 DEF Backed
    <2>11. \A k \in x.grants : \E g \in grants : g.key = k /\ ~g.revoked
      BY <2>3, <2>9
    <2>12. auth' = auth \cup {x}
      BY <1>2, <1>4, <2>5
    <2> QED
      BY <1>1, <1>2, <2>6, <2>10, <2>11, <2>12
  <1> QED
    BY <1>3, <1>4

LEMMA CallInvNext ==
  ASSUME TypeOK, CallInv, CallStep
  PROVE  CallInv'
  <1> USE DEF CallInv, Goto, Resolved, Read, control
  <1>1. ASSUME NEW r \in Requests, Begin(r) PROVE CallInv'
    BY <1>1 DEF Begin
  <1>2. ASSUME Return PROVE CallInv'
    BY <1>2 DEF Return
  <1>3. ASSUME ResolveActorProfile PROVE CallInv'
    BY <1>3 DEF ResolveActorProfile, Resolves, InForce
  <1>4. ASSUME ListStores PROVE CallInv'
    BY <1>4 DEF ListStores
  <1>5. ASSUME ReadGrants PROVE CallInv'
    BY <1>5 DEF ReadGrants
  <1>6. ASSUME Built PROVE CallInv'
    <2>1. answer = {} /\ sub \in 1..Len(bindings) /\ UNCHANGED <<control, req, sub, auth, answer>>
      BY <1>6 DEF Built
    <2>2. \/ pc' = "open" /\ snap' = snap
          \/ pc' = "held" /\ snap' = [sub |-> sub, auth |-> auth]
      BY <1>6 DEF Built
    <2>3. [sub |-> sub, auth |-> auth] # None
      BY <2>1, BoundAssumption, SentinelAssumption DEF Snapshots, TypeOK
    <2> QED
      BY <1>6, <2>1, <2>2, <2>3 DEF Built
  <1>7. ASSUME Present PROVE CallInv'
    BY <1>7 DEF Present
  <1>8. ASSUME ListAuthorizedStores PROVE CallInv'
    BY <1>8 DEF ListAuthorizedStores
  <1>9. ASSUME IssueMemoryAccessPermit PROVE CallInv'
    BY <1>9 DEF IssueMemoryAccessPermit
  <1>10. ASSUME OpenStore PROVE CallInv'
    BY <1>10 DEF OpenStore
  <1>11. ASSUME OpenFails PROVE CallInv'
    BY <1>11 DEF OpenFails
  <1> QED
    BY <1>1, <1>2, <1>3, <1>4, <1>5, <1>6, <1>7, <1>8, <1>9, <1>10, <1>11 DEF CallStep

LEMMA BackedSame ==
  ASSUME UNCHANGED <<req, bindings, grants>>, NEW x, NEW n
  PROVE  Backed(x, n) => Backed(x, n)'
  BY DEF Backed

LEMMA BackedInvNext ==
  ASSUME TypeOK, CallInv, BackedInv, CallStep
  PROVE  BackedInv'
  <1> USE DEF Goto, control
  <1>1. ASSUME NEW r \in Requests, Begin(r) PROVE BackedInv'
    BY <1>1 DEF Begin, BackedInv, CallInv, Read
  <1>2. ASSUME Return PROVE BackedInv'
    BY <1>2 DEF Return, BackedInv, Read
  <1>3. ASSUME UNCHANGED <<req, bindings, grants, snap>>, \/ pc' \notin Read
                                                         \/ (pc \in Read /\ UNCHANGED <<sub, auth>>)
                                                         \/ auth' = {}
        PROVE  BackedInv'
    BY <1>3, BackedSame DEF BackedInv
  <1>4. ASSUME ReadGrants PROVE BackedInv'
    <2>1. pc = "grants" /\ UNCHANGED <<pc, req, sub, bindings, grants, snap>>
      BY <1>4, ReadGrantsAdmits
    <2>2. \A x \in auth' : x \in auth \/ Backed(x, sub)
      BY <1>4, ReadGrantsAdmits
    <2> QED
      BY <2>1, <2>2, BackedSame DEF BackedInv, Read
  <1>5. ASSUME Built PROVE BackedInv'
    <2>1. pc = "grants" /\ UNCHANGED <<req, sub, auth, bindings, grants>>
      BY <1>5 DEF Built
    <2>2. snap' = snap \/ (snap'.sub = sub /\ snap'.auth = auth)
      BY <1>5 DEF Built
    <2> QED
      BY <2>1, <2>2, BackedSame DEF BackedInv, Read
  <1>6. ASSUME \/ ResolveActorProfile \/ Present \/ ListStores \/ ListAuthorizedStores
               \/ IssueMemoryAccessPermit \/ OpenStore \/ OpenFails
        PROVE  BackedInv'
    <2>1. UNCHANGED <<req, bindings, grants, snap>>
      BY <1>6 DEF ResolveActorProfile, Present, ListStores, ListAuthorizedStores,
        IssueMemoryAccessPermit, OpenStore, OpenFails
    <2>2. CASE ResolveActorProfile \/ Present
      <3>1. pc' \notin Read
        BY <2>2 DEF ResolveActorProfile, Present, Read
      <3> QED
        BY <2>1, <3>1, BackedSame DEF BackedInv
    <2>3. CASE ListStores
      BY <1>3, <2>1, <2>3 DEF ListStores
    <2>4. CASE ListAuthorizedStores \/ IssueMemoryAccessPermit \/ OpenStore \/ OpenFails
      BY <1>3, <2>1, <2>4 DEF ListAuthorizedStores, IssueMemoryAccessPermit, OpenStore, OpenFails, Read
    <2> QED
      BY <1>6, <2>2, <2>3, <2>4
  <1> QED
    BY <1>1, <1>2, <1>4, <1>5, <1>6 DEF CallStep

LEMMA AnswerInvNext ==
  ASSUME TypeOK, CallInv, BackedInv, AnswerInv, CallStep
  PROVE  AnswerInv'
  <1> USE DEF Goto, control, Vouched
  <1>1. ASSUME NEW r \in Requests, Begin(r) PROVE AnswerInv'
    BY <1>1 DEF Begin, AnswerInv
  <1>2. ASSUME Return \/ ResolveActorProfile \/ ListStores \/ ReadGrants \/ Present PROVE AnswerInv'
    BY <1>2 DEF Return, ResolveActorProfile, ListStores, ReadGrants, Present, AnswerInv
  <1>3. ASSUME Built PROVE AnswerInv'
    <2>1. answer = {} /\ answer' = answer /\ pc' \in {"open", "held"}
      BY <1>3 DEF Built, CallInv
    <2> QED
      BY <2>1 DEF AnswerInv
  <1>4. ASSUME ListAuthorizedStores PROVE AnswerInv'
    <2>1. /\ pc = "grants" /\ pc' = "listed" /\ snap # None /\ sub = snap.sub /\ auth = snap.auth
          /\ UNCHANGED <<req, sub, auth, snap>>
      BY <1>4 DEF ListAuthorizedStores, SameDigest
    <2>2. \A x \in auth : req.at < x.until /\ x.until \in Nat
      BY <2>1, AccessAssumption DEF BackedInv, Backed, Read, TypeOK, Admitted
    <2>3. \A a \in answer' : \E x \in auth :
            a.store = x.store /\ a.grants = x.grants /\ a.until = x.until
      BY <1>4, <2>1 DEF ListAuthorizedStores
    <2>4. \A a \in answer' : \E x \in auth :
            a.store = x.store /\ a.grants = x.grants /\ req.at < a.until /\ a.until <= x.until
      BY <2>2, <2>3
    <2> QED
      BY <2>1, <2>4 DEF AnswerInv
  <1>5. ASSUME IssueMemoryAccessPermit PROVE AnswerInv'
    <2>1. /\ pc = "grants" /\ pc' = "issued" /\ snap # None /\ sub = snap.sub /\ auth = snap.auth
          /\ UNCHANGED <<req, sub, auth, snap>>
      BY <1>5 DEF IssueMemoryAccessPermit, SameDigest
    <2>2. PICK x \in auth :
            /\ Min({x.until, req.at + PermitTtl}) > req.at
            /\ answer' = {[store |-> x.store, grants |-> x.grants,
                            until |-> Min({x.until, req.at + PermitTtl})]}
      BY <1>5, <2>1 DEF IssueMemoryAccessPermit
    <2>x. PICK expires : expires = Min({x.until, req.at + PermitTtl})
      OBVIOUS
    <2>3. x.until \in Nat /\ req.at \in Nat /\ req.at + PermitTtl \in Nat
      BY <2>1, AccessAssumption DEF TypeOK, Admitted, CallInv, Requests
    <2>4. expires <= x.until /\ expires <= req.at + PermitTtl /\ expires \in Nat
      BY <2>3, <2>x, MinIsLeast
    <2>5. \A a \in answer' : a.store = x.store /\ a.grants = x.grants /\ a.until = expires
      BY <2>2, <2>x
    <2>6. \A a \in answer' :
            /\ a.store = x.store /\ a.grants = x.grants
            /\ req.at < a.until /\ a.until <= x.until /\ a.until <= req.at + PermitTtl
      BY <2>2, <2>3, <2>4, <2>5, <2>x
    <2> QED
      BY <2>1, <2>6 DEF AnswerInv
  <1>6. ASSUME OpenStore \/ OpenFails PROVE AnswerInv'
    <2>1. pc = "open" /\ pc' = pc /\ auth' = auth /\ answer' \subseteq answer \cup auth
      BY <1>6 DEF OpenStore, OpenFails
    <2> QED
      BY <2>1 DEF AnswerInv
  <1> QED
    BY <1>1, <1>2, <1>3, <1>4, <1>5, <1>6 DEF CallStep

LEMMA RevokedInvNext ==
  ASSUME TypeOK, CallInv, RevokedInv, CallStep
  PROVE  RevokedInv'
  <1> USE DEF Goto, control, Resolved, Read
  <1>1. ASSUME \/ \E r \in Requests : Begin(r)
               \/ Present
        PROVE  RevokedInv'
    <2>1. pc' = "resolve" /\ atStart' = Revoked /\ UNCHANGED <<bindings, grants>>
      BY <1>1 DEF Begin, Present
    <2> QED
      BY <2>1 DEF RevokedInv, Revoked
  <1>2. ASSUME Return PROVE RevokedInv'
    BY <1>2 DEF Return, RevokedInv
  <1>3. ASSUME pc # "idle", UNCHANGED <<bindings, grants, atStart>>,
               pc' \in Resolved => sub' \notin atStart.bindings,
               pc' \in Read => \A x \in auth' : x.grants \cap atStart.grants = {}
        PROVE  RevokedInv'
    BY <1>3 DEF RevokedInv, Revoked
  <1>4. ASSUME ResolveActorProfile PROVE RevokedInv'
    <2>1. sub' \notin Revoked.bindings
      BY <1>4 DEF ResolveActorProfile, Resolves, InForce, Revoked
    <2>2. pc = "resolve" /\ pc' = "stores" /\ UNCHANGED <<bindings, grants, atStart>>
      BY <1>4 DEF ResolveActorProfile
    <2> QED
      BY <1>3, <2>1, <2>2 DEF RevokedInv
  <1>5. ASSUME ListStores PROVE RevokedInv'
    BY <1>3, <1>5 DEF ListStores, history, RevokedInv
  <1>6. ASSUME ReadGrants PROVE RevokedInv'
    <2>1. pc = "grants" /\ UNCHANGED <<pc, bindings, grants, sub, atStart>>
      BY <1>6, ReadGrantsAdmits DEF history
    <2>2. \A x \in auth' : x \in auth \/ \A k \in x.grants : \E g \in grants : g.key = k /\ ~g.revoked
      BY <1>6, ReadGrantsAdmits
    <2>3. \A g \in grants : ~g.revoked => g.key \notin Revoked.grants
      BY DEF Revoked, TypeOK
    <2>4. \A x \in auth' : x.grants \cap atStart.grants = {}
      BY <2>1, <2>2, <2>3 DEF RevokedInv
    <2> QED
      BY <1>3, <2>1, <2>4 DEF RevokedInv
  <1>7. ASSUME \/ Built \/ ListAuthorizedStores \/ IssueMemoryAccessPermit
               \/ OpenStore \/ OpenFails
        PROVE  RevokedInv'
    <2>1. pc \in Read /\ UNCHANGED <<bindings, grants, sub, auth, atStart>>
      BY <1>7 DEF Built, ListAuthorizedStores, IssueMemoryAccessPermit, OpenStore, OpenFails, history
    <2> QED
      BY <1>3, <2>1 DEF RevokedInv
  <1> QED
    BY <1>1, <1>2, <1>4, <1>5, <1>6, <1>7 DEF CallStep

LEMMA RegisteredInvNext ==
  ASSUME TypeOK, CallInv, RegisteredInv, CallStep
  PROVE  RegisteredInv'
  <1> USE DEF Goto, control
  <1>1. ASSUME UNCHANGED <<profile, store, snap>>, pc' # "grants" PROVE RegisteredInv'
    BY <1>1 DEF RegisteredInv, Registered
  <1>2. ASSUME \/ \E r \in Requests : Begin(r)
               \/ ResolveActorProfile \/ Present \/ ListAuthorizedStores \/ IssueMemoryAccessPermit
               \/ OpenStore \/ OpenFails
        PROVE  RegisteredInv'
    <2>1. UNCHANGED <<profile, store, snap>> /\ pc' # "grants"
      BY <1>2 DEF Begin, ResolveActorProfile, Present, ListAuthorizedStores,
        IssueMemoryAccessPermit, OpenStore, OpenFails
    <2> QED
      BY <1>1, <2>1
  <1>3. ASSUME Return PROVE RegisteredInv'
    BY <1>3 DEF Return, RegisteredInv
  <1>4. ASSUME ListStores PROVE RegisteredInv'
    BY <1>4 DEF ListStores, RegisteredInv, Registered, StoreLive, ProfileLive
  <1>5. ASSUME ReadGrants PROVE RegisteredInv'
    <2>1. pc = "grants" /\ UNCHANGED <<pc, profile, store, snap>> /\ todo' \subseteq todo
      BY <1>5, ReadGrantsAdmits
    <2>2. \A x \in auth' : x \in auth \/ x.store \in todo
      BY <1>5, ReadGrantsAdmits
    <2> QED
      BY <2>1, <2>2 DEF RegisteredInv, Registered
  <1>6. ASSUME Built PROVE RegisteredInv'
    <2>1. pc = "grants" /\ pc' # "grants" /\ UNCHANGED <<profile, store>>
      BY <1>6 DEF Built
    <2>2. snap' = snap \/ snap'.auth = auth
      BY <1>6 DEF Built
    <2> QED
      BY <2>1, <2>2 DEF RegisteredInv, Registered
  <1> QED
    BY <1>2, <1>3, <1>4, <1>5, <1>6 DEF CallStep

\* The second reading of the binding finds the authority of the snapshot: what has
\* not been revoked of its grants still allows, at the instant of the request.
LEMMA ReadAgainDecides ==
  ASSUME TypeOK, CallInv, BackedInv, ResolveActorProfile, ReadAgain', NEW x \in snap.auth
  PROVE  /\ Unrevoked(x) => x.store \in atResolve'.authority
         /\ StoreLive(x.store) /\ x.store \in atResolve'.authority => x.store \in atResolve'.decision
  <1>1. /\ snap # None /\ UNCHANGED <<snap, req, bindings, grants>>
        /\ sub' = snap.sub
    BY DEF ResolveActorProfile, ReadAgain, control
  <1>2. PICK n \in 1..Len(bindings) : sub' = n /\ ProfileLive(bindings[n].profile)
    BY DEF ResolveActorProfile, Resolves
  <1>3. PICK p : p = bindings[n].profile
    OBVIOUS
  <1>4. /\ atResolve'.authority = {s \in Stores : Decide(p, s, GrantsOf(p, s), req.effect, req.at)}
        /\ atResolve'.decision = {s \in Stores : AuthorizeMemoryAccess(p, s, req.effect, req.at)}
    BY <1>2, <1>3 DEF ResolveActorProfile
  <1>5. x \in Admitted /\ x.store \in Stores /\ x.until \in Nat
    BY <1>1, AccessAssumption DEF TypeOK, Snapshots, Admitted
  <1>6. Backed(x, n)
    BY <1>1, <1>2 DEF BackedInv
  <1>7. ASSUME Unrevoked(x) PROVE Decide(p, x.store, GrantsOf(p, x.store), req.effect, req.at)
    <2>1. CASE x.grants = {}
      BY <1>3, <1>6, <2>1 DEF Backed, Decide
    <2>2. CASE x.grants # {}
      <3>1. PICK g \in grants : g.key \in x.grants /\ ~g.revoked
        BY <1>7, <2>2 DEF Unrevoked
      <3>2. PICK h \in grants : h.key = g.key /\ x.until <= h.until
        BY <1>6, <3>1 DEF Backed
      <3>3. g = h
        BY <3>1, <3>2 DEF TypeOK
      <3>4. req.at < g.until
        <4>1. req.at < x.until /\ x.until <= g.until
          BY <1>6, <3>2, <3>3 DEF Backed
        <4>2. g.until \in Nat /\ req.at \in Nat
          <5>1. pc # "idle"
            BY DEF ResolveActorProfile
          <5> QED
            BY <5>1, AccessAssumption DEF TypeOK, Grants, CallInv, Requests
        <4> QED
          BY <1>5, <4>1, <4>2
      <3>5. /\ g.key.grantee = p /\ g.key.store = x.store
            /\ g.key.effect = req.effect /\ g.key.from <= req.at
        BY <1>3, <1>6, <3>1 DEF Backed
      <3> QED
        BY <3>1, <3>4, <3>5 DEF Decide, GrantsOf, Allows
    <2> QED
      BY <2>1, <2>2
  <1>8. ASSUME StoreLive(x.store), x.store \in atResolve'.authority
        PROVE  x.store \in atResolve'.decision
    BY <1>2, <1>3, <1>4, <1>5, <1>8 DEF AuthorizeMemoryAccess
  <1> QED
    BY <1>4, <1>5, <1>7, <1>8

LEMMA LinearInvNext ==
  ASSUME TypeOK, CallInv, BackedInv, LinearInv, CallStep
  PROVE  LinearInv'
  <1> USE DEF Goto, control, history
  <1>1. ASSUME ~ReadAgain' \/ pc' \notin {"stores", "grants", "listed", "issued"} PROVE LinearInv'
    BY <1>1 DEF LinearInv
  <1>2. ASSUME NEW r \in Requests, Begin(r) PROVE LinearInv'
    BY <1>1, <1>2 DEF Begin
  <1>3. ASSUME Return \/ Built \/ Present \/ OpenStore \/ OpenFails PROVE LinearInv'
    BY <1>1, <1>3 DEF Return, Built, Present, OpenStore, OpenFails
  <1>4. ASSUME ResolveActorProfile, ReadAgain' PROVE LinearInv'
    <2>1. pc' = "stores" /\ UNCHANGED <<snap, reactivated>>
      BY <1>4 DEF ResolveActorProfile
    <2>2. UNCHANGED <<store, profile, device, grants>>
      BY <1>4 DEF ResolveActorProfile
    <2>3. \A x \in snap.auth : Unrevoked(x)' => x.store \in atResolve'.authority
      BY <1>4, <2>2, ReadAgainDecides DEF Unrevoked
    <2>4. \A x \in snap.auth : StoreLive(x.store)' => DecidedThen(x.store)'
      BY <1>4, <2>2, ReadAgainDecides DEF StoreLive, ProfileLive, DecidedThen
    <2> QED
      BY <2>1, <2>3, <2>4 DEF LinearInv
  <1>5. ASSUME ListStores, ReadAgain' PROVE LinearInv'
    <2>1. /\ pc = "stores" /\ pc' = "grants" /\ auth' = {}
          /\ UNCHANGED <<snap, sub, grants, atResolve, reactivated>>
          /\ \A s \in todo' : StoreLive(s)
      BY <1>5 DEF ListStores
    <2>2. ReadAgain
      BY <1>5, <2>1 DEF ReadAgain
    <2>3. \A x \in snap.auth : Unrevoked(x)' => x.store \in atResolve'.authority
      BY <2>1, <2>2 DEF LinearInv, Unrevoked
    <2>4. \A x \in snap.auth : x.store \in todo' => DecidedThen(x.store)'
      BY <2>1, <2>2 DEF LinearInv, DecidedThen
    <2> QED
      BY <2>1, <2>3, <2>4 DEF LinearInv
  <1>6. ASSUME ReadGrants, ReadAgain' PROVE LinearInv'
    <2>1. /\ pc = "grants" /\ UNCHANGED <<pc, sub, snap, grants, atResolve, reactivated>>
          /\ todo' \subseteq todo
      BY <1>6, ReadGrantsAdmits
    <2>2. ReadAgain
      BY <1>6, <2>1 DEF ReadAgain
    <2>3. \A x \in auth' : \/ x \in auth
                          \/ /\ x.store \in todo
                             /\ \A k \in x.grants : \E g \in grants : g.key = k /\ ~g.revoked
      BY <1>6, ReadGrantsAdmits
    <2>4. \A x \in auth' : x \in auth \/ (x.store \in todo /\ Unrevoked(x))
      BY <2>3 DEF Unrevoked
    <2>5. \A x \in auth' \cap snap.auth : x.store \in atResolve.authority /\ DecidedThen(x.store)
      BY <2>1, <2>2, <2>4 DEF LinearInv
    <2>6. \A x \in snap.auth : Unrevoked(x)' => x.store \in atResolve'.authority
      BY <2>1, <2>2 DEF LinearInv, Unrevoked
    <2>7. \A x \in snap.auth : x.store \in todo' => DecidedThen(x.store)'
      BY <2>1, <2>2 DEF LinearInv, DecidedThen
    <2> QED
      BY <2>1, <2>5, <2>6, <2>7 DEF LinearInv, DecidedThen
  <1>7. ASSUME ListAuthorizedStores \/ IssueMemoryAccessPermit, ReadAgain' PROVE LinearInv'
    <2>1. /\ pc = "grants" /\ pc' \in {"listed", "issued"}
          /\ UNCHANGED <<sub, snap, auth, atResolve, reactivated>>
      BY <1>7 DEF ListAuthorizedStores, IssueMemoryAccessPermit
    <2>2. ReadAgain
      BY <1>7, <2>1 DEF ReadAgain
    <2>3. \A x \in auth \cap snap.auth : x.store \in atResolve.authority /\ DecidedThen(x.store)
      BY <2>1, <2>2 DEF LinearInv
    <2> QED
      BY <2>1, <2>3 DEF LinearInv, DecidedThen
  <1> QED
    BY <1>1, <1>2, <1>3, <1>4, <1>5, <1>6, <1>7 DEF CallStep

-----------------------------------------------------------------------------
LEMMA InvInit == Init => IInv
  <1> SUFFICES ASSUME Init PROVE IInv
    OBVIOUS
  <1>1. TypeOK /\ BindingInv
    BY TypeInit, BindingInit
  <1>2. pc = "idle" /\ snap = None /\ auth = {} /\ answer = {} /\ Len(bindings) = 0
    BY DEF Init
  <1>3. CallInv
    BY <1>2, BoundAssumption DEF CallInv, Resolved, Read
  <1>4. BackedInv /\ AnswerInv /\ RevokedInv /\ RegisteredInv /\ LinearInv
    BY <1>2 DEF BackedInv, AnswerInv, Vouched, RevokedInv, RegisteredInv, LinearInv, ReadAgain,
      Resolved, Read
  <1> QED
    BY <1>1, <1>3, <1>4 DEF IInv

LEMMA InvNext == ASSUME IInv, [Next]_vars PROVE IInv'
  <1>1. BindingInv'
    BY BindingNext DEF IInv
  <1>2. CASE ControlStep \/ UNCHANGED vars
    <2>1. Interference
      BY <1>2, ControlInterferes DEF IInv
    <2>2. TypeOK'
      BY <1>1, <1>2, TypeControl DEF IInv, TypeOK, vars, control, call, history
    <2> QED
      BY <1>1, <2>1, <2>2, CallInvKept, BackedInvKept, AnswerInvKept, RevokedInvKept,
        RegisteredInvKept, LinearInvKept DEF IInv
  <1>3. CASE CallStep
    BY <1>1, <1>3, TypeCall, CallInvNext, BackedInvNext, AnswerInvNext, RevokedInvNext,
      RegisteredInvNext, LinearInvNext DEF IInv
  <1> QED
    BY <1>2, <1>3 DEF Next

LEMMA Invariance == Spec => []IInv
  BY InvInit, InvNext, PTL DEF Spec

\* Types, and the UNIQUE key of memory_access_grants, through every operation of
\* the control plane and every step of a call.
THEOREM TypeCorrect == Spec => []TypeOK
  <1>1. IInv => TypeOK
    BY DEF IInv
  <1> QED
    BY <1>1, Invariance, PTL

\* What a permit or a validated list admits was authorized at one instant, the
\* second reading of the binding, although snapshot and validation read the tables
\* in many sections with any operation of the control plane in between.
THEOREM PermitsLinearize == Spec => []PermitLinearizes
  <1>1. IInv => PermitLinearizes
    <2> SUFFICES ASSUME IInv, Vouched, NEW a \in answer
                 PROVE  /\ a.store \in atResolve.authority
                        /\ ~reactivated => a.store \in atResolve.decision
      BY DEF PermitLinearizes
    <2>1. snap # None /\ sub = snap.sub /\ auth = snap.auth
      BY DEF IInv, AnswerInv
    <2>2. PICK x \in auth : a.store = x.store
      BY DEF IInv, AnswerInv
    <2>3. x.store \in atResolve.authority /\ DecidedThen(x.store)
      BY <2>1, <2>2 DEF IInv, LinearInv, ReadAgain, Vouched
    <2> QED
      BY <2>2, <2>3 DEF DecidedThen
  <1> QED
    BY <1>1, Invariance, PTL

\* For as long as a permit lasts, the binding and a grant it rests on (or ownership)
\* last too, and it lasts at most PermitTtl.
THEOREM PermitsEndInTime == Spec => []PermitWithinWindows
  <1>1. IInv => PermitWithinWindows
    <2> SUFFICES ASSUME IInv, Vouched, NEW a \in answer
                 PROVE  /\ a.until > req.at
                        /\ pc = "issued" => a.until <= req.at + PermitTtl
                        /\ \A t \in Times : req.at <= t /\ t < a.until =>
                             /\ bindings[sub].from <= t /\ t < bindings[sub].until
                             /\ \/ StoreProfile[a.store] = bindings[sub].profile
                                \/ \E g \in grants : g.key \in a.grants /\ g.key.from <= t /\ t < g.until
      BY DEF PermitWithinWindows
    <2>1. PICK x \in auth : /\ a.store = x.store /\ a.grants = x.grants
                           /\ req.at < a.until /\ a.until <= x.until
      BY DEF IInv, AnswerInv
    <2>l. pc = "issued" => a.until <= req.at + PermitTtl
      BY DEF IInv, AnswerInv
    <2>2. PICK n \in 1..Len(bindings) : n = sub /\ bindings[n].from <= req.at
      BY DEF IInv, CallInv, Resolved, Read, Vouched
    <2>3. Backed(x, n)
      BY <2>2 DEF IInv, BackedInv, Read, Vouched
    <2>4. PICK at \in Nat, until \in Nat, last \in Nat : at = req.at /\ until = a.until /\ last = x.until
      <3>1. req \in Requests
        BY DEF IInv, CallInv, Vouched
      <3>2. req.at \in Nat
        BY <3>1, AccessAssumption DEF Requests
      <3>3. a.until \in Nat /\ x.until \in Nat
        BY AccessAssumption DEF IInv, TypeOK, Admitted
      <3> QED
        BY <3>2, <3>3
    <2>5. PICK b \in Bindings : b = bindings[n]
      BY BindingRow DEF IInv
    <2>6. b.from \in Nat /\ b.until \in Nat /\ b.from <= at /\ last <= b.until
      BY <2>2, <2>3, <2>4, <2>5, AccessAssumption DEF Bindings, Backed
    <2>7. at < until /\ until <= last
      BY <2>1, <2>4
    <2>8. a.grants = {} => StoreProfile[a.store] = b.profile
      BY <2>1, <2>3, <2>5 DEF Backed
    <2>9. \A k \in a.grants : k.from <= at /\ \E g \in grants : g.key = k /\ last <= g.until
      BY <2>1, <2>3, <2>4 DEF Backed
    <2>10. \A g \in grants : g.until \in Nat /\ g.key.from \in Nat
      BY AccessAssumption DEF IInv, TypeOK, Grants, GrantKeys
    <2>11. ASSUME NEW t \in Times, at <= t, t < until
           PROVE  /\ b.from <= t /\ t < b.until
                  /\ \/ StoreProfile[a.store] = b.profile
                     \/ \E g \in grants : g.key \in a.grants /\ g.key.from <= t /\ t < g.until
      <3>1. t \in Nat
        BY AccessAssumption
      <3>2. b.from <= t /\ t < b.until
        BY <2>6, <2>7, <2>11, <3>1
      <3>3. CASE a.grants = {}
        BY <2>8, <3>2, <3>3
      <3>4. CASE a.grants # {}
        <4>1. PICK k \in a.grants, g \in grants : k.from <= at /\ g.key = k /\ last <= g.until
          BY <2>9, <3>4
        <4>2. g.key.from <= t /\ t < g.until
          BY <2>7, <2>10, <2>11, <3>1, <4>1
        <4> QED
          BY <3>2, <4>1, <4>2
      <3> QED
        BY <3>3, <3>4
    <2> QED
      BY <2>l, <2>2, <2>4, <2>5, <2>7, <2>11
  <1> QED
    BY <1>1, Invariance, PTL

\* No store is opened, listed or permitted on a binding or a grant whose revocation
\* was complete when the call began.
THEOREM RevocationsAreRespected == Spec => []RevocationRespected
  <1>1. IInv => RevocationRespected
    <2> SUFFICES ASSUME IInv, NEW a \in answer
                 PROVE  sub \notin atStart.bindings /\ a.grants \cap atStart.grants = {}
      BY DEF RevocationRespected
    <2>1. pc \in {"listed", "issued", "open"}
      BY DEF IInv, CallInv
    <2>2. PICK x \in auth : a.grants = x.grants
      BY <2>1 DEF IInv, AnswerInv, Vouched
    <2> QED
      BY <2>1, <2>2 DEF IInv, RevokedInv, Resolved, Read
  <1> QED
    BY <1>1, Invariance, PTL
=============================================================================
