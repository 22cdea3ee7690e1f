-------------------------- MODULE MCProfileAccess ---------------------------
(* Model-checking instances of ProfileAccess: the requester's device d1 has  *)
(* two profiles, of which only p1 is registered at the start; p2 on d2 owns   *)
(* a store that p1 and p3 may be granted, and d2 is the operator's device.    *)
EXTENDS ProfileAccess, TLC

CONSTANTS d1, d2, p1, p2, p3, a1, ns1, ns2

MCOwnerDevice == [p \in Profiles |-> IF p = p2 THEN d2 ELSE d1]
MCStoreProfile == (1 :> p1) @@ (2 :> p2)
MCNamespaceOf == (1 :> ns1) @@ (2 :> ns2)
MCActorDevice == a1 :> d1
=============================================================================
