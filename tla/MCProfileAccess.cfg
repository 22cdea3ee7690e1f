SPECIFICATION Spec
CONSTANTS
  d1 = d1
  d2 = d2
  p1 = p1
  p2 = p2
  p3 = p3
  a1 = a1
  ns1 = ns1
  ns2 = ns2
  Devices = {d1, d2}
  Profiles = {p1, p2, p3}
  Stores = {1, 2}
  Actors = {a1}
  Namespaces = {ns1, ns2}
  Asked = {{}, {ns2}}
  Effects = {"search"}
  OwnerDevice <- MCOwnerDevice
  StoreProfile <- MCStoreProfile
  NamespaceOf <- MCNamespaceOf
  ActorDevice <- MCActorDevice
  OperatorDevice = d2
  Times = {0, 1, 2}
  PermitTtl = 1
  FirstProfiles = {p1, p2}
  FirstStores = {2}
  MaxBindings = 2
  MaxGrants = 2
  MaxOps = 4
  None = None
INVARIANTS TypeOK OneBindingInForce PermitLinearizes PermitWithinWindows RevocationRespected
CHECK_DEADLOCK FALSE
