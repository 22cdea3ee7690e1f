SPECIFICATION Spec
CONSTANTS
  d1 = d1
  Devices = {d1, d2}
  ActorIds = {a1, a2}
  Secrets = {s1, s2, s3}
  Tasks = {t1, t2}
  Before <- MCBefore
  SecretSet = FALSE
  MaxRequests = 4
  MaxDisturb = 1
  None = None
SYMMETRY Symmetry
INVARIANTS TypeOK CatalogMirrorsDevices LostForGood CredentialIsHeld
CHECK_DEADLOCK FALSE
