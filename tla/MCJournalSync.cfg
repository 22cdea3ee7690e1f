SPECIFICATION FairSpec
CONSTANTS
  Payloads = {p1, p2}
  Garbled = Garbled
  Callers = {c1, c2}
  MaxBatch = 2
  MaxSeq = 2
  MaxFail = 1
  None = None
INVARIANTS TypeOK ReplayedOnce SyncedIsDurable
PROPERTIES EventuallySynced
CHECK_DEADLOCK FALSE
