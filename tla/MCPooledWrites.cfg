SPECIFICATION Spec
CONSTANTS
  Keys = {k1, k2}
  Digests = {d1, d2}
  Sources = {s1, s2}
  Contents = {t1, t2}
  Workers = {w1, w2}
  Overlap = FALSE
  MaxRows = 3
  MaxFail = 2
  None = None
SYMMETRY Symmetry
INVARIANTS TypeOK ImportIsWhole SourceStoredOnce
PROPERTY ImplementsSubmission
CHECK_DEADLOCK FALSE
